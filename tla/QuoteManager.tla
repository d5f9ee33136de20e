---------------------------- MODULE QuoteManager ----------------------------
(***************************************************************************)
(* One QuoteManager.run() task of state_machine/synchronizer.py in LIVE    *)
(* mode, with the inventory it books into (InventoryManager), the order    *)
(* calls it awaits (OrderManager) and the exchange behind them.            *)
(*                                                                         *)
(* The task is a coroutine: it can be overtaken only while it awaits a     *)
(* network call or sleeps.  One action is one awaited call together with   *)
(* the synchronous code that follows it up to the next await.  The         *)
(* exchange, the order book poller and the clock move between any two of   *)
(* these actions, and so does risk_loop of main_daemon.py, which books into *)
(* the same inventory while the task and its orders live.                  *)
(*                                                                         *)
(* Prices are integers in sub-ticks, Tick of them to one tick (one cent);  *)
(* an average cost is rounded down to a sub-tick.                          *)
(***************************************************************************)
EXTENDS Integers

CONSTANTS
  Legs,            \* the legs with a token: {"UP", "DOWN"}, or one of them
  Books,           \* the touches [bid, ask] the poller may show; 0 is "no price"
  NoQuote,         \* the None of _bid[leg] and _ask[leg]
  Tick,            \* sub-ticks in tick_size
  CutTicks,        \* touch_cut_ticks
  MinProfitTicks,  \* min_profit_ticks
  MinShares,       \* min_order_shares
  SizeUsd,         \* size_usd
  InvCap,          \* touch_inventory_cap_usd
  MaxLegPrice,     \* max_leg_price
  NoAverageDown,   \* no_average_down
  RecycleByAge,    \* inventory_max_age_sec > 0
  Faults,          \* the failures the environment may produce, see below
  MaxChain,        \* bound: shares of a leg the account may own
  MaxOrphan        \* bound: untracked resting shares per leg and side

Sides == {"acquire", "release"}

\* poll: get_order raises; place: an order is refused; lost: the reply to an
\* accepted order is lost; cancel: a cancel request fails; terminate: the
\* exchange ends an order; sell: a market sell fails or its reply is lost;
\* thin: it fills in part; report: its reply misstates the size; oracle: the
\* balance read fails or is stale; die: the task is cancelled or raises; halt:
\* a halt trips, the market settles, and risk_loop books what is held.
FaultKinds == {"poll", "place", "lost", "cancel", "terminate", "sell", "thin",
               "report", "oracle", "die", "halt"}

Quote == [value : Nat, qty : Nat, booked : Nat]
Touch == [bid : Nat, ask : Nat]

ASSUME LegsAssumption == Legs # {} /\ Legs \subseteq {"UP", "DOWN"}
ASSUME BooksAssumption == \A t \in Books :
  t \in Touch /\ t.bid % Tick = 0 /\ t.ask % Tick = 0
ASSUME NoQuoteAssumption == NoQuote \notin Quote
ASSUME KnobsAssumption ==
  /\ Tick \in Nat \ {0} /\ MinShares \in Nat \ {0}
  /\ {CutTicks, MinProfitTicks, SizeUsd, InvCap, MaxLegPrice} \subseteq Nat
  /\ NoAverageDown \in BOOLEAN /\ RecycleByAge \in BOOLEAN
  /\ Faults \subseteq FaultKinds
  /\ MaxChain \in Nat /\ MaxOrphan \in Nat

VARIABLES
  phase,   \* time to resolution: "open", inside t_cancel_sec, or "closed"
  touch,   \* touch[leg]: the poller's current best bid and ask
  inv,     \* inv[leg]: shares held and their average cost, as booked
  aged,    \* aged[leg]: now - _opened_ts[leg] > _max_age
  quote,   \* quote[leg][side]: _bid and _ask
  ex,      \* ex[leg][side]: the tracked order on the exchange
  orphan,  \* orphan[leg][side]: resting shares of orders nobody tracks
  chain,   \* chain[leg]: the outcome tokens the account really owns
  plan,    \* what the call in progress of the handler still has to do
  pc       \* where the task is suspended

env == <<phase, touch>>
books == <<inv, aged, quote>>
world == <<ex, orphan, chain>>
vars == <<phase, touch, inv, aged, quote, ex, orphan, chain, plan, pc>>

-----------------------------------------------------------------------------
(* What a leg wants from each of its two quotes, and a sale to make.       *)

Keep == [do |-> "keep", value |-> 0, qty |-> 0]
Drop == [do |-> "drop", value |-> 0, qty |-> 0]
Post(v, n) == [do |-> "post", value |-> v, qty |-> n]

Want == [do : {"keep", "drop", "post"}, value : Nat, qty : Nat]
Plan == [acquire : Want, release : Want, exit : Nat]

Idle == [acquire |-> Keep, release |-> Keep, exit |-> 0]
DropAll == [acquire |-> Drop, release |-> Drop, exit |-> 0]

-----------------------------------------------------------------------------
(* The inventory of one leg: InventoryManager on its UP or DOWN half.      *)

Position == [shares : Nat, cost : Nat]
Flat == [shares |-> 0, cost |-> 0]

ApplyBuy(p, n, v) ==
  [shares |-> p.shares + n,
   cost   |-> (p.shares * p.cost + n * v) \div (p.shares + n)]

Reduce(p, left) == IF left = 0 THEN Flat ELSE [p EXCEPT !.shares = left]

\* A sale is capped at the shares held.
ApplySell(p, n) == Reduce(p, IF n < p.shares THEN p.shares - n ELSE 0)

\* Only ever reduces: a balance above the booked one changes nothing.
ReconcileToChain(p, onchain) == IF onchain < p.shares THEN Reduce(p, onchain) ELSE p

Held(leg) == inv[leg].shares * inv[leg].cost
Sellable(leg) == inv[leg].shares >= MinShares

-----------------------------------------------------------------------------
(* The decisions of _quote_leg.                                            *)

Resting(leg, side) == quote[leg][side] # NoQuote

\* An accumulating order spends SizeUsd but never less than the minimum lot.
Lot(price) == IF SizeUsd \div price > MinShares THEN SizeUsd \div price ELSE MinShares

MustExit(leg, t) ==
  /\ Sellable(leg)
  /\ \/ t.bid <= inv[leg].cost - CutTicks * Tick
     \/ RecycleByAge /\ aged[leg]

\* Mutant: the comparison starts a tick too low.
AveragingDownLate(leg, t) ==
  NoAverageDown /\ inv[leg].shares > 0 /\ t.bid < inv[leg].cost - Tick

AveragingDown(leg, t) ==
  NoAverageDown /\ inv[leg].shares > 0 /\ t.bid < inv[leg].cost

\* Mutant: the cap is forgotten for a leg that is already held.
MayAccumulateUncapped(leg, t, guarded) ==
  /\ t.bid <= MaxLegPrice
  /\ Held(leg) < InvCap \/ inv[leg].shares > 0
  /\ ~guarded
  /\ ~AveragingDown(leg, t)

MayAccumulate(leg, t, guarded) ==
  /\ t.bid <= MaxLegPrice
  /\ Held(leg) < InvCap
  /\ ~guarded
  /\ ~AveragingDown(leg, t)

AskPrice(leg, t) ==
  LET floor == inv[leg].cost + MinProfitTicks * Tick
  IN  IF t.ask > floor THEN t.ask ELSE floor

WantBid(leg, t, guarded) ==
  CASE ~MayAccumulate(leg, t, guarded) -> Drop
    [] MayAccumulate(leg, t, guarded) /\ Resting(leg, "acquire")
       /\ quote[leg]["acquire"].value = t.bid -> Keep
    [] OTHER -> Post(t.bid, Lot(t.bid))

\* Mutant: an ask is reposted when the shares grow, not when its price moves.
WantAskStale(leg, t) ==
  CASE ~Sellable(leg) -> Drop
    [] Sellable(leg) /\ Resting(leg, "release")
       /\ inv[leg].shares <= quote[leg]["release"].qty -> Keep
    [] OTHER -> Post(AskPrice(leg, t), inv[leg].shares)

WantAsk(leg, t) ==
  CASE ~Sellable(leg) -> Drop
    [] Sellable(leg) /\ Resting(leg, "release")
       /\ quote[leg]["release"].value = AskPrice(leg, t)
       /\ inv[leg].shares <= quote[leg]["release"].qty -> Keep
    [] OTHER -> Post(AskPrice(leg, t), inv[leg].shares)

\* Mutant: an exit leaves the resting ask in place.
DecideKeepingAsk(leg, t, guarded) ==
  CASE t.bid = 0 \/ t.ask = 0 -> DropAll
    [] t.bid # 0 /\ t.ask # 0 /\ MustExit(leg, t) ->
         [acquire |-> Keep, release |-> Keep, exit |-> inv[leg].shares]
    [] OTHER -> [acquire |-> WantBid(leg, t, guarded),
                 release |-> WantAsk(leg, t), exit |-> 0]

Decide(leg, t, guarded) ==
  CASE t.bid = 0 \/ t.ask = 0 -> DropAll
    [] t.bid # 0 /\ t.ask # 0 /\ MustExit(leg, t) ->
         [acquire |-> Keep, release |-> Drop, exit |-> inv[leg].shares]
    [] OTHER -> [acquire |-> WantBid(leg, t, guarded),
                 release |-> WantAsk(leg, t), exit |-> 0]

\* place_resting rounds the price it posts to a tick; the local record keeps
\* the unrounded one.  A tie may go either way in binary floats: down here.
Posted(value) == ((2 * value + Tick - 1) \div (2 * Tick)) * Tick

-----------------------------------------------------------------------------
(* Control.  run() loops over the legs in one of three ways: quoting them  *)
(* ("cycle"), cancelling their quotes ("clear"), selling what is held      *)
(* ("flatten").  final is set when the clear and flatten are the last.     *)

FirstLeg == IF "UP" \in Legs THEN "UP" ELSE "DOWN"
LastLeg == IF "DOWN" \in Legs THEN "DOWN" ELSE "UP"

Loops == {"cycle", "clear", "flatten"}
Awaits == {"sleep", "poll", "cancel", "place", "sell", "reconcile"}
Points == Awaits \cup {"quote", "flatten", "done", "dead"}
Control == [at : Points, loop : Loops, leg : Legs, side : Sides, final : BOOLEAN]

Entry(loop) == CASE loop = "cycle" -> "poll"
                 [] loop = "clear" -> "cancel"
                 [] OTHER -> "flatten"

Enter(loop, leg) ==
  [pc EXCEPT !.at = Entry(loop), !.loop = loop, !.leg = leg, !.side = "acquire"]

Rest(at) == [at |-> at, loop |-> "cycle", leg |-> FirstLeg,
             side |-> "acquire", final |-> FALSE]

\* Mutant: the flatten starts when the quotes of one leg are cancelled.
AfterLegEager ==
  CASE pc.loop = "clear" -> Enter("flatten", FirstLeg)
    [] pc.loop # "clear" /\ pc.leg # LastLeg -> Enter(pc.loop, LastLeg)
    [] pc.loop = "cycle" /\ pc.leg = LastLeg -> Rest("sleep")
    [] OTHER -> Rest(IF pc.final THEN "done" ELSE "sleep")

\* Mutant: run() goes round again after the last flatten.
AfterLegForEver ==
  CASE pc.leg # LastLeg -> Enter(pc.loop, LastLeg)
    [] pc.leg = LastLeg /\ pc.loop = "clear" -> Enter("flatten", FirstLeg)
    [] OTHER -> Rest("sleep")

AfterLeg ==
  CASE pc.leg # LastLeg -> Enter(pc.loop, LastLeg)
    [] pc.leg = LastLeg /\ pc.loop = "cycle" -> Rest("sleep")
    [] pc.leg = LastLeg /\ pc.loop = "clear" -> Enter("flatten", FirstLeg)
    [] OTHER -> Rest(IF pc.final THEN "done" ELSE "sleep")

\* The side's quote has been dealt with.
AfterSide ==
  CASE pc.side = "acquire" -> [pc EXCEPT !.at = "cancel", !.side = "release"]
    [] pc.side = "release" /\ plan.exit > 0 -> [pc EXCEPT !.at = "sell"]
    [] OTHER -> AfterLeg

\* Go to next; a plan does not outlive the handler that made it.
Continue(next) ==
  /\ pc' = next
  /\ plan' = IF next.leg = pc.leg /\ next.loop = pc.loop /\ next.at # "sleep"
             THEN plan
             ELSE IF next.at = "cancel" THEN DropAll ELSE Idle

Gone == [filled |-> 0, open |-> FALSE]
Order == [filled : Nat, open : BOOLEAN]

\* Shares the tracked order still has resting on the exchange.
Remainder(leg, side) ==
  IF Resting(leg, side) /\ ex[leg][side].open
  THEN quote[leg][side].qty - ex[leg][side].filled ELSE 0

Forget(leg, side) ==
  /\ quote' = [quote EXCEPT ![leg][side] = NoQuote]
  /\ ex' = [ex EXCEPT ![leg][side] = Gone]

Abandon(leg, side, n) ==
  /\ orphan[leg][side] + n <= MaxOrphan
  /\ orphan' = [orphan EXCEPT ![leg][side] = @ + n]

-----------------------------------------------------------------------------
Init ==
  /\ phase = "open"
  /\ touch = [leg \in Legs |-> [bid |-> 0, ask |-> 0]]
  /\ inv = [leg \in Legs |-> Flat]
  /\ aged = [leg \in Legs |-> TRUE]
  /\ quote = [leg \in Legs |-> [side \in Sides |-> NoQuote]]
  /\ ex = [leg \in Legs |-> [side \in Sides |-> Gone]]
  /\ orphan = [leg \in Legs |-> [side \in Sides |-> 0]]
  /\ chain = [leg \in Legs |-> 0]
  /\ plan = Idle
  /\ pc = Rest("sleep")

\* Mutant: the task quotes until the close, whatever t_cancel_sec says.
WakeQuoting ==
  /\ pc.at = "sleep"
  /\ LET loop == IF phase # "closed" THEN "cycle" ELSE "clear"
     IN  /\ pc' = [Enter(loop, FirstLeg) EXCEPT !.final = (phase = "closed")]
         /\ plan' = IF loop = "clear" THEN DropAll ELSE Idle
  /\ UNCHANGED <<env, books, world>>

(* The top of the loop in run(): quote, or clear and flatten near or at    *)
(* the close.                                                              *)
Wake ==
  /\ pc.at = "sleep"
  /\ LET loop == IF phase = "open" THEN "cycle" ELSE "clear"
     IN  /\ pc' = [Enter(loop, FirstLeg) EXCEPT !.final = (phase = "closed")]
         /\ plan' = IF loop = "clear" THEN DropAll ELSE Idle
  /\ UNCHANGED <<env, books, world>>

(* _check_fills_live on one side: book what the order filled since the     *)
(* last poll, and drop the quote when the exchange says the order is over. *)
(* A bid is quoted at a price of the book, so it is posted unrounded.      *)
\* Mutant: the ask is polled only while there is no bid.
AfterPollEager ==
  IF pc.side = "acquire" /\ ~Resting(pc.leg, "acquire")
  THEN [pc EXCEPT !.side = "release"]
  ELSE [pc EXCEPT !.at = "quote", !.side = "acquire"]

AfterPoll ==
  IF pc.side = "acquire" THEN [pc EXCEPT !.side = "release"]
                         ELSE [pc EXCEPT !.at = "quote", !.side = "acquire"]

BookFill(leg, side, n, value) ==
  LET p == IF side = "acquire" THEN ApplyBuy(inv[leg], n, value)
                               ELSE ApplySell(inv[leg], n)
  IN  /\ inv' = [inv EXCEPT ![leg] = p]
      /\ aged' = [aged EXCEPT ![leg] =
                    IF side = "acquire" THEN @ /\ inv[leg].shares > 0
                                        ELSE @ \/ p.shares = 0]

\* The cumulative size_matched of get_order, and what of it is not booked yet.
\* Mutant: another field is read, the size of the order.
MatchedAsSize(leg, side) ==
  IF ex[leg][side].filled > 0 THEN quote[leg][side].qty ELSE 0

Matched(leg, side) == ex[leg][side].filled

\* Mutant: what filled with the last of an order is not booked.
NewlyWhileOpen(leg, side) ==
  IF ex[leg][side].open THEN Matched(leg, side) - quote[leg][side].booked ELSE 0

Newly(leg, side) == Matched(leg, side) - quote[leg][side].booked

Poll ==
  LET leg == pc.leg  side == pc.side
      newly == Newly(leg, side)
  IN  /\ pc.at = "poll"
      /\ Resting(leg, side)
      /\ IF newly > 0 THEN BookFill(leg, side, newly, quote[leg][side].value)
                      ELSE UNCHANGED <<inv, aged>>
      /\ IF ex[leg][side].open
         THEN /\ quote' = [quote EXCEPT ![leg][side].booked = Matched(leg, side)]
              /\ UNCHANGED ex
         ELSE Forget(leg, side)
      /\ Continue(AfterPoll)
      /\ UNCHANGED <<env, orphan, chain>>

\* Nothing to poll, or a poll error: reported as open with no fill.
PollNothing ==
  /\ pc.at = "poll"
  /\ Resting(pc.leg, pc.side) => "poll" \in Faults
  /\ Continue(AfterPoll)
  /\ UNCHANGED <<env, books, world>>

(* _quote_leg up to its first await.  The consensus feed, when there is    *)
(* one, may call the drift guard either way.                               *)
QuoteLeg ==
  /\ pc.at = "quote"
  /\ \E guarded \in BOOLEAN : plan' = Decide(pc.leg, touch[pc.leg], guarded)
  /\ pc' = [pc EXCEPT !.at = "cancel"]
  /\ UNCHANGED <<env, books, world>>

AfterCancel ==
  IF plan[pc.side].do = "post" THEN [pc EXCEPT !.at = "place"] ELSE AfterSide

\* The quote stays as it is, or there is none to cancel.
CancelNothing ==
  /\ pc.at = "cancel"
  /\ plan[pc.side].do = "keep" \/ ~Resting(pc.leg, pc.side)
  /\ Continue(IF plan[pc.side].do = "keep" THEN AfterSide ELSE AfterCancel)
  /\ UNCHANGED <<env, books, world>>

(* _cancel forgets the quote whatever the canceller answers and whatever   *)
(* the order filled since it was last polled.                              *)
Cancel ==
  /\ pc.at = "cancel"
  /\ plan[pc.side].do # "keep" /\ Resting(pc.leg, pc.side)
  /\ Forget(pc.leg, pc.side)
  /\ \/ UNCHANGED orphan
     \/ "cancel" \in Faults /\ Abandon(pc.leg, pc.side, Remainder(pc.leg, pc.side))
  /\ Continue(AfterCancel)
  /\ UNCHANGED <<env, inv, aged, chain>>

\* The exchange takes no offer of tokens the account does not own.
Acceptable(leg, side, n) == side = "release" => n <= chain[leg]

(* _record_quote: the quote is recorded only when place_resting returns an *)
(* order id.                                                               *)
Place ==
  LET leg == pc.leg  side == pc.side  want == plan[side]
  IN  /\ pc.at = "place"
      /\ Acceptable(leg, side, want.qty)
      /\ quote' = [quote EXCEPT ![leg][side] =
                     [value |-> want.value, qty |-> want.qty, booked |-> 0]]
      /\ ex' = [ex EXCEPT ![leg][side] = [filled |-> 0, open |-> TRUE]]
      /\ Continue(AfterSide)
      /\ UNCHANGED <<env, inv, aged, orphan, chain>>

PlaceFails ==
  LET want == plan[pc.side]
  IN  /\ pc.at = "place"
      /\ \/ /\ "place" \in Faults \/ ~Acceptable(pc.leg, pc.side, want.qty)
            /\ UNCHANGED orphan
         \/ /\ "lost" \in Faults /\ Acceptable(pc.leg, pc.side, want.qty)
            /\ Abandon(pc.leg, pc.side, want.qty)
      /\ Continue(AfterSide)
      /\ UNCHANGED <<env, books, ex, chain>>

-----------------------------------------------------------------------------
(* _flatten and _market_sell.                                              *)

Flatten ==
  LET leg == pc.leg
  IN  /\ pc.at = "flatten"
      /\ IF inv[leg].shares > 0 /\ touch[leg].bid # 0
         THEN /\ pc' = [pc EXCEPT !.at = "sell"]
              /\ plan' = [Idle EXCEPT !.exit = inv[leg].shares]
         ELSE Continue(AfterLeg)
      /\ UNCHANGED <<env, books, world>>

\* The cut and the recycle reset _opened_ts after the sale, done or not.
StampSold == aged' = [aged EXCEPT ![pc.leg] = @ \/ pc.loop = "cycle"]

SharesSold(n) == IF "thin" \in Faults THEN 1 .. n ELSE {n}
SharesReported(n, sold) == IF "report" \in Faults THEN 1 .. n ELSE {sold}

\* submit_sell_market took place and its reply says how many shares it sold.
Sell ==
  LET leg == pc.leg  n == plan.exit
  IN  /\ pc.at = "sell"
      /\ n <= chain[leg]
      /\ \E sold \in SharesSold(n) : \E reported \in SharesReported(n, sold) :
           /\ chain' = [chain EXCEPT ![leg] = @ - sold]
           /\ inv' = [inv EXCEPT ![leg] = ApplySell(@, reported)]
      /\ pc' = [pc EXCEPT !.at = "reconcile"]
      /\ UNCHANGED <<env, aged, quote, ex, orphan, plan>>

\* It was refused, or an exception hid what it did.
SellFails ==
  LET leg == pc.leg  n == plan.exit
  IN  /\ pc.at = "sell"
      /\ \/ /\ "sell" \in Faults \/ n > chain[leg]
            /\ UNCHANGED chain
         \/ /\ "sell" \in Faults /\ n <= chain[leg]
            /\ \E sold \in SharesSold(n) : chain' = [chain EXCEPT ![leg] = @ - sold]
      /\ StampSold
      /\ Continue(AfterLeg)
      /\ UNCHANGED <<env, inv, quote, ex, orphan>>

(* The balance read after a sale: current, or with the oracle fault stale  *)
(* on the high side, or absent.                                            *)
Reconcile ==
  LET leg == pc.leg
      reads == IF "oracle" \in Faults THEN chain[leg] .. MaxChain ELSE {chain[leg]}
  IN  /\ pc.at = "reconcile"
      /\ \/ \E onchain \in reads :
              inv' = [inv EXCEPT ![leg] = ReconcileToChain(@, onchain)]
         \/ "oracle" \in Faults /\ UNCHANGED inv
      /\ StampSold
      /\ Continue(AfterLeg)
      /\ UNCHANGED <<env, quote, world>>

-----------------------------------------------------------------------------
(* The task is cancelled or raises while it awaits.  A call handed to a    *)
(* thread is not stopped by that: it may still land.                       *)

\* What the call in flight adds to the resting shares of a side: an order
\* being placed may rest after all, one being cancelled may be gone.
InFlight(leg, side) ==
  LET here == leg = pc.leg /\ side = pc.side
  IN  CASE here /\ pc.at = "place" /\ Acceptable(leg, side, plan[side].qty) ->
             {0, plan[side].qty}
        [] here /\ pc.at = "cancel" /\ plan[side].do # "keep" ->
             {0, Remainder(leg, side)}
        [] OTHER -> {Remainder(leg, side)}

Die ==
  /\ "die" \in Faults
  /\ pc.at \in Awaits
  /\ \E landed \in InFlight(pc.leg, pc.side) :
       LET left(leg, side) == orphan[leg][side] +
             IF leg = pc.leg /\ side = pc.side THEN landed ELSE Remainder(leg, side)
       IN  /\ \A leg \in Legs, side \in Sides : left(leg, side) <= MaxOrphan
           /\ orphan' = [leg \in Legs |-> [side \in Sides |-> left(leg, side)]]
  /\ \/ UNCHANGED chain
     \/ /\ pc.at = "sell" /\ plan.exit <= chain[pc.leg]
        /\ \E sold \in SharesSold(plan.exit) :
             chain' = [chain EXCEPT ![pc.leg] = @ - sold]
  /\ quote' = [leg \in Legs |-> [side \in Sides |-> NoQuote]]
  /\ ex' = [leg \in Legs |-> [side \in Sides |-> Gone]]
  /\ pc' = Rest("dead")
  /\ plan' = Idle
  /\ UNCHANGED <<env, inv, aged>>

(* Discovery starts a new QuoteManager on the market, in this process or   *)
(* the next: the inventory is kept, the quotes and the open times are not. *)
Respawn ==
  /\ pc.at = "dead" /\ phase # "closed"
  /\ pc' = Rest("sleep")
  /\ aged' = [leg \in Legs |-> TRUE]
  /\ UNCHANGED <<env, inv, quote, world, plan>>

-----------------------------------------------------------------------------
(* risk_loop, which asks no task: it books a leg and leaves its quotes, its *)
(* open time and the call in progress as they are.  After a trip it visits *)
(* the legs one by one, awaits an alert and, if it is still halted, cancels*)
(* the task (Die); a halt lifted meanwhile leaves the task running.        *)

\* _neutralize_all_open, one leg: booked as sold at its bid, nothing is sent.
Neutralize(leg) ==
  /\ "halt" \in Faults
  /\ inv[leg].shares > 0 /\ touch[leg].bid # 0
  /\ inv' = [inv EXCEPT ![leg] = ApplySell(@, @.shares)]
  /\ UNCHANGED <<env, aged, quote, world, plan, pc>>

\* mark_resolution by reconcile_closed_inventory, both legs at once: Gamma may
\* call the market closed before the task's own clock does.
MarkResolution ==
  /\ "halt" \in Faults
  /\ \E leg \in Legs : inv[leg].shares > 0
  /\ inv' = [leg \in Legs |-> Flat]
  /\ UNCHANGED <<env, aged, quote, world, plan, pc>>

RiskLoop == MarkResolution \/ \E leg \in Legs : Neutralize(leg)

-----------------------------------------------------------------------------
(* The exchange, the order book poller and the clock.                      *)

CanFill(leg, side) ==
  IF side = "acquire" THEN chain[leg] < MaxChain ELSE chain[leg] > 0

Trade(leg, side) ==
  chain' = [chain EXCEPT ![leg] = IF side = "acquire" THEN @ + 1 ELSE @ - 1]

Fill(leg, side) ==
  /\ Resting(leg, side) /\ ex[leg][side].open /\ CanFill(leg, side)
  /\ Trade(leg, side)
  /\ ex' = [ex EXCEPT ![leg][side] =
              [filled |-> @.filled + 1,
               open   |-> @.filled + 1 < quote[leg][side].qty]]
  /\ UNCHANGED <<env, books, orphan, plan, pc>>

OrphanFill(leg, side) ==
  /\ orphan[leg][side] > 0 /\ CanFill(leg, side)
  /\ Trade(leg, side)
  /\ orphan' = [orphan EXCEPT ![leg][side] = @ - 1]
  /\ UNCHANGED <<env, books, ex, plan, pc>>

Terminate(leg, side) ==
  /\ "terminate" \in Faults
  /\ Resting(leg, side) /\ ex[leg][side].open
  /\ ex' = [ex EXCEPT ![leg][side].open = FALSE]
  /\ UNCHANGED <<env, books, orphan, chain, plan, pc>>

MoveBook(leg) ==
  /\ \E t \in Books \ {touch[leg]} : touch' = [touch EXCEPT ![leg] = t]
  /\ UNCHANGED <<phase, books, world, plan, pc>>

Age(leg) ==
  /\ RecycleByAge /\ ~aged[leg]
  /\ aged' = [aged EXCEPT ![leg] = TRUE]
  /\ UNCHANGED <<env, inv, quote, world, plan, pc>>

TimePasses ==
  /\ phase # "closed"
  /\ phase' = IF phase = "open" THEN "lock" ELSE "closed"
  /\ UNCHANGED <<touch, books, world, plan, pc>>

-----------------------------------------------------------------------------
Step == \/ Wake \/ Poll \/ PollNothing \/ QuoteLeg \/ CancelNothing \/ Cancel
        \/ Place \/ PlaceFails \/ Flatten \/ Sell \/ SellFails \/ Reconcile

Environment ==
  \/ TimePasses
  \/ \E leg \in Legs :
       \/ MoveBook(leg) \/ Age(leg)
       \/ \E side \in Sides :
            Fill(leg, side) \/ OrphanFill(leg, side) \/ Terminate(leg, side)

Next == Step \/ Die \/ Respawn \/ RiskLoop \/ Environment

Spec == Init /\ [][Next]_vars

\* The event loop resumes the task once its awaited call is answered, and
\* every call is (each client call has a timeout or an error path).
FairSpec == Spec /\ WF_vars(Step)
-----------------------------------------------------------------------------
(* Properties.                                                             *)

\* Every variable stays in its type; an order never fills beyond its size and
\* is never booked beyond what it filled (_check_fills_live books deltas).
TypeOK ==
  /\ phase \in {"open", "lock", "closed"}
  /\ touch \in [Legs -> Touch]
  /\ inv \in [Legs -> Position]
  /\ aged \in [Legs -> BOOLEAN]
  /\ quote \in [Legs -> [Sides -> Quote \cup {NoQuote}]]
  /\ ex \in [Legs -> [Sides -> Order]]
  /\ \A leg \in Legs, side \in Sides : Resting(leg, side) =>
       /\ quote[leg][side].booked <= ex[leg][side].filled
       /\ ex[leg][side].filled <= quote[leg][side].qty
  /\ orphan \in [Legs -> [Sides -> Nat]]
  /\ chain \in [Legs -> Nat]
  /\ plan \in Plan
  /\ pc \in Control

\* What a resting ask still has to sell as far as booked, the size of an ask
\* decided on and not yet placed, and how far the larger exceeds the shares held.
AskDue(leg) ==
  IF Resting(leg, "release")
  THEN quote[leg]["release"].qty - quote[leg]["release"].booked ELSE 0

AskSized(leg) ==
  IF leg = pc.leg /\ pc.at \in {"cancel", "place"} /\ plan.release.do = "post"
  THEN plan.release.qty ELSE 0

Uncovered(leg) ==
  LET due == IF AskDue(leg) > AskSized(leg) THEN AskDue(leg) ELSE AskSized(leg)
  IN  IF due > inv[leg].shares THEN due - inv[leg].shares ELSE 0

\* An ask, from the snapshot of the shares it is sized by to its last fill, is
\* covered by the shares held: no step of the task, in no order of cancels,
\* sales, balance reads and partial fills, uncovers one, so its fills are
\* booked in full under "no shorting".  Only risk_loop does, which books a leg
\* under a live ask; the task never widens that shortfall.
AsksStayCovered ==
  [][\A leg \in Legs : Uncovered(leg)' <= Uncovered(leg) \/ RiskLoop]_vars

\* What is booked on a leg costs less than the cap plus one lot: the cap is
\* only looked at when a bid is placed or kept, and the bid may then fill
\* bit by bit while further cycles keep it.
ExposureBound ==
  \A leg \in Legs : Held(leg) > 0 =>
    \E t \in Books : t.bid > 0 /\ Held(leg) < InvCap + Lot(t.bid) * t.bid

\* With no_average_down, the average cost of a held leg never falls: no fill
\* of any bid, however old the bid, is below the cost of what is held when it
\* is booked.
CostNeverFalls ==
  [][NoAverageDown =>
       \A leg \in Legs : inv[leg].shares > 0 /\ inv'[leg].shares > 0 =>
                           inv'[leg].cost >= inv[leg].cost]_vars

\* Fills that the next poll of a tracked order has to book.
Unbooked(leg, side) ==
  IF Resting(leg, side) THEN ex[leg][side].filled - quote[leg][side].booked ELSE 0

\* Shares the account owns beyond those booked, now and once those fills are.
Drift(leg) == chain[leg] - inv[leg].shares

Gap(leg) == Drift(leg) - Unbooked(leg, "acquire") + Unbooked(leg, "release")

\* The books and the chain come apart only where the code lets them: when a
\* tracked order is cancelled or its task dies, by the fills nobody polled and
\* no more; when an order that nobody tracks fills; at a market sale or the
\* balance read after it; when risk_loop books without selling; and when an ask
\* it left uncovered fills past the shares held.  No other poll, a partial or
\* a complete fill, an error, the last of an order, counts a share twice or
\* loses one, and neither does placing, replanning or an order ended early.
GapExplained ==
  [][\A leg \in Legs :
       \/ Gap(leg)' = Gap(leg)
       \/ (Cancel \/ Die) /\ Drift(leg)' = Drift(leg)
       \/ leg = pc.leg /\ pc.at = "sell" /\ (Sell \/ SellFails \/ Die)
       \/ leg = pc.leg /\ Reconcile
       \/ \E side \in Sides : OrphanFill(leg, side)
       \/ RiskLoop
       \/ /\ Poll /\ leg = pc.leg /\ pc.side = "release"
          /\ Unbooked(leg, "release") > inv[leg].shares
          /\ inv'[leg].shares = 0]_vars

\* While the task sleeps, every resting ask is at least a full profit above
\* the average cost as recorded, and its posted price is above that cost: an
\* ask is reposted when the cost it was priced by moves under it.
AskProfitable ==
  pc.at = "sleep" /\ MinProfitTicks > 0 =>
    \A leg \in Legs : Resting(leg, "release") =>
      /\ quote[leg]["release"].value >= inv[leg].cost + MinProfitTicks * Tick
      /\ Posted(quote[leg]["release"].value) > inv[leg].cost

\* From the moment it starts selling near the close until its next quoting
\* cycle, and for good once it is done, the task tracks no quote on any leg.
QuietWhenFlattening ==
  pc.loop = "flatten" \/ pc.at = "done" =>
    \A leg \in Legs, side \in Sides : ~Resting(leg, side)

\* Near the close every quote is taken off the book, and after it the task
\* ends: no sequence of book moves, fills and failed calls keeps it quoting.
EndsQuiet ==
  /\ phase # "open" ~> \A leg \in Legs, side \in Sides : ~Resting(leg, side)
  /\ phase = "closed" ~> pc.at = "done"

\* A count of the awaited calls before a task at c ends, once the market is
\* closed: those for the leg, for the legs and loops after it.
StepsInLeg(c) ==
  LET first == c.side = "acquire"
  IN  CASE c.at = "poll" -> (IF first THEN 9 ELSE 8)
        [] c.at = "quote" -> 7
        [] c.at = "cancel" -> (IF first THEN 6 ELSE 4)
        [] c.at = "place" -> (IF first THEN 5 ELSE 3)
        [] c.at = "flatten" -> 3
        [] c.at = "sell" -> 2
        [] OTHER -> 1

StepsFrom(c) ==
  CASE c.at \in {"done", "dead"} -> 0
    [] c.at = "sleep" -> 37
    [] OTHER -> StepsInLeg(c) + (IF c.leg = LastLeg THEN 0 ELSE 9)
                  + (IF c.loop = "clear" THEN 18 ELSE 0)
                  + (IF c.loop # "cycle" /\ c.final THEN 0 ELSE 37)

\* After the close each call brings the task nearer to its end, whatever it was
\* doing and whatever the exchange answers: it ends after a bounded number of
\* calls, and no refusal, fill or price makes it go round once more.
EndsSoon == [][phase = "closed" /\ Step => StepsFrom(pc') < StepsFrom(pc)]_vars

\* Every fill of a tracked order is eventually booked or its order forgotten.
FillsNoticed ==
  \A leg \in Legs, side \in Sides : Unbooked(leg, side) > 0 ~> Unbooked(leg, side) = 0
=============================================================================
