----------------------------- MODULE FokOrders -----------------------------
(***************************************************************************)
(* All-or-nothing buys in live mode: OrderManager.submit_fok with the      *)
(* presigned pool in front of it, PresignedOrderPool.submit, and an        *)
(* exchange that fills an order in full or not at all and whose replies    *)
(* may be lost.                                                            *)
(*                                                                         *)
(* A call is suspended in one post_order at a time.  What it is told goes  *)
(* through _parse_response; what it is not told (a post that raises) makes *)
(* it try again with another order.                                        *)
(***************************************************************************)
EXTENDS PresignedPool

CONSTANTS
  Calls,      \* concurrent callers
  Requests,   \* [unit, value, qty]: the legs they may ask for
  Outcomes,   \* what may become of a posted order
  Prices,     \* the prices at which one may fill
  NoLeg       \* the leg of a caller that has not called

\* filled: filled, and the reply gives the size; silent: filled, and it does
\* not; killed: the reply says it was not filled; refused: not filled, the
\* call raises; lost: filled, and the call raises.
OutcomeKinds == {"filled", "silent", "killed", "refused", "lost"}

Leg == [unit : Units, value : Nat, qty : Nat \ {0}]

ASSUME FokAssumption ==
  /\ Requests \subseteq Leg /\ NoLeg \notin Leg
  /\ Outcomes \subseteq OutcomeKinds /\ Prices \subseteq Nat

VARIABLE
  call   \* call[c]: where it is, its leg, the order it posted, its result

vars == <<poolVars, call>>

\* value and size: the order in post_order.  bought, paid: what the exchange
\* filled for this call; lost: the part of it no reply told of; unsaid: the part
\* beyond the leg whose reply gave no size.  booked: the filled_qty of its
\* FillResult, at the price of its leg.
Call == [at : {"idle", "direct", "pooled", "fresh", "done"},
         leg : Leg \cup {NoLeg}, value : Nat, size : Nat, bought : Nat, paid : Nat,
         lost : Nat, unsaid : Nat, booked : Nat]

Idle == [at |-> "idle", leg |-> NoLeg, value |-> 0, size |-> 0,
         bought |-> 0, paid |-> 0, lost |-> 0, unsaid |-> 0, booked |-> 0]

Posting == {"direct", "pooled", "fresh"}

\* The call goes on with an order for size shares at a limit of value.
Post(k, at, leg, value, size) ==
  [k EXCEPT !.at = at, !.leg = leg, !.value = value, !.size = size]

\* submit_fok(leg) up to its first post_order: an order from the pool or,
\* when there is none, one signed for the leg.
Submit(c, k, leg) ==
  \/ \E t \in EntryOf(pool, leg.unit).templates :
       /\ Hit(leg.unit, leg.value, leg.qty, t)
       /\ call' = [call EXCEPT ![c] = Post(k, "pooled", leg, t.value, t.size)]
  \/ /\ Miss(leg.unit, leg.value, leg.qty)
     /\ call' = [call EXCEPT ![c] = Post(k, "fresh", leg, leg.value, leg.qty)]

SubmitFok(c, leg) == call[c].at = "idle" /\ Submit(c, call[c], leg)

\* pool.submit(pop_matching(...)): the leg is what the order was signed for.
SubmitTemplate(c, leg) ==
  /\ call[c].at = "idle"
  /\ \E t \in EntryOf(pool, leg.unit).templates :
       /\ Hit(leg.unit, leg.value, leg.qty, t)
       /\ LET own == [unit |-> leg.unit, value |-> t.value, qty |-> t.size]
          IN  call' = [call EXCEPT ![c] = Post(@, "direct", own, t.value, t.size)]

-----------------------------------------------------------------------------
(* The exchange, and what the call makes of its answer.                    *)

\* The call once its order was filled, at a price within its limit.
Fills(k) ==
  {[k EXCEPT !.bought = @ + k.size, !.paid = @ + k.size * price] :
     price \in {p \in Prices : p <= k.value}}

\* Mutant: the size in the reply is ignored.
BookedAsLeg(k, outcome) == IF outcome = "killed" THEN 0 ELSE k.leg.qty

\* filled_qty of _parse_response: the size the reply gives, else the leg's.
Booked(k, outcome) ==
  IF outcome = "filled" THEN k.size
  ELSE IF outcome = "silent" THEN k.leg.qty ELSE 0

\* History: the shares by which a filled order was larger than the leg, when
\* its reply gave no size.
Unsaid(k, outcome) ==
  IF outcome = "silent" /\ k.size > k.leg.qty THEN k.size - k.leg.qty ELSE 0

\* The exchange answers and the result is parsed.
Answered(c) ==
  /\ call[c].at \in Posting
  /\ \E outcome \in Outcomes \cap {"filled", "silent", "killed"} :
     \E k \in IF outcome = "killed" THEN {call[c]} ELSE Fills(call[c]) :
       call' = [call EXCEPT ![c] =
                  [k EXCEPT !.at = "done", !.unsaid = Unsaid(k, outcome),
                            !.booked = Booked(k, outcome)]]
  /\ UNCHANGED poolVars

\* post_order raises, with the order filled or not.  A pooled order is
\* followed by a fresh one, one posted by pool.submit by a whole submit_fok.
Raises(c) ==
  /\ call[c].at \in Posting
  /\ \E outcome \in Outcomes \cap {"refused", "lost"} :
     \E k \in IF outcome = "refused" THEN {call[c]}
             ELSE {[f EXCEPT !.lost = @ + f.size] : f \in Fills(call[c])} :
       \/ k.at = "direct" /\ Submit(c, k, k.leg)
       \/ /\ k.at = "pooled"
          /\ call' = [call EXCEPT ![c] =
                        Post(k, "fresh", k.leg, k.leg.value, k.leg.qty)]
          /\ UNCHANGED poolVars
       \/ /\ k.at = "fresh"
          /\ call' = [call EXCEPT ![c] = [k EXCEPT !.at = "done"]]
          /\ UNCHANGED poolVars

-----------------------------------------------------------------------------
Init == PoolInit /\ call = [c \in Calls |-> Idle]

Next ==
  \/ Background /\ UNCHANGED call
  \/ \E c \in Calls :
       \/ \E leg \in Requests : SubmitFok(c, leg) \/ SubmitTemplate(c, leg)
       \/ Answered(c) \/ Raises(c)

Spec == Init /\ [][Next]_vars

-----------------------------------------------------------------------------
(* Properties.                                                             *)

TypeOK == PoolTypeOK /\ call \in [Calls -> Call]

\* A result never books shares the account did not get: an order from the
\* pool is at least as large as the leg it is booked for, and a result counts
\* one order, however many were posted ("turned every matched live payload
\* into a reported failure" is the opposite error).
NoPhantomShares == \A c \in Calls : call[c].booked <= call[c].bought

\* What a finished call bought is what it books, to the share, but for the
\* orders whose reply was lost and for the shares an order from the pool was
\* larger than the leg when its reply gave no size: a size the reply gives is
\* booked as it is, of whichever order.  And where no reply was lost and the
\* order was no dearer than the leg, it paid no more than the price of the leg
\* for each of these shares ("this never overstates yield_delta").
CostExplained == \A c \in Calls :
  LET k == call[c]
  IN  k.at = "done" =>
        /\ k.bought = k.booked + k.lost + k.unsaid
        /\ k.lost = 0 /\ k.value <= k.leg.value =>
             k.paid <= (k.booked + k.unsaid) * k.leg.value
=============================================================================
