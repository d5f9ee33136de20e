------------------------------ MODULE OneShot ------------------------------
(***************************************************************************)
(* What a store of signed payloads promises its user, whatever it keeps    *)
(* and for how long: each payload is signed once, handed out at most once, *)
(* and only while more than Buffer remains of its life.  PresignedPool     *)
(* implements it.                                                          *)
(***************************************************************************)
EXTENDS Integers

CONSTANTS
  Life,    \* a signature is good for at most this long
  Buffer   \* what must remain of it when it is handed out

VARIABLES
  now,     \* the clock
  issued,  \* number of payloads signed so far
  ready,   \* payloads that may still be handed out
  used     \* [payload, at]: payloads handed out, and when

vars == <<now, issued, ready, used>>

Init ==
  /\ now \in Nat
  /\ issued = 0 /\ ready = {} /\ used = {}

\* A payload gets the next number.  Others, or this one, may be forgotten.
Issue ==
  /\ issued' = issued + 1
  /\ \A p \in ready' \ ready :
       /\ p.n = issued' /\ p.signed \in 0 .. now
       /\ p.expires \in 0 .. p.signed + Life
       /\ ready' \ ready = {p}
  /\ UNCHANGED <<now, used>>

Use ==
  /\ \E p \in ready \ ready' :
       /\ now + Buffer < p.expires
       /\ used' = used \cup {[payload |-> p, at |-> now]}
  /\ ready' \subseteq ready
  /\ UNCHANGED <<now, issued>>

Forget ==
  /\ ready' \subseteq ready
  /\ UNCHANGED <<now, issued, used>>

Tick ==
  /\ now' = now + 1
  /\ UNCHANGED <<issued, ready, used>>

Next == Issue \/ Use \/ Forget \/ Tick

Spec == Init /\ [][Next]_vars

-----------------------------------------------------------------------------
\* No payload is handed out twice, nor kept once it is handed out: a payload
\* that is posted twice may buy twice.
UsedOnce ==
  /\ \A u \in used : u.payload \notin ready
  /\ \A u, v \in used : u.payload.n = v.payload.n => u = v

\* A payload is handed out before it is Life - Buffer old, and for Buffer
\* after that it does not expire on its way to the exchange.
UsedFresh == \A u \in used :
  /\ u.at - u.payload.signed < Life - Buffer
  /\ \A t \in u.at .. u.at + Buffer : t < u.payload.expires
=============================================================================
