--------------------------- MODULE OneShotProofs ---------------------------
(* What follows from the promise of OneShot, for every life of a signature  *)
(* and every buffer.                                                        *)
EXTENDS OneShot, TLAPS

Numbered(p) == p.n \in 1 .. issued /\ p.signed \in Nat /\ p.expires \in Nat
                 /\ p.expires <= p.signed + Life

\* Payloads are told apart by their numbers, and those handed out have other
\* numbers than those that are ready.
IInv ==
  /\ now \in Nat /\ issued \in Nat
  /\ \A p \in ready : Numbered(p)
  /\ \A p, q \in ready : p.n = q.n => p = q
  /\ \A u \in used : Numbered(u.payload) /\ u.at \in Nat
                       /\ u.at + Buffer < u.payload.expires
  /\ \A u \in used : \A p \in ready : u.payload.n # p.n
  /\ \A u, v \in used : u.payload.n = v.payload.n => u = v

LEMMA IssueKeeps ==
  ASSUME Life \in Nat, Buffer \in Nat, IInv, Issue
  PROVE  IInv'
<1> USE DEF Numbered
<1>1. now' \in Nat /\ issued' \in Nat /\ issued' = issued + 1
  BY DEF IInv, Issue
<1>2. \A p \in ready' : p \in ready \/ (p.n = issued' /\ ready' \ ready = {p})
  BY DEF Issue
<1>3. \A p \in ready' : Numbered(p)'
  BY <1>1, <1>2 DEF IInv, Issue
<1>4. \A p, q \in ready' : p.n = q.n => p = q
  <2> SUFFICES ASSUME NEW p \in ready', NEW q \in ready', p.n = q.n PROVE p = q
    OBVIOUS
  <2>1. CASE p \in ready /\ q \in ready
    BY <2>1 DEF IInv
  <2>2. CASE p \in ready /\ q \notin ready
    <3>1. p.n \in 1 .. issued /\ q.n = issued + 1
      BY <1>1, <1>2, <2>2 DEF IInv
    <3> QED BY <3>1, <1>1 DEF IInv
  <2>3. CASE p \notin ready /\ q \in ready
    <3>1. q.n \in 1 .. issued /\ p.n = issued + 1
      BY <1>1, <1>2, <2>3 DEF IInv
    <3> QED BY <3>1, <1>1 DEF IInv
  <2>4. CASE p \notin ready /\ q \notin ready
    BY <1>2, <2>4
  <2> QED BY <2>1, <2>2, <2>3, <2>4
<1>5. used' = used
  BY DEF Issue
<1>6. \A u \in used : Numbered(u.payload)'
  BY <1>1 DEF IInv
<1>7. \A u \in used : \A p \in ready' : u.payload.n # p.n
  <2> SUFFICES ASSUME NEW u \in used, NEW p \in ready' PROVE u.payload.n # p.n
    OBVIOUS
  <2>1. u.payload.n \in 1 .. issued
    BY DEF IInv
  <2>2. CASE p \in ready
    BY <2>2 DEF IInv
  <2>3. CASE p \notin ready
    BY <2>1, <2>3, <1>1, <1>2 DEF IInv
  <2> QED BY <2>2, <2>3
<1> QED BY <1>1, <1>3, <1>4, <1>5, <1>6, <1>7 DEF IInv

LEMMA UseKeeps ==
  ASSUME Life \in Nat, Buffer \in Nat, IInv, Use
  PROVE  IInv'
<1>1. PICK p \in ready \ ready' :
        now + Buffer < p.expires /\ used' = used \cup {[payload |-> p, at |-> now]}
  BY DEF Use
<1>2. ready' \subseteq ready /\ UNCHANGED <<now, issued>>
  BY DEF Use
<1>3. \A u \in used' : u \in used \/ u = [payload |-> p, at |-> now]
  BY <1>1
<1>4. \A q \in ready' : q # p /\ q.n # p.n
  BY <1>1, <1>2 DEF IInv
<1>5. \A u \in used' : Numbered(u.payload)' /\ u.at \in Nat
                         /\ u.at + Buffer < u.payload.expires
  BY <1>1, <1>2, <1>3 DEF IInv, Numbered
<1>6. \A u \in used' : \A q \in ready' : u.payload.n # q.n
  BY <1>1, <1>2, <1>3, <1>4 DEF IInv
<1>7. \A u, v \in used' : u.payload.n = v.payload.n => u = v
  BY <1>1, <1>3 DEF IInv
<1> QED BY <1>2, <1>5, <1>6, <1>7 DEF IInv, Numbered

\* UsedOnce and UsedFresh: a store that keeps the promise hands no payload out
\* twice, and none that is too old or that expires on its way.
THEOREM PromiseMeans ==
  ASSUME Life \in Nat, Buffer \in Nat
  PROVE  Spec => [](UsedOnce /\ UsedFresh)
<1>1. Init => IInv
  BY DEF Init, IInv
<1>2. IInv /\ [Next]_vars => IInv'
  <2> SUFFICES ASSUME IInv, [Next]_vars PROVE IInv'
    OBVIOUS
  <2>1. CASE Issue
    BY <2>1, IssueKeeps
  <2>2. CASE Use
    BY <2>2, UseKeeps
  <2>3. CASE Forget
    BY <2>3 DEF Forget, IInv, Numbered
  <2>4. CASE Tick
    BY <2>4 DEF Tick, IInv, Numbered
  <2>5. CASE UNCHANGED vars
    BY <2>5 DEF vars, IInv, Numbered
  <2> QED BY <2>1, <2>2, <2>3, <2>4, <2>5 DEF Next
<1>3. IInv => UsedOnce /\ UsedFresh
  BY DEF IInv, Numbered, UsedOnce, UsedFresh
<1> QED BY <1>1, <1>2, <1>3, PTL DEF Spec
=============================================================================
