----------------------------- MODULE PoolProofs -----------------------------
(***************************************************************************)
(* Theorems about PresignedPool, for any set of tokens, any queue, cache   *)
(* and ladder sizes and any durations; and about FokOrders, the sales that *)
(* take its orders, for any number of concurrent callers, any legs they    *)
(* ask for and any outcomes.                                               *)
(***************************************************************************)
EXTENDS FokOrders, FiniteSetTheorems, TLAPS

-----------------------------------------------------------------------------
(* The pool, and what it promises (PresignedPool).                         *)

Rungish(ask, v) == \E i \in 1 .. Ladder : v = Rung(ask, i)

\* The ladder in the worker's hands is one ladder too, of orders that are in
\* no entry; the entry it signs for is in the pool unless it was dropped.
JobSound == worker = "signing" =>
  /\ job.attached => pool[job.book.unit] # NoEntry
  /\ \A i \in 1 .. Len(job.left) : Rungish(job.book.ask, job.left[i])
  /\ \A t \in job.built :
       /\ t.unit = job.book.unit /\ t.size = Shares(job.book)
       /\ Rungish(job.book.ask, t.value)
  /\ job.since <= now

\* The orders in hand have other numbers than those in the pool.
Apart == \A u \in Units : \A t \in EntryOf(pool, u).templates :
  /\ t.n <= signed
  /\ t \notin job.built

BuiltNumbered == \A t \in job.built : t.n <= signed

PoolInv == PoolTypeOK /\ OneLadder /\ JobSound /\ Apart /\ BuiltNumbered

-----------------------------------------------------------------------------
(* Types of the pure operators.                                            *)

LEMMA SharesType ==
  ASSUME NEW book \in Book
  PROVE  Shares(book) \in Nat \ {0}
<1> DEFINE quotient == book.usd \div book.ask
           twice == 2 * (book.usd % book.ask)
<1>1. quotient \in Nat
  BY DEF Book
<1>2. CASE twice > book.ask \/ (twice = book.ask /\ quotient % 2 = 1)
  BY <1>1, <1>2 DEF Shares
<1>3. CASE ~(twice > book.ask \/ (twice = book.ask /\ quotient % 2 = 1))
  BY <1>1, <1>3 DEF Shares
<1> QED BY <1>2, <1>3

LEMMA RungType ==
  ASSUME NEW ask \in Nat \ {0}, NEW i \in 1 .. Ladder
  PROVE  Rung(ask, i) \in Nat
BY PoolAssumption DEF Rung

LEMMA RungsType ==
  ASSUME NEW ask \in Nat \ {0}
  PROVE  /\ Rungs(ask) \in Seq(Nat) /\ Rungs(ask) # <<>>
         /\ Len(Rungs(ask)) = Ladder
         /\ \A i \in 1 .. Ladder : Rungish(ask, Rungs(ask)[i])
<1>1. Ladder \in Nat \ {0}
  BY PoolAssumption
<1>2. Rungs(ask) \in [1 .. Ladder -> Nat]
  BY RungType DEF Rungs
<1>3. \A i \in 1 .. Ladder : Rungs(ask)[i] = Rung(ask, i)
  BY DEF Rungs
<1>4. Rungs(ask) \in Seq(Nat) /\ Len(Rungs(ask)) = Ladder
  BY <1>1, <1>2
<1> QED BY <1>1, <1>3, <1>4 DEF Rungish

\* The expiry of an order is at most Expiration after its signing began.
LEMMA WholeSeconds ==
  ASSUME NEW t \in Nat
  PROVE  (t \div Second) * Second \in 0 .. t
<1>1. Second \in Nat \ {0}
  BY PoolAssumption
<1>2. t = Second * (t \div Second) + (t % Second) /\ t % Second \in Nat /\ t \div Second \in Nat
  BY <1>1
<1>3. Second * (t \div Second) \in Nat /\ Second * (t \div Second) = (t \div Second) * Second
  BY <1>1, <1>2
<1> QED BY <1>2, <1>3

LEMMA InFlightType ==
  ASSUME PoolInv, worker = "signing"
  PROVE  /\ InFlight \in Template
         /\ InFlight.n = signed + 1 /\ InFlight.signed \in 0 .. now
         /\ InFlight.expires \in 0 .. InFlight.signed + Expiration
         /\ InFlight.unit = job.book.unit /\ InFlight.size = Shares(job.book)
         /\ Rungish(job.book.ask, InFlight.value)
<1>1. job \in Job /\ job.left # <<>>
  BY DEF PoolInv, PoolTypeOK
<1>2. Head(job.left) = job.left[1] /\ Len(job.left) \in Nat \ {0} /\ Head(job.left) \in Nat
  BY <1>1 DEF Job
<1>3. Shares(job.book) \in Nat \ {0} /\ job.book.unit \in Units
  BY <1>1, SharesType DEF Job, Book
<1>4. (job.since \div Second) * Second \in 0 .. job.since
  BY <1>1, WholeSeconds DEF Job
<1>5. Expiration \in Nat /\ signed \in Nat /\ now \in Nat /\ job.since \in Nat /\ job.since <= now
  BY <1>1, PoolAssumption DEF PoolInv, PoolTypeOK, JobSound, Job
<1>6. Rungish(job.book.ask, Head(job.left))
  BY <1>2 DEF PoolInv, JobSound
<1> QED BY <1>2, <1>3, <1>4, <1>5, <1>6 DEF InFlight, Template

-----------------------------------------------------------------------------
(* The invariant, action by action.                                        *)

LEMMA InitHolds == PoolInit => PoolInv
BY PoolAssumption DEF PoolInit, PoolInv, PoolTypeOK, OneLadder, JobSound, Apart,
   BuiltNumbered, Tracked, EntryOf, NewEntry, NoJob

LEMMA NewEntryType == NewEntry \in Entry
BY DEF NewEntry, Entry

\* What the pool may become when nothing is added to it.
Shrunk(p) ==
  /\ p \in [Units -> Entry \cup {NoEntry}]
  /\ \A u \in Units : EntryOf(p, u).templates \subseteq EntryOf(pool, u).templates
  /\ \A u \in Units : p[u] # NoEntry /\ p[u].templates # {} => p[u].ask = pool[u].ask

LEMMA ShrinkKeeps ==
  ASSUME PoolInv, Shrunk(pool'), UNCHANGED signed
  PROVE  /\ OneLadder'
         /\ \A u \in Units : \A t \in EntryOf(pool', u).templates :
              t.n <= signed' /\ t \notin job.built
<1>1. \A u \in Units : \A t \in EntryOf(pool', u).templates :
        t.n <= signed' /\ t \notin job.built
  BY DEF PoolInv, Apart, Shrunk
<1>2. ASSUME NEW u \in Units, pool'[u] # NoEntry, NEW t \in pool'[u].templates
      PROVE  /\ t.unit = u
             /\ \E i \in 1 .. Ladder : t.value = Rung(pool'[u].ask, i)
             /\ \A o \in pool'[u].templates : o.size = t.size
  <2>1. t \in EntryOf(pool, u).templates
    BY <1>2 DEF Shrunk, EntryOf
  <2>2. pool[u] # NoEntry /\ pool'[u].templates \subseteq pool[u].templates
    BY <1>2, <2>1 DEF Shrunk, EntryOf, NewEntry
  <2>3. pool'[u].ask = pool[u].ask
    BY <1>2 DEF Shrunk
  <2> QED BY <2>2, <2>3 DEF PoolInv, OneLadder, Tracked
<1> QED BY <1>1, <1>2 DEF OneLadder, Tracked

LEMMA NotifyKeeps ==
  ASSUME PoolInv, NEW book \in Books, Notify(book)
  PROVE  PoolInv'
<1>1. book \in Book /\ QueueSize \in Nat
  BY PoolAssumption
<1>2. queue' \in Seq(Book) /\ Len(queue') <= QueueSize
  BY <1>1 DEF Notify, PoolInv, PoolTypeOK
<1> QED BY <1>2 DEF Notify, PoolInv, PoolTypeOK, OneLadder, Tracked, JobSound,
           Apart, BuiltNumbered, EntryOf, InFlight

LEMMA DropTokenShrinks ==
  ASSUME PoolInv, NEW u \in Units, DropToken(u)
  PROVE  Shrunk(pool')
BY DEF DropToken, Shrunk, PoolInv, PoolTypeOK, EntryOf, NewEntry

LEMMA DropTokenKeeps ==
  ASSUME PoolInv, NEW u \in Units, DropToken(u)
  PROVE  PoolInv'
<1>1. Shrunk(pool')
  BY DropTokenShrinks
<1>2. OneLadder' /\ Apart'
  BY <1>1, ShrinkKeeps DEF DropToken, Apart, PoolInv, PoolTypeOK, Job
<1>3. PoolTypeOK'
  BY <1>1 DEF DropToken, Shrunk, PoolInv, PoolTypeOK, Job
<1>4. JobSound' /\ BuiltNumbered'
  BY DEF DropToken, JobSound, BuiltNumbered, PoolInv, PoolTypeOK, Job
<1> QED BY <1>2, <1>3, <1>4 DEF PoolInv

LEMMA StopKeeps ==
  ASSUME PoolInv, StopWorker
  PROVE  PoolInv'
BY DEF StopWorker, PoolInv, PoolTypeOK, OneLadder, Tracked, JobSound, Apart,
   BuiltNumbered, EntryOf, NoJob

LEMMA TickKeeps ==
  ASSUME PoolInv, Tick
  PROVE  PoolInv'
BY DEF Tick, PoolInv, PoolTypeOK, OneLadder, Tracked, JobSound, Apart,
   BuiltNumbered, EntryOf, Job

LEMMA HitShrinks ==
  ASSUME PoolInv, NEW u \in Units, NEW value, NEW size, NEW t, Hit(u, value, size, t)
  PROVE  /\ pool[u] # NoEntry /\ pool[u] \in Entry /\ t \in pool[u].templates
         /\ \E entry \in Entry :
              pool' = [pool EXCEPT ![u] = entry] /\ entry.templates = Unexpired(u) \ {t}
         /\ Shrunk(pool')
<1>1. t \in EntryOf(pool, u).templates
  BY DEF Hit, Newest, Matches, Unexpired
<1>2. pool[u] # NoEntry /\ pool[u] \in Entry /\ t \in pool[u].templates
  BY <1>1 DEF EntryOf, NewEntry, PoolInv, PoolTypeOK
<1>3. pool' = [pool EXCEPT ![u].templates = Unexpired(u) \ {t}]
        /\ Unexpired(u) \subseteq pool[u].templates
  BY <1>2 DEF Hit, Take, Unexpired, EntryOf
<1>4. pool' = [pool EXCEPT ![u] = [pool[u] EXCEPT !.templates = Unexpired(u) \ {t}]]
        /\ [pool[u] EXCEPT !.templates = Unexpired(u) \ {t}] \in Entry
  BY <1>2, <1>3 DEF Entry
<1>5. Shrunk(pool')
  BY <1>2, <1>3, <1>4 DEF Shrunk, EntryOf, NewEntry, Entry, PoolInv, PoolTypeOK
<1>6. \E entry \in Entry :
        pool' = [pool EXCEPT ![u] = entry] /\ entry.templates = Unexpired(u) \ {t}
  <2> DEFINE entry == [pool[u] EXCEPT !.templates = Unexpired(u) \ {t}]
  <2>1. entry \in Entry /\ pool' = [pool EXCEPT ![u] = entry]
    BY <1>4
  <2>2. entry.templates = Unexpired(u) \ {t}
    BY <1>2 DEF Entry
  <2> QED BY <2>1, <2>2
<1> QED BY <1>2, <1>5, <1>6

LEMMA HitKeeps ==
  ASSUME PoolInv, NEW u \in Units, NEW value, NEW size, NEW t, Hit(u, value, size, t)
  PROVE  PoolInv'
<1>2. pool[u] # NoEntry /\ pool[u] \in Entry /\ t \in pool[u].templates
  BY HitShrinks
<1>4. PICK entry \in Entry : pool' = [pool EXCEPT ![u] = entry]
  BY HitShrinks
<1>5. Shrunk(pool')
  BY HitShrinks
<1>6. UNCHANGED <<now, queue, worker, job, signed>>
  BY DEF Hit
<1>7. OneLadder' /\ Apart'
  BY <1>5, <1>6, ShrinkKeeps DEF Apart
<1>8. used' \subseteq [payload : Template, at : Nat]
  BY <1>2 DEF Hit, PoolInv, PoolTypeOK, Entry
<1>9. PoolTypeOK'
  BY <1>5, <1>6, <1>8 DEF Shrunk, PoolInv, PoolTypeOK
<1>10. JobSound'
  BY <1>2, <1>4, <1>6, NoEntryAssumption DEF JobSound, PoolInv, PoolTypeOK, Job, Book
<1> QED BY <1>6, <1>7, <1>9, <1>10 DEF PoolInv, BuiltNumbered

LEMMA MissShrinks ==
  ASSUME PoolInv, NEW u \in Units, NEW value, NEW size, Miss(u, value, size)
  PROVE  /\ Shrunk(pool')
         /\ \/ pool' = pool
            \/ /\ pool[u] # NoEntry
               /\ \E entry \in Entry : pool' = [pool EXCEPT ![u] = entry]
<1>2. CASE pool' = pool
  BY <1>2 DEF Shrunk, EntryOf, PoolInv, PoolTypeOK
<1>3. CASE pool' # pool
  <2>1. pool[u] # NoEntry /\ pool[u] \in Entry
          /\ pool' = [pool EXCEPT ![u].templates = Unexpired(u)]
    BY <1>3 DEF Miss, PoolInv, PoolTypeOK
  <2>2. Unexpired(u) \subseteq pool[u].templates
    BY <2>1 DEF Unexpired, EntryOf
  <2>3. pool' = [pool EXCEPT ![u] = [pool[u] EXCEPT !.templates = Unexpired(u)]]
          /\ [pool[u] EXCEPT !.templates = Unexpired(u)] \in Entry
    BY <2>1, <2>2 DEF Entry
  <2>4. Shrunk(pool')
    BY <2>1, <2>2, <2>3 DEF Shrunk, EntryOf, NewEntry, Entry, PoolInv, PoolTypeOK
  <2> QED BY <2>1, <2>3, <2>4
<1> QED BY <1>2, <1>3

LEMMA MissKeeps ==
  ASSUME PoolInv, NEW u \in Units, NEW value, NEW size, Miss(u, value, size)
  PROVE  PoolInv'
<1>1. UNCHANGED <<now, queue, worker, job, signed, used>>
  BY DEF Miss
<1>2. Shrunk(pool')
  BY MissShrinks
<1>3. OneLadder' /\ Apart'
  BY <1>1, <1>2, ShrinkKeeps DEF Apart
<1>4. PoolTypeOK'
  BY <1>1, <1>2 DEF Shrunk, PoolInv, PoolTypeOK
<1>5. JobSound'
  BY <1>1, MissShrinks, NoEntryAssumption DEF JobSound, PoolInv, PoolTypeOK, Job, Book
<1> QED BY <1>1, <1>3, <1>4, <1>5 DEF PoolInv, BuiltNumbered

\* Room for a token is made by forgetting another.
LEMMA RoomShrinks ==
  ASSUME PoolInv, NEW u \in Units, NEW room \in RoomFor(u)
  PROVE  /\ room \in [Units -> Entry \cup {NoEntry}]
         /\ \A w \in Units : room[w] = NoEntry \/ room[w] = pool[w]
         /\ room[u] = pool[u]
<1>1. CASE room = pool
  BY <1>1 DEF PoolInv, PoolTypeOK
<1>2. CASE room # pool
  <2>1. PICK old \in Oldest : room = [pool EXCEPT ![old] = NoEntry]
    BY <1>2 DEF RoomFor
  <2>2. pool[u] = NoEntry
    BY <1>2 DEF RoomFor
  <2> QED BY <2>1, <2>2 DEF Oldest, Tracked, PoolInv, PoolTypeOK
<1> QED BY <1>1, <1>2

LEMMA HandleShrinks ==
  ASSUME PoolInv, Handle
  PROVE  LET book == Head(queue)
             u == book.unit
         IN  /\ book \in Book /\ u \in Units /\ queue' \in Seq(Book) /\ Len(queue') <= QueueSize
             /\ \E room \in RoomFor(u), left \in Entry : pool' = [room EXCEPT ![u] = left]
             /\ Shrunk(pool')
             /\ \/ UNCHANGED <<worker, job>>
                \/ /\ worker' = "signing"
                   /\ job' = [book |-> book, left |-> Rungs(book.ask), built |-> {},
                              since |-> now, attached |-> TRUE]
<1> DEFINE book == Head(queue)
           u == book.unit
<1>1. book \in Book /\ u \in Units /\ queue' \in Seq(Book) /\ Len(queue') <= QueueSize
  <2>1. /\ queue \in Seq(Book) /\ Len(queue) <= QueueSize
        /\ queue # <<>> /\ queue' = Tail(queue)
    BY DEF Handle, PoolInv, PoolTypeOK
  <2>2. book \in Book /\ queue' \in Seq(Book) /\ Len(queue') = Len(queue) - 1
    BY <2>1
  <2>3. Len(queue) \in Nat /\ QueueSize \in Nat
    BY <2>1, PoolAssumption
  <2> QED BY <2>1, <2>2, <2>3 DEF Book
<1>2. PICK room \in RoomFor(u) : \E drifted \in Drifted(EntryOf(room, u), book.ask) :
           LET entry == EntryOf(room, u)
               throttled == Throttled(entry)
               unaged == Unaged(entry)
               healthy == throttled \/ (unaged # {} /\ ~drifted)
           IN  /\ pool' = [room EXCEPT ![u] =
                     IF throttled THEN entry ELSE [entry EXCEPT !.templates = unaged]]
               /\ healthy => UNCHANGED <<worker, job>>
               /\ ~healthy =>
                    /\ signed + Ladder <= MaxSigned
                    /\ worker' = "signing"
                    /\ job' = [book |-> book, left |-> Rungs(book.ask), built |-> {},
                               since |-> now, attached |-> TRUE]
  BY DEF Handle
<1>3. /\ room \in [Units -> Entry \cup {NoEntry}]
      /\ \A w \in Units : room[w] = NoEntry \/ room[w] = pool[w]
      /\ room[u] = pool[u]
  BY <1>1, RoomShrinks
<1> DEFINE entry == EntryOf(room, u)
           left == IF Throttled(entry) THEN entry ELSE [entry EXCEPT !.templates = Unaged(entry)]
<1>4. entry \in Entry /\ entry = EntryOf(pool, u)
  BY <1>1, <1>3, NewEntryType DEF EntryOf
<1>5. /\ left \in Entry /\ left.templates \subseteq entry.templates /\ left.ask = entry.ask
  BY <1>4 DEF Entry, Unaged
<1>6. pool' = [room EXCEPT ![u] = left]
  BY <1>2
<1>7. Shrunk(pool')
  BY <1>1, <1>3, <1>4, <1>5, <1>6 DEF Shrunk, EntryOf, NewEntry
<1> QED BY <1>1, <1>2, <1>5, <1>6, <1>7

LEMMA HandleKeeps ==
  ASSUME PoolInv, Handle
  PROVE  PoolInv'
<1> DEFINE book == Head(queue)
           u == book.unit
<1>1. book \in Book /\ u \in Units /\ queue' \in Seq(Book) /\ Len(queue') <= QueueSize
  BY HandleShrinks
<1>2. \/ UNCHANGED <<worker, job>>
      \/ /\ worker' = "signing"
         /\ job' = [book |-> book, left |-> Rungs(book.ask), built |-> {},
                    since |-> now, attached |-> TRUE]
  BY HandleShrinks
<1>6. PICK room \in RoomFor(u), left \in Entry : pool' = [room EXCEPT ![u] = left]
  BY HandleShrinks
<1>3. room \in [Units -> Entry \cup {NoEntry}]
  BY <1>1, RoomShrinks
<1>7. Shrunk(pool')
  BY HandleShrinks
<1>8. UNCHANGED <<now, signed, used>> /\ worker = "idle"
  BY DEF Handle
<1>9. OneLadder' /\ \A w \in Units : \A t \in EntryOf(pool', w).templates : t.n <= signed'
  BY <1>7, <1>8, ShrinkKeeps
<1>10. job = NoJob
  BY <1>8 DEF PoolInv, PoolTypeOK
<1>11. CASE UNCHANGED <<worker, job>>
  <2>1. PoolTypeOK'
    BY <1>1, <1>7, <1>8, <1>11 DEF Shrunk, PoolInv, PoolTypeOK
  <2> QED BY <2>1, <1>8, <1>9, <1>10, <1>11 DEF PoolInv, JobSound, Apart, BuiltNumbered, NoJob
<1>12. CASE worker' = "signing" /\
            job' = [book |-> book, left |-> Rungs(book.ask), built |-> {},
                    since |-> now, attached |-> TRUE]
  <2>1. book.ask \in Nat \ {0}
    BY <1>1 DEF Book
  <2>2. job' \in Job /\ job'.left # <<>>
    BY <1>1, <1>12, <2>1, RungsType DEF Job, PoolInv, PoolTypeOK
  <2>3. PoolTypeOK'
    BY <1>1, <1>7, <1>8, <1>12, <2>2 DEF Shrunk, PoolInv, PoolTypeOK
  <2>4. pool'[u] # NoEntry
    BY <1>1, <1>3, <1>6, NoEntryAssumption
  <2>5. /\ job'.book = book /\ job'.left = Rungs(book.ask) /\ job'.built = {}
        /\ job'.since = now
    BY <1>12
  <2>6. now' = now /\ now \in Nat
    BY <1>8 DEF PoolInv, PoolTypeOK
  <2>7. \A i \in 1 .. Len(job'.left) : Rungish(job'.book.ask, job'.left[i])
    BY <2>1, <2>5, RungsType
  <2>8. JobSound'
    BY <2>4, <2>5, <2>6, <2>7 DEF JobSound, Rungish
  <2> QED BY <2>3, <2>8, <1>8, <1>9, <1>12 DEF PoolInv, Apart, BuiltNumbered
<1> QED BY <1>2, <1>11, <1>12

LEMMA SignKeeps ==
  ASSUME PoolInv, NEW ok \in BOOLEAN, Sign(ok)
  PROVE  PoolInv'
<1> DEFINE u == job.book.unit
           built == IF ok THEN job.built \cup {InFlight} ELSE job.built
<1>1. worker = "signing" /\ job \in Job /\ job.left # <<>> /\ u \in Units
  BY DEF Sign, PoolInv, PoolTypeOK, Job, Book
<1>2. /\ InFlight \in Template /\ InFlight.n = signed + 1
      /\ InFlight.unit = u /\ InFlight.size = Shares(job.book)
      /\ Rungish(job.book.ask, InFlight.value)
  BY <1>1, InFlightType
<1>3. signed \in Nat /\ signed' \in Nat /\ signed <= signed'
        /\ (ok => signed' = signed + 1)
  BY DEF Sign, PoolInv, PoolTypeOK
<1>4. UNCHANGED <<now, queue, used>> /\ now \in Nat
  BY DEF Sign, PoolInv, PoolTypeOK
<1>5. /\ built \in SUBSET Template
      /\ \A t \in built : /\ t.unit = u /\ t.size = Shares(job.book)
                          /\ Rungish(job.book.ask, t.value)
                          /\ t.n <= signed'
  <2>1. \A t \in job.built : t \in Template /\ t.n \in Nat /\ t.n <= signed
    BY <1>1 DEF PoolInv, BuiltNumbered, Job, Template
  <2> QED BY <1>1, <1>2, <1>3, <2>1 DEF PoolInv, JobSound, Job
<1>6. \A w \in Units : \A t \in EntryOf(pool, w).templates :
        t \in Template /\ t.n \in Nat /\ t.n <= signed /\ t.n <= signed' /\ t \notin built
  <2>1. \A w \in Units : EntryOf(pool, w) \in Entry
    BY NewEntryType DEF EntryOf, PoolInv, PoolTypeOK
  <2> QED BY <1>2, <1>3, <2>1 DEF PoolInv, Apart, Entry, Template
<1>7. CASE Len(job.left) = 1
  <2>1. worker' = "idle" /\ job' = NoJob /\ Install(built)
    BY <1>7 DEF Sign
  <2> DEFINE new == [templates |-> built, refreshed |-> now, ask |-> job.book.ask]
  <2>2. new \in Entry
    BY <1>1, <1>4, <1>5 DEF Entry, Job, Book
  <2>3. pool' = IF job.attached THEN [pool EXCEPT ![u] = new] ELSE pool
    BY <2>1 DEF Install
  <2>4. pool' \in [Units -> Entry \cup {NoEntry}]
    BY <1>1, <2>2, <2>3 DEF PoolInv, PoolTypeOK
  <2>5. PoolTypeOK'
    BY <1>3, <1>4, <2>1, <2>4 DEF PoolInv, PoolTypeOK
  <2>6. \A w \in Units : pool'[w] = pool[w] \/ (w = u /\ pool'[w] = new)
    BY <1>1, <2>3 DEF PoolInv, PoolTypeOK
  <2>7. OneLadder'
    <3> SUFFICES ASSUME NEW w \in Units, pool'[w] # NoEntry, NEW t \in pool'[w].templates
                 PROVE  /\ t.unit = w
                        /\ \E i \in 1 .. Ladder : t.value = Rung(pool'[w].ask, i)
                        /\ \A o \in pool'[w].templates : o.size = t.size
      BY DEF OneLadder, Tracked
    <3>1. CASE pool'[w] = pool[w]
      BY <3>1 DEF PoolInv, OneLadder, Tracked
    <3>2. CASE w = u /\ pool'[w] = new
      <4>1. pool'[w].templates = built /\ pool'[w].ask = job.book.ask
        BY <3>2
      <4> QED BY <1>5, <3>2, <4>1 DEF Rungish
    <3> QED BY <2>6, <3>1, <3>2
  <2>8. \A w \in Units : \A t \in EntryOf(pool', w).templates : t.n <= signed'
    <3> SUFFICES ASSUME NEW w \in Units, NEW t \in EntryOf(pool', w).templates
                 PROVE  t.n <= signed'
      OBVIOUS
    <3>1. CASE pool'[w] = pool[w]
      BY <1>6, <3>1 DEF EntryOf
    <3>2. CASE w = u /\ pool'[w] = new
      <4>1. pool'[w] # NoEntry /\ pool'[w].templates = built
        BY <2>2, <3>2, NoEntryAssumption
      <4>2. EntryOf(pool', w).templates = built
        BY <4>1 DEF EntryOf
      <4>3. t \in built
        BY <4>2
      <4> HIDE DEF built
      <4> QED BY <1>5, <4>3
    <3> QED BY <2>6, <3>1, <3>2
  <2> QED BY <2>1, <2>5, <2>7, <2>8 DEF PoolInv, JobSound, Apart, BuiltNumbered, NoJob
<1>8. CASE Len(job.left) # 1
  <2>1. /\ job' = [job EXCEPT !.left = Tail(@), !.built = built, !.since = now]
        /\ UNCHANGED <<worker, pool>>
    BY <1>8 DEF Sign
  <2>2. /\ Tail(job.left) \in Seq(Nat) /\ Tail(job.left) # <<>>
        /\ Len(Tail(job.left)) = Len(job.left) - 1
        /\ \A i \in 1 .. Len(Tail(job.left)) :
             Tail(job.left)[i] = job.left[i + 1] /\ i + 1 \in 1 .. Len(job.left)
    <3>1. job.left \in Seq(Nat) /\ Len(job.left) \in Nat /\ job.left # <<>>
      BY <1>1 DEF Job
    <3> DEFINE left == job.left
    <3>2. left \in Seq(Nat) /\ left # <<>> /\ Len(left) # 1
      BY <3>1, <1>8
    <3> HIDE DEF left
    <3>3. Tail(left) \in Seq(Nat) /\ Len(Tail(left)) = Len(left) - 1 /\ Len(left) \in Nat
      BY <3>2
    <3>4. Tail(left) # <<>>
      <4>1. Len(Tail(left)) # 0
        BY <3>2, <3>3
      <4>2. Len(<<>>) = 0
        OBVIOUS
      <4> QED BY <4>1, <4>2, Zenon
    <3>5. \A i \in 1 .. Len(Tail(left)) :
             Tail(left)[i] = left[i + 1] /\ i + 1 \in 1 .. Len(left)
      BY <3>2, <3>3
    <3> QED BY <3>3, <3>4, <3>5 DEF left
  <2>3. /\ job' \in Job /\ job'.left = Tail(job.left) /\ job'.built = built
        /\ job'.since = now /\ job'.book = job.book /\ job'.attached = job.attached
    BY <1>1, <1>4, <1>5, <2>1, <2>2 DEF Job
  <2>4. PoolTypeOK'
    BY <1>1, <1>3, <1>4, <2>1, <2>2, <2>3 DEF PoolInv, PoolTypeOK
  <2>5. OneLadder'
    BY <2>1 DEF PoolInv, OneLadder, Tracked
  <2>6. \A i \in 1 .. Len(job'.left) : Rungish(job'.book.ask, job'.left[i])
    BY <1>1, <2>2, <2>3 DEF PoolInv, JobSound
  <2>7. JobSound'
    BY <1>1, <1>4, <1>5, <2>1, <2>3, <2>6 DEF PoolInv, JobSound, Rungish
  <2>8. Apart' /\ BuiltNumbered'
    BY <1>5, <1>6, <2>1, <2>3 DEF Apart, BuiltNumbered, EntryOf
  <2> QED BY <2>4, <2>5, <2>7, <2>8 DEF PoolInv
<1> QED BY <1>7, <1>8

-----------------------------------------------------------------------------
(* Theorems.                                                               *)

LEMMA PoolStep ==
  ASSUME PoolInv, [PoolNext]_poolVars
  PROVE  PoolInv'
<1>1. CASE WorkerStep
  BY <1>1, HandleKeeps, SignKeeps DEF WorkerStep
<1>2. CASE StopWorker
  BY <1>2, StopKeeps
<1>3. CASE Tick
  BY <1>3, TickKeeps
<1>4. CASE \E book \in Books : Notify(book)
  BY <1>4, NotifyKeeps
<1>5. CASE \E u \in Units : DropToken(u)
  BY <1>5, DropTokenKeeps
<1>6. CASE \E u \in Units, value, size \in Nat : Miss(u, value, size)
  BY <1>6, MissKeeps
<1>7. CASE \E u \in Units, value, size \in Nat :
             \E t \in EntryOf(pool, u).templates : Hit(u, value, size, t)
  BY <1>7, HitKeeps
<1>8. CASE UNCHANGED poolVars
  BY <1>8 DEF poolVars, PoolInv, PoolTypeOK, OneLadder, Tracked, JobSound,
     Apart, BuiltNumbered, EntryOf
<1> QED BY <1>1, <1>2, <1>3, <1>4, <1>5, <1>6, <1>7, <1>8 DEF PoolNext, Background

\* The types, OneLadder and what they rest on.
THEOREM PoolInvariance == PoolSpec => []PoolInv
<1>1. PoolInv /\ [PoolNext]_poolVars => PoolInv'
  BY PoolStep
<1> QED BY <1>1, InitHolds, PTL DEF PoolSpec

\* PoolTypeOK and OneLadder: the pool's types, and the coherence of every
\* ladder it holds.
THEOREM LaddersCoherent == PoolSpec => [](PoolTypeOK /\ OneLadder)
BY PoolInvariance, PTL DEF PoolInv

\* What may leave a token untracked, and what a token comes back with.
LEMMA DropsStep ==
  ASSUME PoolInv, [PoolNext]_poolVars
  PROVE  \A u \in Units : pool[u] = NoEntry /\ pool'[u] # NoEntry
                            => pool'[u].templates = {}
<1>1. CASE Shrunk(pool')
  BY <1>1 DEF Shrunk, EntryOf, NewEntry
<1>2. CASE \E ok \in BOOLEAN : Sign(ok)
  BY <1>2 DEF Sign, Install, JobSound, PoolInv, PoolTypeOK, Job, Book
<1>3. CASE UNCHANGED pool
  BY <1>3
<1>4. CASE WorkerStep
  BY <1>1, <1>2, <1>4, HandleShrinks DEF WorkerStep
<1>5. CASE StopWorker \/ Tick \/ \E book \in Books : Notify(book)
  BY <1>3, <1>5 DEF StopWorker, Tick, Notify
<1>6. CASE \E u \in Units : DropToken(u)
  BY <1>1, <1>6, DropTokenShrinks
<1>7. CASE \E u \in Units, value, size \in Nat :
             \/ Miss(u, value, size)
             \/ \E t \in EntryOf(pool, u).templates : Hit(u, value, size, t)
  BY <1>1, <1>7, MissShrinks, HitShrinks
<1> QED BY <1>3, <1>4, <1>5, <1>6, <1>7 DEF PoolNext, Background, poolVars

\* DropsForGood: no order outlives the drop of its token.
THEOREM DropsAreFinal == PoolSpec => DropsForGood
<1>1. PoolInv /\ [PoolNext]_poolVars
        => [\A u \in Units : pool[u] = NoEntry /\ pool'[u] # NoEntry
                                => pool'[u].templates = {}]_poolVars
  BY DropsStep
<1> QED BY <1>1, PoolInvariance, PTL DEF PoolSpec, DropsForGood

LEMMA TrackedStep ==
  ASSUME IsFiniteSet(Units), PoolInv, CacheBounded, [PoolNext]_poolVars
  PROVE  CacheBounded'
<1>1. IsFiniteSet(Tracked) /\ MaxTokens \in Nat /\ Cardinality(Tracked) \in Nat
  BY FS_Subset, FS_CardinalityType, PoolAssumption DEF Tracked
<1>2. ASSUME Tracked' \subseteq Tracked PROVE CacheBounded'
  <2>1. Cardinality(Tracked') <= Cardinality(Tracked) /\ Cardinality(Tracked') \in Nat
    BY <1>1, <1>2, FS_Subset, FS_CardinalityType
  <2> QED BY <1>1, <2>1 DEF CacheBounded
<1>3. CASE Handle
  <2> DEFINE u == Head(queue).unit
  <2>1. u \in Units
    BY <1>3, HandleShrinks
  <2>2. PICK room \in RoomFor(u), left \in Entry : pool' = [room EXCEPT ![u] = left]
    BY <1>3, HandleShrinks
  <2>3. /\ room \in [Units -> Entry \cup {NoEntry}]
        /\ \A w \in Units : room[w] = NoEntry \/ room[w] = pool[w]
    BY <2>1, RoomShrinks
  <2>4. Tracked' \subseteq Tracked \cup {u}
    BY <2>2, <2>3 DEF Tracked
  <2>5. CASE pool[u] # NoEntry
    BY <1>2, <2>1, <2>4, <2>5 DEF Tracked
  <2>6. CASE pool[u] = NoEntry /\ Cardinality(Tracked) < MaxTokens
    <3>1. u \notin Tracked
      BY <2>6 DEF Tracked
    <3>2. /\ IsFiniteSet(Tracked \cup {u})
          /\ Cardinality(Tracked \cup {u}) = Cardinality(Tracked) + 1
      BY <1>1, <3>1, FS_AddElement
    <3>3. Cardinality(Tracked') <= Cardinality(Tracked) + 1 /\ Cardinality(Tracked') \in Nat
      BY <2>4, <3>2, FS_Subset, FS_CardinalityType
    <3> QED BY <1>1, <2>6, <3>3 DEF CacheBounded
  <2>7. CASE pool[u] = NoEntry /\ ~(Cardinality(Tracked) < MaxTokens)
    <3>1. PICK old \in Oldest : room = [pool EXCEPT ![old] = NoEntry]
      BY <2>2, <2>7 DEF RoomFor
    <3>2. old \in Tracked /\ old # u
      BY <2>7, <3>1 DEF Oldest, Tracked
    <3>3. Tracked' \subseteq (Tracked \ {old}) \cup {u}
      BY <2>1, <2>2, <2>3, <3>1, <3>2 DEF Tracked, PoolInv, PoolTypeOK
    <3>4. /\ IsFiniteSet(Tracked \ {old})
          /\ Cardinality(Tracked \ {old}) = Cardinality(Tracked) - 1
      BY <1>1, <3>2, FS_RemoveElement
    <3>5. u \notin Tracked \ {old}
      BY <2>7 DEF Tracked
    <3>6. /\ IsFiniteSet((Tracked \ {old}) \cup {u})
          /\ Cardinality((Tracked \ {old}) \cup {u}) = Cardinality(Tracked)
      <4> DEFINE others == Tracked \ {old}
      <4>1. IsFiniteSet(others) /\ u \notin others
        BY <3>4, <3>5
      <4> HIDE DEF others
      <4>2. /\ IsFiniteSet(others \cup {u})
            /\ Cardinality(others \cup {u}) = Cardinality(others) + 1
        BY <4>1, FS_AddElement
      <4>3. Cardinality(others) = Cardinality(Tracked) - 1
        BY <3>4 DEF others
      <4>4. Cardinality(others) + 1 = Cardinality(Tracked)
        BY <4>3, <1>1
      <4> QED BY <4>2, <4>4 DEF others
    <3>7. Cardinality(Tracked') <= Cardinality(Tracked) /\ Cardinality(Tracked') \in Nat
      BY <3>3, <3>6, FS_Subset, FS_CardinalityType
    <3> QED BY <1>1, <3>7 DEF CacheBounded
  <2> QED BY <2>5, <2>6, <2>7
<1>4. CASE \E ok \in BOOLEAN : Sign(ok)
  BY <1>2, <1>4 DEF Sign, Install, JobSound, Tracked, PoolInv, PoolTypeOK, Job, Book
<1>5. CASE UNCHANGED pool
  BY <1>2, <1>5 DEF Tracked
<1>6. CASE StopWorker \/ Tick \/ \E book \in Books : Notify(book)
  BY <1>5, <1>6 DEF StopWorker, Tick, Notify
<1>7. CASE \E u \in Units : DropToken(u)
  BY <1>2, <1>7 DEF DropToken, Tracked, PoolInv, PoolTypeOK
<1>8. CASE \E u \in Units, value, size \in Nat : Miss(u, value, size)
  BY <1>2, <1>8, MissShrinks DEF Tracked, PoolInv, PoolTypeOK
<1>9. CASE \E u \in Units, value, size \in Nat :
             \E t \in EntryOf(pool, u).templates : Hit(u, value, size, t)
  <2>1. PICK u \in Units, value \in Nat, size \in Nat :
          \E t \in EntryOf(pool, u).templates : Hit(u, value, size, t)
    BY <1>9
  <2>2. pool[u] # NoEntry /\ \E entry \in Entry : pool' = [pool EXCEPT ![u] = entry]
    BY <2>1, HitShrinks
  <2> QED BY <1>2, <2>2 DEF Tracked, PoolInv, PoolTypeOK
<1> QED BY <1>3, <1>4, <1>5, <1>6, <1>7, <1>8, <1>9
        DEF PoolNext, Background, WorkerStep, poolVars

\* CacheBounded: with finitely many tokens, no more of them are tracked than
\* the pool's cap, whoever drops, evicts or signs in between.
THEOREM CacheCapped == ASSUME IsFiniteSet(Units) PROVE PoolSpec => []CacheBounded
<1>1. PoolInit => CacheBounded
  <2>1. PoolInit => Tracked = {}
    BY DEF PoolInit, Tracked
  <2> QED BY <2>1, FS_EmptySet, PoolAssumption DEF CacheBounded
<1>2. CacheBounded /\ PoolInv /\ [PoolNext]_poolVars => CacheBounded'
  BY TrackedStep
<1> QED BY <1>1, <1>2, PoolInvariance, PTL DEF PoolSpec

-----------------------------------------------------------------------------
(* The pool implements OneShot.                                            *)

LEMMA ReadyForgets ==
  ASSUME Shrunk(pool'), job'.built \subseteq job.built
  PROVE  Ready' \subseteq Ready
BY DEF Ready, Shrunk

LEMMA ForgetSteps ==
  ASSUME PoolInv,
         \/ Handle \/ StopWorker
         \/ \E book \in Books : Notify(book)
         \/ \E u \in Units : DropToken(u)
         \/ \E u \in Units, value, size \in Nat : Miss(u, value, size)
  PROVE  Promise!Forget
<1>1. CASE Handle
  <2>1. Shrunk(pool') /\ job'.built \subseteq job.built
    BY <1>1, HandleShrinks
  <2> QED BY <1>1, <2>1, ReadyForgets DEF Handle, Promise!Forget
<1>2. CASE StopWorker
  BY <1>2 DEF StopWorker, NoJob, Ready, Promise!Forget
<1>3. CASE \E book \in Books : Notify(book)
  BY <1>3 DEF Notify, Ready, Promise!Forget
<1>4. CASE \E u \in Units : DropToken(u)
  <2>1. Shrunk(pool')
    BY <1>4, DropTokenShrinks
  <2>2. job'.built \subseteq job.built
    BY <1>4 DEF DropToken, PoolInv, PoolTypeOK, Job
  <2> QED BY <1>4, <2>1, <2>2, ReadyForgets DEF DropToken, Promise!Forget
<1>5. CASE \E u \in Units, value, size \in Nat : Miss(u, value, size)
  <2>1. Shrunk(pool') /\ UNCHANGED <<now, signed, used, job>>
    BY <1>5, MissShrinks DEF Miss
  <2> QED BY <2>1, ReadyForgets DEF Promise!Forget
<1> QED BY <1>1, <1>2, <1>3, <1>4, <1>5

\* An order handed out is in the pool no longer: it was in one entry, of its
\* own token, and not in the worker's hands.
LEMMA HitUses ==
  ASSUME PoolInv, NEW u \in Units, NEW value \in Nat, NEW size \in Nat,
         NEW t \in EntryOf(pool, u).templates, Hit(u, value, size, t)
  PROVE  Promise!Use
<1>1. pool[u] # NoEntry /\ t \in pool[u].templates /\ Shrunk(pool')
  BY HitShrinks
<1>2. PICK entry \in Entry :
        pool' = [pool EXCEPT ![u] = entry] /\ entry.templates = Unexpired(u) \ {t}
  BY HitShrinks
<1>3. /\ UNCHANGED <<now, job, signed>>
      /\ used' = used \cup {[payload |-> t, at |-> now]}
      /\ now + Buffer < t.expires
  <2>1. t \in Unexpired(u)
    BY DEF Hit, Newest, Matches
  <2>2. t.expires \in Nat
    BY <1>1, HitShrinks DEF Entry, Template
  <2>3. now + Buffer \in Int
    BY PoolAssumption DEF PoolInv, PoolTypeOK
  <2> QED BY <2>1, <2>2, <2>3 DEF Hit, Unexpired
<1>4. t \in Ready
  BY DEF Ready
<1>5. t \notin Ready'
  <2>1. t \notin job.built /\ t.unit = u
    BY <1>1 DEF PoolInv, Apart, OneLadder, Tracked, EntryOf
  <2>2. \A w \in Units : t \notin EntryOf(pool', w).templates
    <3> SUFFICES ASSUME NEW w \in Units, t \in EntryOf(pool', w).templates
                 PROVE  FALSE
      OBVIOUS
    <3>1. CASE w = u
      BY <1>2, <3>1, NoEntryAssumption DEF EntryOf, PoolInv, PoolTypeOK
    <3>2. CASE w # u
      <4>1. pool'[w] = pool[w] /\ t \in EntryOf(pool, w).templates
        BY <1>2, <3>2 DEF EntryOf, PoolInv, PoolTypeOK
      <4>2. t.unit = w
        BY <4>1 DEF EntryOf, NewEntry, PoolInv, OneLadder, Tracked
      <4> QED BY <2>1, <3>2, <4>2
    <3> QED BY <3>1, <3>2
  <2> QED BY <1>3, <2>1, <2>2 DEF Ready
<1>6. Ready' \subseteq Ready
  BY <1>1, <1>3, ReadyForgets
<1> QED BY <1>3, <1>4, <1>5, <1>6 DEF Promise!Use

LEMMA SignIssues ==
  ASSUME PoolInv, NEW ok \in BOOLEAN, Sign(ok)
  PROVE  IF ok THEN Promise!Issue ELSE Promise!Forget
<1> DEFINE built == IF ok THEN job.built \cup {InFlight} ELSE job.built
<1>1. UNCHANGED <<now, used>> /\ (IF ok THEN signed' = signed + 1 ELSE signed' = signed)
  BY DEF Sign
<1>2. /\ InFlight.n = signed + 1 /\ InFlight.signed \in 0 .. now
      /\ InFlight.expires \in 0 .. InFlight.signed + Expiration
  BY InFlightType DEF Sign
<1>3. Ready' \subseteq Ready \cup built
  <2>1. CASE Len(job.left) = 1
    <3>1. job'.built = {} /\ Install(built)
      BY <2>1 DEF Sign, NoJob
    <3>2. \A w \in Units :
             EntryOf(pool', w).templates \subseteq EntryOf(pool, w).templates \cup built
      <4> SUFFICES ASSUME NEW w \in Units
                   PROVE  EntryOf(pool', w).templates
                            \subseteq EntryOf(pool, w).templates \cup built
        OBVIOUS
      <4>1. CASE pool'[w] = pool[w]
        BY <4>1 DEF EntryOf
      <4>2. CASE pool'[w] # pool[w]
        <5>1. pool'[w] = [templates |-> built, refreshed |-> now, ask |-> job.book.ask]
          BY <3>1, <4>2 DEF Install, PoolInv, PoolTypeOK
        <5>2. pool'[w].templates = built
          BY <5>1
        <5> HIDE DEF built
        <5> QED BY <5>2 DEF EntryOf, NewEntry
      <4> QED BY <4>1, <4>2
    <3> HIDE DEF built
    <3> QED BY <3>1, <3>2 DEF Ready
  <2>2. CASE Len(job.left) # 1
    <3>1. job'.built = built /\ pool' = pool
      BY <2>2 DEF Sign, PoolInv, PoolTypeOK, Job
    <3> HIDE DEF built
    <3> QED BY <3>1 DEF Ready
  <2> QED BY <2>1, <2>2
<1>4. job.built \subseteq Ready
  BY DEF Ready
<1>5. CASE ok
  <2>1. Ready' \ Ready \subseteq {InFlight}
    BY <1>3, <1>4, <1>5
  <2> QED BY <1>1, <1>2, <1>5, <2>1 DEF Promise!Issue
<1>6. CASE ~ok
  BY <1>1, <1>3, <1>4, <1>6 DEF Promise!Forget
<1> QED BY <1>5, <1>6

\* ImplementsOneShot: every step of the pool is one of the promise, or leaves
\* it as it is.
THEOREM PoolImplementsOneShot == PoolSpec => ImplementsOneShot
<1>1. PoolInit => Promise!Init
  BY DEF PoolInit, Promise!Init, Ready, EntryOf, NewEntry, NoJob
<1>2. PoolInv /\ [PoolNext]_poolVars => [Promise!Next]_(Promise!vars)
  <2> SUFFICES ASSUME PoolInv, [PoolNext]_poolVars PROVE [Promise!Next]_(Promise!vars)
    OBVIOUS
  <2>1. CASE Sign(TRUE) \/ Sign(FALSE)
    <3>1. Promise!Issue \/ Promise!Forget
      BY <2>1, SignIssues
    <3> QED BY <3>1 DEF Promise!Next
  <2>2. CASE Tick
    BY <2>2 DEF Tick, Ready, Promise!Tick, Promise!Next
  <2>3. CASE \E u \in Units, value, size \in Nat :
               \E t \in EntryOf(pool, u).templates : Hit(u, value, size, t)
    BY <2>3, HitUses DEF Promise!Next
  <2>4. CASE \/ Handle \/ StopWorker
             \/ \E book \in Books : Notify(book)
             \/ \E u \in Units : DropToken(u)
             \/ \E u \in Units, value, size \in Nat : Miss(u, value, size)
    BY <2>4, ForgetSteps DEF Promise!Next
  <2>5. CASE UNCHANGED poolVars
    BY <2>5 DEF poolVars, Ready, Promise!vars
  <2> QED BY <2>1, <2>2, <2>3, <2>4, <2>5 DEF PoolNext, Background, WorkerStep
<1> QED BY <1>1, <1>2, PoolInvariance, PTL DEF PoolSpec, ImplementsOneShot, Promise!Spec

Meaning == INSTANCE OneShotProofs WITH
  Life <- Expiration, issued <- signed, ready <- Ready

\* UsedOnce and UsedFresh of the orders the pool hands out.
THEOREM PoolUsesOnce == PoolSpec => [](Promise!UsedOnce /\ Promise!UsedFresh)
<1>1. Expiration \in Nat /\ Buffer \in Nat
  BY PoolAssumption
<1>2. Meaning!Spec => [](Meaning!UsedOnce /\ Meaning!UsedFresh)
  BY <1>1, Meaning!PromiseMeans
<1>3. Promise!Init => Meaning!Init
  BY DEF Promise!Init, Meaning!Init
<1>4. [Promise!Next]_(Promise!vars) => [Meaning!Next]_(Meaning!vars)
  BY DEF Promise!Next, Promise!Issue, Promise!Use, Promise!Forget, Promise!Tick,
     Promise!vars, Meaning!Next, Meaning!Issue, Meaning!Use, Meaning!Forget,
     Meaning!Tick, Meaning!vars
<1>5. Meaning!UsedOnce /\ Meaning!UsedFresh => Promise!UsedOnce /\ Promise!UsedFresh
  BY DEF Promise!UsedOnce, Promise!UsedFresh, Meaning!UsedOnce, Meaning!UsedFresh
<1> QED BY <1>2, <1>3, <1>4, <1>5, PoolImplementsOneShot, PTL
        DEF ImplementsOneShot, Promise!Spec, Meaning!Spec

-----------------------------------------------------------------------------
(* The sales (FokOrders).                                                  *)

\* What a call knows while an order of its is posted: all it bought before is
\* lost, and the order covers its leg.
Posted(k) ==
  /\ k.leg \in Leg
  /\ k.booked = 0 /\ k.bought = k.lost /\ k.unsaid = 0
  /\ k.lost = 0 => k.paid = 0
  /\ k.size >= k.leg.qty /\ k.value >= k.leg.value

Explained(k) ==
  /\ k.leg \in Leg
  /\ k.bought = k.booked + k.lost + k.unsaid
  /\ k.lost = 0 /\ k.value <= k.leg.value =>
       k.paid <= (k.booked + k.unsaid) * k.leg.value

CallSound(k) ==
  /\ k.at = "idle" => k = Idle
  /\ k.at \in Posting => Posted(k)
  /\ k.at = "done" => k.booked <= k.bought /\ Explained(k)

CallsInv == call \in [Calls -> Call] /\ \A c \in Calls : CallSound(call[c])

FokInv == PoolInv /\ CallsInv

-----------------------------------------------------------------------------
\* A call is replaced by one that is sound.
LEMMA OneCall ==
  ASSUME CallsInv, NEW c \in Calls, NEW k \in Call, CallSound(k),
         call' = [call EXCEPT ![c] = k]
  PROVE  CallsInv'
BY DEF CallsInv

LEMMA PostSound ==
  ASSUME NEW k \in Call, NEW at \in Posting, NEW leg \in Leg, NEW value \in Nat,
         NEW size \in Nat, value >= leg.value, size >= leg.qty,
         k = Idle \/ Posted(k)
  PROVE  Post(k, at, leg, value, size) \in Call /\ CallSound(Post(k, at, leg, value, size))
<1> DEFINE p == Post(k, at, leg, value, size)
<1>1. p \in Call
  BY DEF Post, Call, Posting
<1>2. /\ p.at = at /\ p.leg = leg /\ p.value = value /\ p.size = size
      /\ p.booked = k.booked /\ p.bought = k.bought /\ p.paid = k.paid /\ p.lost = k.lost
      /\ p.unsaid = k.unsaid
  BY DEF Post, Call
<1>3. /\ k.booked = 0 /\ k.bought = k.lost /\ (k.lost = 0 => k.paid = 0)
      /\ k.unsaid = 0
  BY DEF Idle, Posted
<1> HIDE DEF p
<1>4. Posted(p)
  BY <1>2, <1>3 DEF Posted
<1>5. CallSound(p)
  BY <1>2, <1>4 DEF CallSound, Posting
<1> QED BY <1>1, <1>5 DEF p

\* An order from the pool covers the leg it was asked for.
LEMMA HitCovers ==
  ASSUME PoolInv, NEW u \in Units, NEW value \in Nat, NEW size \in Nat,
         NEW t, Hit(u, value, size, t)
  PROVE  t.value \in Nat /\ t.size \in Nat \ {0} /\ t.value >= value /\ t.size >= size
<1>1. t \in Template
  BY HitShrinks DEF Entry
<1>2. t.value >= value /\ t.size >= size
  BY DEF Hit, Newest, Matches
<1> QED BY <1>1, <1>2 DEF Template

LEMMA SubmitKeeps ==
  ASSUME FokInv, NEW c \in Calls, NEW k \in Call, NEW leg \in Leg,
         k = Idle \/ Posted(k), Submit(c, k, leg)
  PROVE  FokInv' /\ PoolNext
<1>1. leg.unit \in Units /\ leg.value \in Nat /\ leg.qty \in Nat \ {0} /\ leg.qty \in Nat
  BY DEF Leg
<1>2. CASE \E t \in EntryOf(pool, leg.unit).templates :
             /\ Hit(leg.unit, leg.value, leg.qty, t)
             /\ call' = [call EXCEPT ![c] = Post(k, "pooled", leg, t.value, t.size)]
  <2>1. PICK t \in EntryOf(pool, leg.unit).templates :
             /\ Hit(leg.unit, leg.value, leg.qty, t)
             /\ call' = [call EXCEPT ![c] = Post(k, "pooled", leg, t.value, t.size)]
    BY <1>2
  <2>2. PoolInv' /\ PoolNext
    BY <1>1, <2>1, HitKeeps DEF FokInv, PoolNext
  <2>3. t.value \in Nat /\ t.size \in Nat /\ t.value >= leg.value /\ t.size >= leg.qty
    BY <1>1, <2>1, HitCovers DEF FokInv
  <2>4. /\ Post(k, "pooled", leg, t.value, t.size) \in Call
        /\ CallSound(Post(k, "pooled", leg, t.value, t.size))
    BY <2>3, PostSound DEF Posting
  <2>5. CallsInv'
    BY <2>1, <2>4, OneCall DEF FokInv
  <2> QED BY <2>2, <2>5 DEF FokInv
<1>3. CASE /\ Miss(leg.unit, leg.value, leg.qty)
           /\ call' = [call EXCEPT ![c] = Post(k, "fresh", leg, leg.value, leg.qty)]
  <2>1. PoolInv' /\ PoolNext
    BY <1>1, <1>3, MissKeeps DEF FokInv, PoolNext
  <2>2. /\ Post(k, "fresh", leg, leg.value, leg.qty) \in Call
        /\ CallSound(Post(k, "fresh", leg, leg.value, leg.qty))
    BY <1>1, PostSound DEF Posting
  <2>3. CallsInv'
    BY <1>3, <2>2, OneCall DEF FokInv
  <2> QED BY <2>1, <2>3 DEF FokInv
<1> QED BY <1>2, <1>3 DEF Submit

LEMMA SubmitTemplateKeeps ==
  ASSUME FokInv, NEW c \in Calls, NEW leg \in Leg, SubmitTemplate(c, leg)
  PROVE  FokInv' /\ PoolNext
<1>1. leg.unit \in Units /\ leg.value \in Nat /\ leg.qty \in Nat
  BY DEF Leg
<1>2. PICK t \in EntryOf(pool, leg.unit).templates :
        /\ Hit(leg.unit, leg.value, leg.qty, t)
        /\ LET own == [unit |-> leg.unit, value |-> t.value, qty |-> t.size]
           IN  call' = [call EXCEPT ![c] = Post(@, "direct", own, t.value, t.size)]
  BY DEF SubmitTemplate
<1> DEFINE own == [unit |-> leg.unit, value |-> t.value, qty |-> t.size]
<1>3. PoolInv' /\ PoolNext
  BY <1>1, <1>2, HitKeeps DEF FokInv, PoolNext
<1>4. t.value \in Nat /\ t.size \in Nat \ {0} /\ t.size \in Nat
  BY <1>1, <1>2, HitCovers DEF FokInv
<1>5. own \in Leg /\ own.value = t.value /\ own.qty = t.size
  BY <1>1, <1>4 DEF Leg
<1>6. call[c] \in Call /\ call[c] = Idle
  BY DEF SubmitTemplate, FokInv, CallsInv, CallSound
<1>7. /\ Post(call[c], "direct", own, t.value, t.size) \in Call
      /\ CallSound(Post(call[c], "direct", own, t.value, t.size))
  BY <1>4, <1>5, <1>6, PostSound DEF Posting
<1>8. call' = [call EXCEPT ![c] = Post(call[c], "direct", own, t.value, t.size)]
  BY <1>2
<1>9. CallsInv'
  BY <1>7, <1>8, OneCall DEF FokInv
<1> QED BY <1>3, <1>9 DEF FokInv

-----------------------------------------------------------------------------
(* The exchange.                                                           *)

LEMMA Times == ASSUME NEW a \in Nat, NEW b \in Nat, NEW c \in Nat, b <= c
               PROVE  a * b \in Nat /\ a * b <= a * c
<1>1. PICK d \in Nat : c = b + d
  <2>1. c - b \in Nat /\ c = b + (c - b)
    OBVIOUS
  <2> QED BY <2>1
<1>2. a * c = a * b + a * d /\ a * d \in Nat /\ a * b \in Nat
  BY <1>1
<1> QED BY <1>2

\* A fill adds the size of the order, at no more than its limit.
LEMMA FillsType ==
  ASSUME NEW k \in Call, NEW f \in Fills(k)
  PROVE  /\ f \in Call
         /\ f.at = k.at /\ f.leg = k.leg /\ f.size = k.size /\ f.value = k.value
         /\ f.lost = k.lost /\ f.booked = k.booked /\ f.unsaid = k.unsaid
         /\ f.bought = k.bought + k.size
         /\ f.paid <= k.paid + k.size * k.value
<1>1. PICK price \in Prices : /\ price <= k.value
        /\ f = [k EXCEPT !.bought = @ + k.size, !.paid = @ + k.size * price]
  BY DEF Fills
<1>2. price \in Nat /\ k.size \in Nat /\ k.value \in Nat /\ k.paid \in Nat /\ k.bought \in Nat
  BY FokAssumption DEF Call
<1>3. k.size * price \in Nat /\ k.size * price <= k.size * k.value /\ k.size * k.value \in Nat
  BY <1>1, <1>2, Times
<1>4. k.bought + k.size \in Nat /\ k.paid + k.size * price \in Nat
  BY <1>2, <1>3
<1>5. f \in Call
  BY <1>1, <1>4 DEF Call
<1> DEFINE cost == k.size * price
<1>6. f = [k EXCEPT !.bought = @ + k.size, !.paid = @ + cost] /\ cost <= k.size * k.value
        /\ cost \in Nat
  BY <1>1, <1>3
<1> HIDE DEF cost
<1>7. f.paid = k.paid + cost
  BY <1>6 DEF Call
<1>8. f.paid <= k.paid + k.size * k.value
  BY <1>2, <1>3, <1>6, <1>7
<1> QED BY <1>5, <1>6, <1>8 DEF Call

LEMMA AnsweredKeeps ==
  ASSUME FokInv, NEW c \in Calls, Answered(c)
  PROVE  FokInv'
<1> DEFINE old == call[c]
<1>1. old \in Call /\ Posted(old)
  BY DEF Answered, FokInv, CallsInv, CallSound
<1>2. /\ old.size \in Nat /\ old.bought \in Nat /\ old.lost \in Nat /\ old.paid \in Nat
      /\ old.value \in Nat
  BY <1>1 DEF Call
<1>3. old.leg \in Leg /\ old.leg.qty \in Nat \ {0} /\ old.leg.value \in Nat
  BY <1>1 DEF Posted, Leg
<1>a. PICK outcome \in Outcomes \cap {"filled", "silent", "killed"} :
        \E k \in IF outcome = "killed" THEN {old} ELSE Fills(old) :
          call' = [call EXCEPT ![c] =
            [k EXCEPT !.at = "done", !.unsaid = Unsaid(k, outcome),
                      !.booked = Booked(k, outcome)]]
  BY DEF Answered
<1>4. PICK k \in IF outcome = "killed" THEN {old} ELSE Fills(old) :
        call' = [call EXCEPT ![c] =
          [k EXCEPT !.at = "done", !.unsaid = Unsaid(k, outcome),
                    !.booked = Booked(k, outcome)]]
  BY <1>a
<1> DEFINE new == [k EXCEPT !.at = "done", !.unsaid = Unsaid(k, outcome),
                            !.booked = Booked(k, outcome)]
<1>5. k \in Call /\ k.leg = old.leg /\ k.size = old.size /\ k.value = old.value
        /\ k.lost = old.lost
  BY <1>1, <1>4, FillsType
<1>6. Booked(k, outcome) \in Nat /\ Unsaid(k, outcome) \in Nat
  BY <1>2, <1>3, <1>5 DEF Booked, Unsaid
<1>7. new \in Call /\ new.at = "done" /\ new.booked = Booked(k, outcome) /\ new.leg = k.leg
        /\ new.size = k.size /\ new.value = k.value /\ new.lost = k.lost
        /\ new.bought = k.bought /\ new.paid = k.paid
        /\ new.unsaid = Unsaid(k, outcome)
  BY <1>5, <1>6 DEF Call
<1> HIDE DEF new
<1>8. new.booked <= new.bought /\ Explained(new)
  <2>1. CASE outcome = "killed"
    <3>1. new.booked = 0 /\ new.bought = old.bought /\ new.paid = old.paid
      BY <1>4, <1>7, <2>1 DEF Booked
    <3>2. new.unsaid = 0
      BY <1>7, <2>1 DEF Unsaid
    <3>3. (new.booked + new.unsaid) * new.leg.value = 0
      BY <1>3, <1>5, <1>7, <3>1, <3>2
    <3> QED BY <1>1, <1>2, <1>3, <1>5, <1>7, <3>1, <3>2, <3>3 DEF Posted, Explained
  <2>2. CASE outcome # "killed"
    <3>1. k.bought = old.bought + old.size /\ k.paid <= old.paid + old.size * old.value
      BY <1>1, <1>4, <2>2, FillsType
    <3>2. new.booked \in Nat /\ new.booked <= old.size
          /\ new.unsaid \in Nat /\ new.booked + new.unsaid = old.size
      <4>1. old.size >= old.leg.qty
        BY <1>1 DEF Posted
      <4>2. CASE outcome = "filled"
        <5>1. new.unsaid = 0 /\ new.booked = old.size
          BY <1>5, <1>7, <4>2 DEF Booked, Unsaid
        <5> QED BY <1>2, <5>1
      <4>3. CASE outcome = "silent"
        <5>1. /\ new.booked = old.leg.qty
              /\ new.unsaid =
                   IF old.size > old.leg.qty THEN old.size - old.leg.qty ELSE 0
          BY <1>5, <1>7, <4>3 DEF Booked, Unsaid
        <5> QED BY <1>2, <1>3, <4>1, <5>1
      <4> QED BY <2>2, <4>2, <4>3
    <3>3. new.booked <= new.bought
      BY <1>1, <1>2, <1>7, <3>1, <3>2
    <3>4. new.bought = new.booked + new.lost + new.unsaid
      BY <1>1, <1>2, <1>5, <1>7, <3>1, <3>2 DEF Posted
    <3>5. ASSUME new.lost = 0, new.value <= new.leg.value
          PROVE  new.paid <= (new.booked + new.unsaid) * new.leg.value
      <4>1. old.value = old.leg.value /\ new.leg.value = old.value
        BY <1>1, <1>2, <1>3, <1>5, <1>7, <3>5 DEF Posted
      <4>2. old.paid = 0 /\ new.paid <= old.paid + old.size * old.value
        BY <1>1, <1>5, <1>7, <3>1, <3>5 DEF Posted
      <4>3. old.size * old.value \in Nat /\ new.paid \in Nat
        BY <1>2, <1>7, Times DEF Call
      <4>4. new.paid <= old.size * old.value
        BY <4>2, <4>3
      <4> QED BY <3>2, <4>1, <4>4
    <3> QED BY <1>3, <1>5, <1>7, <3>3, <3>4, <3>5 DEF Explained
  <2> QED BY <2>1, <2>2
<1>9. CallSound(new)
  BY <1>7, <1>8 DEF CallSound, Posting
<1>10. call' = [call EXCEPT ![c] = new]
  BY <1>4 DEF new
<1>11. CallsInv'
  BY <1>7, <1>9, <1>10, OneCall DEF FokInv
<1>12. PoolInv'
  BY DEF Answered, FokInv, poolVars, PoolInv, PoolTypeOK, OneLadder, Tracked,
     JobSound, Apart, BuiltNumbered, EntryOf
<1> QED BY <1>11, <1>12 DEF FokInv

LEMMA RaisesKeeps ==
  ASSUME FokInv, NEW c \in Calls, Raises(c)
  PROVE  FokInv' /\ [PoolNext]_poolVars
<1> DEFINE old == call[c]
<1>1. old \in Call /\ Posted(old)
  BY DEF Raises, FokInv, CallsInv, CallSound
<1>2. PICK outcome \in Outcomes \cap {"refused", "lost"} :
        \E k \in IF outcome = "refused" THEN {old}
                ELSE {[f EXCEPT !.lost = @ + f.size] : f \in Fills(old)} :
          \/ k.at = "direct" /\ Submit(c, k, k.leg)
          \/ /\ k.at = "pooled"
             /\ call' = [call EXCEPT ![c] = Post(k, "fresh", k.leg, k.leg.value, k.leg.qty)]
             /\ UNCHANGED poolVars
          \/ /\ k.at = "fresh"
             /\ call' = [call EXCEPT ![c] = [k EXCEPT !.at = "done"]]
             /\ UNCHANGED poolVars
  BY DEF Raises
<1>3. PICK k \in IF outcome = "refused" THEN {old}
                ELSE {[f EXCEPT !.lost = @ + f.size] : f \in Fills(old)} :
          \/ k.at = "direct" /\ Submit(c, k, k.leg)
          \/ /\ k.at = "pooled"
             /\ call' = [call EXCEPT ![c] = Post(k, "fresh", k.leg, k.leg.value, k.leg.qty)]
             /\ UNCHANGED poolVars
          \/ /\ k.at = "fresh"
             /\ call' = [call EXCEPT ![c] = [k EXCEPT !.at = "done"]]
             /\ UNCHANGED poolVars
  BY <1>2
<1>4. k \in Call /\ Posted(k)
  <2>1. CASE outcome = "refused"
    BY <1>1, <1>3, <2>1
  <2>2. CASE outcome # "refused"
    <3>1. PICK f \in Fills(old) : k = [f EXCEPT !.lost = @ + f.size]
      BY <1>3, <2>2
    <3>2. /\ f \in Call /\ f.leg = old.leg /\ f.size = old.size /\ f.value = old.value
          /\ f.lost = old.lost /\ f.booked = old.booked /\ f.bought = old.bought + old.size
          /\ f.unsaid = old.unsaid
      BY <1>1, FillsType
    <3>3. f.lost \in Nat /\ f.size \in Nat /\ f.lost + f.size \in Nat
      BY <3>2 DEF Call
    <3>4. k \in Call /\ k.lost = f.lost + f.size /\ k.leg = f.leg /\ k.size = f.size
            /\ k.value = f.value /\ k.booked = f.booked /\ k.bought = f.bought
            /\ k.paid = f.paid /\ k.unsaid = f.unsaid
      BY <3>1, <3>2, <3>3 DEF Call
    <3>5. f.size > 0
      BY <1>1, <3>2, <3>3 DEF Posted, Leg
    <3> QED BY <1>1, <3>2, <3>3, <3>4, <3>5 DEF Posted
  <2> QED BY <2>1, <2>2
<1>5. k.leg \in Leg /\ k.leg.value \in Nat /\ k.leg.qty \in Nat
  BY <1>4 DEF Posted, Leg
<1>6. CASE k.at = "direct" /\ Submit(c, k, k.leg)
  BY <1>4, <1>5, <1>6, SubmitKeeps
<1>7. ASSUME UNCHANGED poolVars PROVE PoolInv'
  BY <1>7 DEF FokInv, poolVars, PoolInv, PoolTypeOK, OneLadder, Tracked,
     JobSound, Apart, BuiltNumbered, EntryOf
<1>8. CASE /\ call' = [call EXCEPT ![c] = Post(k, "fresh", k.leg, k.leg.value, k.leg.qty)]
           /\ UNCHANGED poolVars
  <2>1. /\ Post(k, "fresh", k.leg, k.leg.value, k.leg.qty) \in Call
        /\ CallSound(Post(k, "fresh", k.leg, k.leg.value, k.leg.qty))
    BY <1>4, <1>5, PostSound DEF Posting
  <2>2. CallsInv'
    BY <1>8, <2>1, OneCall DEF FokInv
  <2> QED BY <1>7, <1>8, <2>2 DEF FokInv
<1>9. CASE /\ call' = [call EXCEPT ![c] = [k EXCEPT !.at = "done"]]
           /\ UNCHANGED poolVars
  <2> DEFINE new == [k EXCEPT !.at = "done"]
  <2>1. /\ new \in Call /\ new.at = "done" /\ new.leg = k.leg /\ new.booked = k.booked
        /\ new.bought = k.bought /\ new.lost = k.lost /\ new.paid = k.paid
        /\ new.size = k.size /\ new.value = k.value /\ new.unsaid = k.unsaid
    BY <1>4 DEF Call
  <2> HIDE DEF new
  <2>2. new.booked = 0 /\ new.bought \in Nat /\ new.lost \in Nat /\ new.bought = new.lost
          /\ new.paid \in Nat /\ new.leg \in Leg /\ (new.lost = 0 => new.paid = 0)
          /\ new.unsaid = 0
    BY <1>4, <2>1 DEF Posted, Call
  <2>3. (new.booked + new.unsaid) * new.leg.value = 0
    BY <1>5, <2>1, <2>2
  <2>4. Explained(new) /\ new.booked <= new.bought
    BY <2>2, <2>3 DEF Explained
  <2>5. CallSound(new)
    BY <2>1, <2>4 DEF CallSound, Posting
  <2>6. call' = [call EXCEPT ![c] = new]
    BY <1>9 DEF new
  <2>7. CallsInv'
    BY <2>1, <2>5, <2>6, OneCall DEF FokInv
  <2> QED BY <1>7, <1>9, <2>7 DEF FokInv
<1> QED BY <1>3, <1>6, <1>8, <1>9

-----------------------------------------------------------------------------
(* Theorems.                                                               *)

\* Whatever the callers do, the pool takes steps of its own specification.
LEMMA FokStep ==
  ASSUME FokInv, [Next]_vars
  PROVE  FokInv' /\ [PoolNext]_poolVars
<1>1. CASE Background /\ UNCHANGED call
  <2>1. PoolNext
    BY <1>1 DEF PoolNext
  <2>2. PoolInv'
    BY <2>1, PoolStep DEF FokInv
  <2> QED BY <1>1, <2>1, <2>2 DEF FokInv, CallsInv, CallSound
<1>2. CASE \E c \in Calls : \E leg \in Requests : SubmitFok(c, leg)
  <2>1. PICK c \in Calls, leg \in Requests : SubmitFok(c, leg)
    BY <1>2
  <2>2. call[c] \in Call /\ call[c] = Idle /\ leg \in Leg /\ Submit(c, call[c], leg)
    BY <2>1, FokAssumption DEF SubmitFok, FokInv, CallsInv, CallSound
  <2> QED BY <2>2, SubmitKeeps
<1>3. CASE \E c \in Calls : \E leg \in Requests : SubmitTemplate(c, leg)
  BY <1>3, SubmitTemplateKeeps, FokAssumption
<1>4. CASE \E c \in Calls : Answered(c)
  BY <1>4, AnsweredKeeps DEF Answered
<1>5. CASE \E c \in Calls : Raises(c)
  BY <1>5, RaisesKeeps
<1>6. CASE UNCHANGED vars
  <2>1. UNCHANGED poolVars /\ UNCHANGED call
    BY <1>6 DEF vars
  <2>2. PoolInv'
    BY <2>1, PoolStep DEF FokInv
  <2> QED BY <2>1, <2>2 DEF FokInv, CallsInv, CallSound
<1> QED BY <1>1, <1>2, <1>3, <1>4, <1>5, <1>6 DEF Next

\* The invariant, and that FokOrders implements PresignedPool.
THEOREM FokInvariance == Spec => []FokInv /\ PoolSpec
<1>1. Init => FokInv /\ PoolInit
  <2> SUFFICES ASSUME Init PROVE FokInv /\ PoolInit
    OBVIOUS
  <2>1. Idle \in Call /\ CallSound(Idle)
    BY DEF Idle, Call, CallSound, Posting
  <2> QED BY <2>1, InitHolds DEF Init, FokInv, CallsInv
<1>2. FokInv /\ [Next]_vars => FokInv' /\ [PoolNext]_poolVars
  BY FokStep
<1> QED BY <1>1, <1>2, PTL DEF Spec, PoolSpec

\* TypeOK: with callers, lost replies and retries.
THEOREM FokTypes == Spec => []TypeOK
<1>1. FokInv => TypeOK
  BY DEF FokInv, PoolInv, CallsInv, TypeOK
<1> QED BY <1>1, FokInvariance, PTL

\* OneLadder: a call never sees parts of two ladders.
THEOREM FokLadders == Spec => []OneLadder
<1>1. FokInv => OneLadder
  BY DEF FokInv, PoolInv
<1> QED BY <1>1, FokInvariance, PTL

\* DropsForGood: no call gets an order signed before its token was dropped.
THEOREM FokDropsAreFinal == Spec => DropsForGood
BY FokInvariance, DropsAreFinal, PTL

\* ImplementsOneShot: between calls, retries and the worker an order is handed
\* out once, and in time.
THEOREM FokImplementsOneShot == Spec => ImplementsOneShot
BY FokInvariance, PoolImplementsOneShot, PTL

\* CacheBounded: the cache keeps to its cap, whatever the calls pop.
THEOREM FokCacheCapped == ASSUME IsFiniteSet(Units) PROVE Spec => []CacheBounded
<1>1. PoolSpec => []CacheBounded
  BY CacheCapped
<1> QED BY <1>1, FokInvariance, PTL

\* The two books of a call, from the invariant of the call.
LEMMA BooksAccounted == FokInv => NoPhantomShares /\ CostExplained
<1> SUFFICES ASSUME FokInv, NEW c \in Calls
             PROVE  /\ call[c].booked <= call[c].bought
                    /\ call[c].at = "done" => Explained(call[c])
  BY DEF NoPhantomShares, CostExplained, Explained
<1>1. call[c] \in Call /\ CallSound(call[c])
  BY DEF FokInv, CallsInv
<1>2. call[c].bought \in Nat /\ call[c].at \in {"idle", "done"} \cup Posting
  BY <1>1 DEF Call, Posting
<1>3. CASE call[c].at = "idle"
  BY <1>1, <1>3 DEF CallSound, Idle
<1>4. CASE call[c].at \in Posting
  BY <1>1, <1>2, <1>4 DEF CallSound, Posted, Posting
<1>5. CASE call[c].at = "done"
  BY <1>1, <1>5 DEF CallSound
<1> QED BY <1>2, <1>3, <1>4, <1>5

\* NoPhantomShares: what a result books, the account got.
THEOREM NothingPhantom == Spec => []NoPhantomShares
BY BooksAccounted, FokInvariance, PTL

\* CostExplained: what the account paid, the result books or an exception
\* accounts for.
THEOREM CostsAreExplained == Spec => []CostExplained
BY BooksAccounted, FokInvariance, PTL
=============================================================================
