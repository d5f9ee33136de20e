--------------------------- MODULE PresignedPool ---------------------------
(***************************************************************************)
(* The pool of pre-signed orders of execution/presigned_payload_pool.py in *)
(* live mode: a bounded queue of observed books, one worker that signs a   *)
(* ladder of orders per token, and pop_matching, which hands one out.      *)
(*                                                                         *)
(* The worker is a coroutine suspended while a thread signs one order;     *)
(* notify_book, pop_matching and drop_token have no await and run between  *)
(* any two signatures.  Prices are in ticks.  Second is the number of      *)
(* clock steps in a second, all durations are in clock steps.              *)
(***************************************************************************)
EXTENDS Integers, Sequences, FiniteSets

CONSTANTS
  Units,        \* token ids
  Books,        \* [unit, ask, usd]: the books a scanner may report
  QueueSize,    \* maxsize of _refresh_queue
  MaxTokens,    \* max_tokens
  Ladder,       \* ladder_size
  Redrift,      \* ladder_redrift_ticks
  MinInterval,  \* refresh_min_interval_sec
  MaxAge,       \* max_age_sec
  Expiration,   \* order_expiration_sec
  Buffer,       \* the 5 seconds pop_matching requires before expiry
  Second,       \* clock steps in a second
  Cap,          \* highest price of an order, 0.99
  NoEntry,      \* a token the pool does not track
  MaxNow,       \* bound on the clock
  MaxSigned     \* bound on the orders signed

Book == [unit : Units, ask : Nat \ {0}, usd : Nat \ {0}]

ASSUME PoolAssumption ==
  /\ Books \subseteq Book
  /\ {QueueSize, MaxTokens, Ladder, Redrift, Second, Cap} \subseteq Nat \ {0}
  /\ {MinInterval, MaxAge, Expiration, Buffer, MaxNow, MaxSigned} \subseteq Nat

\* As configured, an order is too close to expiry to be handed out by the
\* time it has reached max_age_sec.
ASSUME AgesAssumption == Expiration - Buffer <= MaxAge

Template == [unit : Units, value : Nat, size : Nat \ {0},
             n : Nat \ {0}, signed : Nat, expires : Nat]
Entry == [templates : SUBSET Template, refreshed : Nat, ask : Nat]

ASSUME NoEntryAssumption == NoEntry \notin Entry

VARIABLES
  now,     \* time.time() and time.monotonic()
  queue,   \* _refresh_queue
  pool,    \* _pool: the entry of each token
  worker,  \* the refresh task: "idle" in get(), "signing", or "stopped"
  job,     \* the ladder it is signing; the head of left is in the thread
  signed,  \* signed_count
  used     \* history: the templates handed out, and when

poolVars == <<now, queue, pool, worker, job, signed, used>>

Tracked == {u \in Units : pool[u] # NoEntry}

\* _PoolEntry(token_id): never refreshed, no ladder.
NewEntry == [templates |-> {}, refreshed |-> 0, ask |-> 0]

NoJob == [left |-> <<>>, built |-> {}, since |-> 0, attached |-> FALSE]

\* round() of usd / ask, to even in the middle, and at least one share.
Shares(book) ==
  LET quotient == book.usd \div book.ask
      twice == 2 * (book.usd % book.ask)
      up == twice > book.ask \/ (twice = book.ask /\ quotient % 2 = 1)
      rounded == IF up THEN quotient + 1 ELSE quotient
  IN  IF rounded = 0 THEN 1 ELSE rounded

\* The price of rung i of the ladder over an ask.
Rung(ask, i) == IF ask + i - 1 < Cap THEN ask + i - 1 ELSE Cap

Rungs(ask) == [i \in 1 .. Ladder |-> Rung(ask, i)]

-----------------------------------------------------------------------------
(* notify_book, drop_token, stop, the clock.                               *)

\* Mutant: a full queue takes one more.
NotifyPastFull(book) ==
  /\ queue' = IF Len(queue) <= QueueSize THEN Append(queue, book) ELSE queue
  /\ UNCHANGED <<now, pool, worker, job, signed, used>>

\* A full queue drops the book it is offered.
Notify(book) ==
  /\ queue' = IF Len(queue) < QueueSize THEN Append(queue, book) ELSE queue
  /\ UNCHANGED <<now, pool, worker, job, signed, used>>

\* Mutant: the worker looks the token up again instead of keeping its entry.
DropTokenOnly(u) ==
  /\ pool[u] # NoEntry
  /\ pool' = [pool EXCEPT ![u] = NoEntry]
  /\ UNCHANGED <<now, queue, worker, job, signed, used>>

\* drop_token.  A worker that is signing for the token keeps the entry it
\* looked up, which is no longer in the pool.
DropToken(u) ==
  /\ pool[u] # NoEntry
  /\ pool' = [pool EXCEPT ![u] = NoEntry]
  /\ job' = IF worker = "signing" /\ job.book.unit = u
            THEN [job EXCEPT !.attached = FALSE] ELSE job
  /\ UNCHANGED <<now, queue, worker, signed, used>>

\* stop() cancels the worker where it waits.
StopWorker ==
  /\ worker # "stopped"
  /\ worker' = "stopped" /\ job' = NoJob
  /\ UNCHANGED <<now, queue, pool, signed, used>>

Tick ==
  /\ now < MaxNow
  /\ now' = now + 1
  /\ UNCHANGED <<queue, pool, worker, job, signed, used>>

-----------------------------------------------------------------------------
(* The refresh worker.                                                     *)

\* The entries whose ladder is the oldest: one makes room for a new token.
Oldest == {u \in Tracked : \A o \in Tracked : pool[u].refreshed <= pool[o].refreshed}

\* Mutant: the cap is noticed one token late.
RoomForLate(u) ==
  IF pool[u] # NoEntry \/ Cardinality(Tracked) <= MaxTokens
  THEN {pool}
  ELSE {[pool EXCEPT ![old] = NoEntry] : old \in Oldest}

RoomFor(u) ==
  IF pool[u] # NoEntry \/ Cardinality(Tracked) < MaxTokens
  THEN {pool}
  ELSE {[pool EXCEPT ![old] = NoEntry] : old \in Oldest}

EntryOf(p, u) == IF p[u] = NoEntry THEN NewEntry ELSE p[u]

Throttled(entry) == now - entry.refreshed < MinInterval /\ entry.templates # {}

\* The answers of the drift test: at exactly Redrift ticks the quotient of
\* two floats falls on either side.
Drifted(entry, ask) ==
  LET far == IF ask > entry.ask THEN ask - entry.ask ELSE entry.ask - ask
  IN  IF entry.ask = 0 \/ far < Redrift THEN {FALSE}
      ELSE IF far = Redrift THEN BOOLEAN ELSE {TRUE}

Unaged(entry) == {t \in entry.templates : t.expires > now /\ now - t.signed < MaxAge}

\* What is left of a ladder after pruning is good enough, or a whole new one
\* is signed beside it, price by price.
Handle ==
  /\ worker = "idle" /\ queue # <<>>
  /\ queue' = Tail(queue)
  /\ LET book == Head(queue)
         u == book.unit
     IN  \E room \in RoomFor(u) : \E drifted \in Drifted(EntryOf(room, u), book.ask) :
           LET entry == EntryOf(room, u)
               throttled == Throttled(entry)
               unaged == Unaged(entry)
               healthy == throttled \/ (unaged # {} /\ ~drifted)
           IN  /\ pool' = [room EXCEPT ![u] =
                     IF throttled THEN entry ELSE [entry EXCEPT !.templates = unaged]]
               /\ healthy => UNCHANGED <<worker, job>>
               /\ ~healthy =>
                    /\ signed + Ladder <= MaxSigned
                    /\ worker' = "signing"
                    /\ job' = [book |-> book, left |-> Rungs(book.ask), built |-> {},
                               since |-> now, attached |-> TRUE]
  /\ UNCHANGED <<now, signed, used>>

\* The order in the thread, once it is signed.  It carries the time its
\* signing began and expires a whole number of seconds after it.
InFlight ==
  [unit |-> job.book.unit, value |-> Head(job.left), size |-> Shares(job.book),
   n |-> signed + 1, signed |-> job.since,
   expires |-> (job.since \div Second) * Second + Expiration]

\* Mutant: new orders are added to the old ones.
InstallBeside(built) ==
  LET u == job.book.unit
  IN  pool' = IF job.attached
              THEN [pool EXCEPT ![u] = [templates |-> pool[u].templates \cup built,
                                        refreshed |-> now, ask |-> job.book.ask]]
              ELSE pool

\* The finished ladder replaces what is left of the old one.
Install(built) ==
  pool' = IF job.attached
          THEN [pool EXCEPT ![job.book.unit] =
                  [templates |-> built, refreshed |-> now, ask |-> job.book.ask]]
          ELSE pool

\* The thread returns with an order, or raises and the rung is left out.
Sign(ok) ==
  /\ worker = "signing"
  /\ LET built == IF ok THEN job.built \cup {InFlight} ELSE job.built
     IN  IF Len(job.left) = 1
         THEN worker' = "idle" /\ job' = NoJob /\ Install(built)
         ELSE /\ job' = [job EXCEPT !.left = Tail(@), !.built = built, !.since = now]
              /\ UNCHANGED <<worker, pool>>
  /\ signed' = IF ok THEN signed + 1 ELSE signed
  /\ UNCHANGED <<now, queue, used>>

-----------------------------------------------------------------------------
(* pop_matching, the whole of it between two awaits of its caller.         *)

Unexpired(u) == {t \in EntryOf(pool, u).templates : t.expires > now + Buffer}

\* Mutant: any size goes.
MatchesOfAnySize(u, value, size) == {t \in Unexpired(u) : t.value >= value}

Matches(u, value, size) == {t \in Unexpired(u) : t.value >= value /\ t.size >= size}

Newest(templates) == {t \in templates : \A o \in templates : o.n <= t.n}

\* Mutant: the order handed out stays in the pool.
TakeCopy(u, t) == pool' = [pool EXCEPT ![u].templates = Unexpired(u)]

Take(u, t) == pool' = [pool EXCEPT ![u].templates = Unexpired(u) \ {t}]

\* t, the newest order that matches, is handed out.
Hit(u, value, size, t) ==
  /\ t \in Newest(Matches(u, value, size))
  /\ Take(u, t)
  /\ used' = used \cup {[payload |-> t, at |-> now]}
  /\ UNCHANGED <<now, queue, worker, job, signed>>

Miss(u, value, size) ==
  /\ Matches(u, value, size) = {}
  /\ pool' = IF pool[u] = NoEntry THEN pool
             ELSE [pool EXCEPT ![u].templates = Unexpired(u)]
  /\ UNCHANGED <<now, queue, worker, job, signed, used>>

-----------------------------------------------------------------------------
PoolInit ==
  /\ now = 0 /\ queue = <<>> /\ signed = 0 /\ used = {}
  /\ pool = [u \in Units |-> NoEntry]
  /\ worker = "idle" /\ job = NoJob

WorkerStep == Handle \/ Sign(TRUE) \/ Sign(FALSE)

\* The steps that are not a caller's.
Background ==
  \/ WorkerStep \/ StopWorker \/ Tick
  \/ \E book \in Books : Notify(book)
  \/ \E u \in Units : DropToken(u)

PoolNext ==
  \/ Background
  \/ \E u \in Units, value, size \in Nat :
       \/ Miss(u, value, size)
       \/ \E t \in EntryOf(pool, u).templates : Hit(u, value, size, t)

PoolSpec == PoolInit /\ [][PoolNext]_poolVars

-----------------------------------------------------------------------------
(* Properties.                                                             *)

Job == [book : Book, left : Seq(Nat), built : SUBSET Template,
        since : Nat, attached : BOOLEAN]

\* The cache keeps to its cap on tokens, and a worker that is not signing has
\* no ladder in hand.
PoolTypeOK ==
  /\ now \in Nat /\ signed \in Nat
  /\ queue \in Seq(Book) /\ Len(queue) <= QueueSize
  /\ pool \in [Units -> Entry \cup {NoEntry}]
  /\ worker \in {"idle", "signing", "stopped"}
  /\ IF worker = "signing" THEN job \in Job /\ job.left # <<>> ELSE job = NoJob
  /\ used \subseteq [payload : Template, at : Nat]

CacheBounded == Cardinality(Tracked) <= MaxTokens

Ready == job.built \cup UNION {EntryOf(pool, u).templates : u \in Units}

Promise == INSTANCE OneShot WITH
  Life <- Expiration, issued <- signed, ready <- Ready

\* The pool is a store of one-shot payloads: whatever the worker signs,
\* replaces and evicts between two calls, each order is handed out at most
\* once and only while more than Buffer is left of its life.
ImplementsOneShot == Promise!Spec

\* The orders of an entry are one ladder, signed for the ask that the drift
\* test compares with: pop_matching, running while the next ladder is signed,
\* sees the old one or the new one and never some of each.
OneLadder == \A u \in Tracked :
  \A t \in pool[u].templates :
    /\ t.unit = u
    /\ \E i \in 1 .. Ladder : t.value = Rung(pool[u].ask, i)
    /\ \A o \in pool[u].templates : o.size = t.size

\* A token that was dropped comes back only as an empty entry: no order signed
\* before or across the drop is handed out after it.
DropsForGood ==
  [][\A u \in Units : pool[u] = NoEntry /\ pool'[u] # NoEntry
                        => pool'[u].templates = {}]_poolVars
=============================================================================
