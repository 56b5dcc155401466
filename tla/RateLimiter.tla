---------------------------- MODULE RateLimiter ----------------------------
(***************************************************************************)
(* The per-key rate limiter of internal/ratelimit/ratelimit.go.            *)
(*                                                                         *)
(* Every request is served by its own goroutine (a member of Procs) that   *)
(* runs Limiter.Allow for one API key.  The code is split where it gives   *)
(* up a lock, calls the database or reads the clock, so each action below  *)
(* is one critical section, one query or one clock read.                   *)
(*                                                                         *)
(* The arithmetic is exact where the code uses float64.  Time is counted   *)
(* in ticks and tokens in units chosen so that a bucket gains exactly      *)
(* RequestsPerMin units per tick: one token is One = 60 * TicksPerSec      *)
(* units, because rate = RequestsPerMin / 60 tokens per second.            *)
(***************************************************************************)
EXTENDS Integers, FiniteSets

CONSTANTS
    Keys,        \* API key ids
    Procs,       \* goroutines serving requests
    BucketIds,   \* heap addresses of bucket structs
    Cfgs,        \* the quotas an operator may configure
    DefaultCfg,  \* the limiter's defaultCfg
    Nil,         \* a missing map entry, row or pointer
    TicksPerMs,  \* clock resolution: ticks in a millisecond
    MsPerSec,    \* milliseconds in a second
    IdleTicks,   \* Cleanup's ten minutes
    MaxTime,     \* bound on the clock
    MaxDisturb   \* bound on quota changes and failed lookups of a key

ASSUME ConfigAssumption ==
    /\ Cfgs \subseteq [rpm : Nat, burst : Nat]
    /\ DefaultCfg \in Cfgs
    /\ Nil \notin Cfgs
    /\ Nil \notin BucketIds

ASSUME ClockAssumption ==
    /\ TicksPerMs \in Nat \ {0}
    /\ MsPerSec \in Nat \ {0}
    /\ IdleTicks \in Nat
    /\ MaxTime \in Nat
    /\ MaxDisturb \in Nat

VARIABLES
    now,      \* the wall clock, l.now()
    row,      \* the rate_limits table: row[k] is a quota or Nil
    configs,  \* Limiter.configs
    buckets,  \* Limiter.buckets: a heap address or Nil
    heap,     \* the bucket structs
    pc,       \* where each goroutine is in Allow
    key,      \* its key.ID
    cfg,      \* its local cfg, dropped when getBucket returns
    bkt,      \* its local *bucket
    clk,      \* the l.now() it passes to allow
    reply,    \* what allow returned, with the Retry-After seconds
    obs,      \* history: admissions of a bucket since an observed request
    evicted,  \* history: buckets removed from the map but still referenced
    refused,  \* history: goroutines whose bucket has admitted nobody since it
              \* refused them
    disturbed \* history: how often a key's quota changed or failed to load

table == <<row, configs, buckets, heap>>
locals == <<key, cfg, bkt, clk, reply>>
history == <<obs, evicted, refused, disturbed>>
vars == <<now, table, pc, locals, history>>

TicksPerSec == MsPerSec * TicksPerMs
One == 60 * TicksPerSec

Bucket == [tokens : Int, capacity : Nat, rate : Nat, lastFill : Nat]
NoReply == [ok |-> FALSE, retry |-> 0]

(***************************************************************************)
(* bucket.allow.                                                           *)
(***************************************************************************)

\* Refill without the capacity cap.
RefillUncapped(b, t) == b.tokens + (t - b.lastFill) * b.rate

\* Line 47: what the bucket holds at time t, which may precede lastFill.
Refill(b, t) ==
    LET sum == b.tokens + (t - b.lastFill) * b.rate
    IN  IF sum < b.capacity THEN sum ELSE b.capacity

\* The wait of a refused request, in milliseconds.  With rate 0 the code
\* divides by zero; converting +Inf to a Duration and multiplying by
\* time.Millisecond wraps to a value below one second on every platform.
WaitMs(tokens, rate) ==
    IF rate = 0 THEN 0 ELSE ((One - tokens) \div rate) \div TicksPerMs

\* Rounding the Retry-After header down instead of up.
RetryAfterFloor(tokens, rate) ==
    LET ms == WaitMs(tokens, rate)
    IN  (IF ms < MsPerSec THEN MsPerSec ELSE ms) \div MsPerSec

\* Lines 55-59 and 154: at least a second, rounded up to whole seconds.
RetryAfter(tokens, rate) ==
    LET ms == WaitMs(tokens, rate)
        wait == IF ms < MsPerSec THEN MsPerSec ELSE ms
    IN  (wait + MsPerSec - 1) \div MsPerSec

(***************************************************************************)
(* Initially the limiter is empty and the table holds any quotas.          *)
(***************************************************************************)
Init ==
    /\ now = 0
    /\ row \in [Keys -> Cfgs \cup {Nil}]
    /\ configs = [k \in Keys |-> Nil]
    /\ buckets = [k \in Keys |-> Nil]
    /\ heap = [b \in BucketIds |->
                 [tokens |-> 0, capacity |-> 0, rate |-> 0, lastFill |-> 0]]
    /\ pc = [p \in Procs |-> "idle"]
    /\ key = [p \in Procs |-> Nil]
    /\ cfg = [p \in Procs |-> Nil]
    /\ bkt = [p \in Procs |-> Nil]
    /\ clk = [p \in Procs |-> 0]
    /\ reply = [p \in Procs |-> NoReply]
    /\ obs = [b \in BucketIds |-> [since |-> 0, at |-> 0]]
    /\ evicted = {}
    /\ refused = {}
    /\ disturbed = [k \in Keys |-> 0]

\* History only: the quota of k changed, or could not be read.
Disturb(k) ==
    /\ disturbed[k] < MaxDisturb
    /\ disturbed' = [disturbed EXCEPT ![k] = @ + 1]

Goto(p, from, to) ==
    /\ pc[p] = from
    /\ pc' = [pc EXCEPT ![p] = to]

(***************************************************************************)
(* Limiter.Middleware and Limiter.getBucket.                               *)
(***************************************************************************)

\* A request for key k enters; getBucket looks the bucket up under RLock.
Enter(p, k) ==
    /\ Goto(p, "idle", IF buckets[k] = Nil THEN "config" ELSE "clock")
    /\ key' = [key EXCEPT ![p] = k]
    /\ bkt' = [bkt EXCEPT ![p] = buckets[k]]
    /\ UNCHANGED <<now, table, cfg, clk, reply, history>>

\* Using the map's value without the comma-ok test.
LoadConfigUnchecked(p) ==
    /\ Goto(p, "config", "create")
    /\ cfg' = [cfg EXCEPT ![p] = configs[key[p]]]
    /\ UNCHANGED <<now, table, key, bkt, clk, reply, history>>

\* loadConfig: the cached quota, under RLock.
LoadConfig(p) ==
    /\ Goto(p, "config", IF configs[key[p]] = Nil THEN "query" ELSE "create")
    /\ cfg' = [cfg EXCEPT ![p] = configs[key[p]]]
    /\ UNCHANGED <<now, table, key, bkt, clk, reply, history>>

\* loadConfig: GetRateLimitByKeyID finds a row.
QueryRow(p) ==
    /\ Goto(p, "query", "store")
    /\ row[key[p]] # Nil
    /\ cfg' = [cfg EXCEPT ![p] = row[key[p]]]
    /\ UNCHANGED <<now, table, key, bkt, clk, reply, history>>

\* Using the zero row when the lookup reports sql.ErrNoRows.
QueryNoRowZero(p) ==
    /\ Goto(p, "query", "create")
    /\ row[key[p]] = Nil
    /\ cfg' = [cfg EXCEPT ![p] = [rpm |-> 0, burst |-> 0]]
    /\ UNCHANGED <<now, table, key, bkt, clk, reply, history>>

\* loadConfig: sql.ErrNoRows, so the default quota applies (not cached).
QueryNoRow(p) ==
    /\ Goto(p, "query", "create")
    /\ row[key[p]] = Nil
    /\ cfg' = [cfg EXCEPT ![p] = DefaultCfg]
    /\ UNCHANGED <<now, table, key, bkt, clk, reply, history>>

\* loadConfig: any other error is treated as a missing row.
QueryFails(p) ==
    /\ Goto(p, "query", "create")
    /\ cfg' = [cfg EXCEPT ![p] = DefaultCfg]
    /\ Disturb(key[p])
    /\ UNCHANGED <<now, table, key, bkt, clk, reply, obs, evicted, refused>>

\* loadConfig: the row's quota is cached under Lock.
StoreConfig(p) ==
    /\ Goto(p, "store", "create")
    /\ configs' = [configs EXCEPT ![key[p]] = cfg[p]]
    /\ UNCHANGED <<now, row, buckets, heap, locals, history>>

\* Addresses no map entry and no goroutine refers to.
FreeIds ==
    BucketIds \ ({buckets[k] : k \in Keys} \cup {bkt[p] : p \in Procs})

Install(p, b) ==
    /\ b \in FreeIds
    /\ heap' = [heap EXCEPT ![b] =
                  [tokens |-> cfg[p].burst * One, capacity |-> cfg[p].burst * One,
                   rate |-> cfg[p].rpm, lastFill |-> now]]
    /\ buckets' = [buckets EXCEPT ![key[p]] = b]
    /\ bkt' = [bkt EXCEPT ![p] = b]
    /\ obs' = [obs EXCEPT ![b] = [since |-> 0, at |-> now]]
    /\ evicted' = evicted \ {b}

\* Installing without looking again after the lock is taken.
CreateUnchecked(p) ==
    /\ Goto(p, "create", "clock")
    /\ \E b \in BucketIds : Install(p, b)
    /\ cfg' = [cfg EXCEPT ![p] = Nil]
    /\ UNCHANGED <<now, row, configs, key, clk, reply, refused, disturbed>>

\* getBucket under Lock: use the bucket another goroutine installed since,
\* or install a full one.
Create(p) ==
    /\ Goto(p, "create", "clock")
    /\ \/ /\ buckets[key[p]] # Nil
          /\ bkt' = [bkt EXCEPT ![p] = buckets[key[p]]]
          /\ UNCHANGED <<heap, buckets, obs, evicted>>
       \/ /\ buckets[key[p]] = Nil
          /\ \E b \in BucketIds : Install(p, b)
    /\ cfg' = [cfg EXCEPT ![p] = Nil]
    /\ UNCHANGED <<now, row, configs, key, clk, reply, refused, disturbed>>

(***************************************************************************)
(* Limiter.Allow: l.now() is evaluated before bucket.allow takes b.mu, so  *)
(* two requests may reach the bucket in the opposite order of their times. *)
(***************************************************************************)
ReadClock(p) ==
    /\ Goto(p, "clock", "take")
    /\ clk' = [clk EXCEPT ![p] = now]
    /\ UNCHANGED <<now, table, key, cfg, bkt, reply, history>>

\* History only: the observation of b restarts at this request when
\* `restart' holds, and otherwise counts it if it was admitted.
Observe(b, t, ok, restart) ==
    obs' = [obs EXCEPT ![b] =
              [since |-> (IF restart THEN 0 ELSE @.since) + (IF ok THEN 1 ELSE 0),
               at    |-> IF restart THEN t ELSE @.at]]

\* bucket.allow under b.mu.
Take(p, restart) ==
    LET b == bkt[p]
        tokens == Refill(heap[b], clk[p])
        ok == tokens >= One
    IN  /\ Goto(p, "take", "done")
        /\ heap' = [heap EXCEPT ![b] =
                      [@ EXCEPT !.tokens = IF ok THEN tokens - One ELSE tokens,
                                !.lastFill = clk[p]]]
        /\ reply' = [reply EXCEPT ![p] =
                       [ok    |-> ok,
                        retry |-> IF ok THEN 0 ELSE RetryAfter(tokens, heap[b].rate)]]
        /\ Observe(b, clk[p], ok, restart)
        /\ refused' = IF ok THEN {q \in refused : bkt[q] # b} ELSE refused \cup {p}
        /\ UNCHANGED <<now, row, configs, buckets, key, cfg, bkt, clk,
                       evicted, disturbed>>

\* The middleware calls next or answers 429; the goroutine is free again.
Return(p) ==
    /\ Goto(p, "done", "idle")
    /\ key' = [key EXCEPT ![p] = Nil]
    /\ bkt' = [bkt EXCEPT ![p] = Nil]
    /\ clk' = [clk EXCEPT ![p] = 0]
    /\ reply' = [reply EXCEPT ![p] = NoReply]
    /\ refused' = refused \ {p}
    /\ UNCHANGED <<now, table, cfg, obs, evicted, disturbed>>

(***************************************************************************)
(* Operations outside the request path.                                    *)
(***************************************************************************)

\* Cleanup deletes the buckets, and cached quotas, idle for ten minutes.
Cleanup ==
    LET idle == {k \in Keys : /\ buckets[k] # Nil
                              /\ now - heap[buckets[k]].lastFill > IdleTicks}
    IN  /\ idle # {}
        /\ buckets' = [k \in Keys |-> IF k \in idle THEN Nil ELSE buckets[k]]
        /\ configs' = [k \in Keys |-> IF k \in idle THEN Nil ELSE configs[k]]
        /\ evicted' = evicted \cup {buckets[k] : k \in idle}
        /\ UNCHANGED <<now, row, heap, pc, locals, obs, refused, disturbed>>

\* SetConfig injects a quota and drops the key's bucket.
SetConfig(k, c) ==
    /\ configs' = [configs EXCEPT ![k] = c]
    /\ buckets' = [buckets EXCEPT ![k] = Nil]
    /\ evicted' = evicted \cup ({buckets[k]} \ {Nil})
    /\ Disturb(k)
    /\ UNCHANGED <<now, row, heap, pc, locals, obs, refused>>

\* UpsertRateLimit: an operator changes the stored quota.
UpsertRateLimit(k, c) ==
    /\ row' = [row EXCEPT ![k] = c]
    /\ Disturb(k)
    /\ UNCHANGED <<now, configs, buckets, heap, pc, locals, obs, evicted, refused>>

\* The passing of time.
Tick ==
    /\ now < MaxTime
    /\ now' = now + 1
    /\ UNCHANGED <<table, pc, locals, history>>

Step(p) ==
    \/ \E k \in Keys : Enter(p, k)
    \/ LoadConfig(p) \/ QueryRow(p) \/ QueryNoRow(p) \/ QueryFails(p)
    \/ StoreConfig(p) \/ Create(p) \/ ReadClock(p)
    \/ \E restart \in BOOLEAN : Take(p, restart)
    \/ Return(p)

Next ==
    \/ \E p \in Procs : Step(p)
    \/ Cleanup
    \/ \E k \in Keys, c \in Cfgs : SetConfig(k, c) \/ UpsertRateLimit(k, c)
    \/ Tick

Spec == Init /\ [][Next]_vars

---------------------------------------------------------------------------

\* Type invariant; a goroutine past getBucket holds a bucket, and one about
\* to create a bucket holds a quota.
TypeOK ==
    /\ now \in 0..MaxTime
    /\ row \in [Keys -> Cfgs \cup {Nil}]
    /\ configs \in [Keys -> Cfgs \cup {Nil}]
    /\ buckets \in [Keys -> BucketIds \cup {Nil}]
    /\ heap \in [BucketIds -> Bucket]
    /\ pc \in [Procs -> {"idle", "config", "query", "store", "create",
                         "clock", "take", "done"}]
    /\ key \in [Procs -> Keys \cup {Nil}]
    /\ cfg \in [Procs -> Cfgs \cup {Nil}]
    /\ bkt \in [Procs -> BucketIds \cup {Nil}]
    /\ clk \in [Procs -> Nat]
    /\ reply \in [Procs -> [ok : BOOLEAN, retry : Nat]]
    /\ obs \in [BucketIds -> [since : Nat, at : Nat]]
    /\ evicted \subseteq BucketIds
    /\ refused \subseteq Procs
    /\ disturbed \in [Keys -> 0..MaxDisturb]
    /\ \A p \in Procs :
         /\ pc[p] # "idle" => key[p] \in Keys
         /\ pc[p] \in {"store", "create"} => cfg[p] \in Cfgs
         /\ pc[p] \in {"clock", "take", "done"} => bkt[p] \in BucketIds

\* No burst beyond the quota: from any request of a bucket on, the bucket has
\* admitted at most its capacity plus what its rate refills in the meantime,
\* in every interleaving of the requests sharing it, although each reads the
\* clock before it takes the bucket's lock (Allow, line 136).
AdmissionBound ==
    \A b \in BucketIds :
        obs[b].since * One <= heap[b].capacity + heap[b].rate * (now - obs[b].at)

\* Requests of one key share one bucket: a goroutine that has its bucket holds
\* the key's current one, or one that Cleanup or SetConfig evicted meanwhile,
\* and no bucket serves two keys (getBucket's second look, line 120).
BucketOwnership ==
    /\ \A p \in Procs : pc[p] \in {"clock", "take", "done"} =>
          bkt[p] = buckets[key[p]] \/ bkt[p] \in evicted
    /\ \A k1, k2 \in Keys :
          buckets[k1] = buckets[k2] /\ buckets[k1] # Nil => k1 = k2

\* A key gets the quota of its rate_limits row, or the default without one,
\* as long as no lookup failed and nobody changed the quota (loadConfig).
QuotaMatchesRow ==
    \A k \in Keys :
        LET c == IF row[k] = Nil THEN DefaultCfg ELSE row[k]
        IN  disturbed[k] = 0 /\ buckets[k] # Nil =>
              /\ heap[buckets[k]].rate = c.rpm
              /\ heap[buckets[k]].capacity = c.burst * One

\* A retry one millisecond after the Retry-After seconds finds a token, unless
\* the bucket has admitted another request since the refusal: requests that it
\* refused meanwhile, in whatever order their clocks reach it, do not put the
\* retry off, and the roundings of lines 55 and 154 are short by at most that
\* millisecond.
RetryAfterWithinMs ==
    \A p \in refused :
        LET b == heap[bkt[p]]
        IN  b.capacity >= One /\ b.rate > 0
              => Refill(b, clk[p] + reply[p].retry * TicksPerSec + TicksPerMs) >= One
=============================================================================
