------------------------- MODULE RateLimiterProofs -------------------------
(***************************************************************************)
(* Theorems about RateLimiter, for every set of keys, goroutines and       *)
(* quotas and every clock resolution.                                      *)
(***************************************************************************)
EXTENDS RateLimiter, TLAPS

USE DEF table, locals, history

---------------------------------------------------------------------------
(* Arithmetic of the token bucket.                                         *)

\* The unit of account is a positive number of units per token.
LEMMA OneType == One \in Nat /\ One > 0 /\ TicksPerSec \in Nat /\ TicksPerSec > 0
  BY ClockAssumption DEF One, TicksPerSec

\* Multiplication distributes over subtraction.
LEMMA Distribute ==
  ASSUME NEW r \in Int, NEW a \in Int, NEW b \in Int
  PROVE  r * (a - b) = r * a - r * b /\ (a - b) * r = r * a - r * b
  OBVIOUS

\* One more factor adds one more term.
LEMMA Successor ==
  ASSUME NEW r \in Int, NEW a \in Int
  PROVE  r * (a + 1) = r * a + r
  OBVIOUS

\* A product of naturals is a natural.
LEMMA ProductNat ==
  ASSUME NEW r \in Nat, NEW a \in Nat
  PROVE  r * a \in Nat
  OBVIOUS

\* The quotient of a natural is a natural.
LEMMA DivNat ==
  ASSUME NEW a \in Nat, NEW b \in Nat \ {0}
  PROVE  a \div b \in Nat
  OBVIOUS

\* The Retry-After header of a refusal is a natural number of seconds.
LEMMA RetryAfterType ==
  ASSUME NEW tokens \in Int, NEW rate \in Nat, tokens < One
  PROVE  RetryAfter(tokens, rate) \in Nat
<1>1. WaitMs(tokens, rate) \in Nat
  <2>1. CASE rate = 0
    BY <2>1 DEF WaitMs
  <2>2. CASE rate # 0
    <3>1. One - tokens \in Nat
      BY OneType
    <3>2. (One - tokens) \div rate \in Nat
      BY <3>1, <2>2, DivNat
    <3>3. ((One - tokens) \div rate) \div TicksPerMs \in Nat
      BY <3>2, DivNat, ClockAssumption
    <3>. QED  BY <3>3, <2>2 DEF WaitMs
  <2>. QED  BY <2>1, <2>2
<1>. DEFINE ms == WaitMs(tokens, rate)
            wait == IF ms < MsPerSec THEN MsPerSec ELSE ms
<1>2. wait + MsPerSec - 1 \in Nat
  BY <1>1, ClockAssumption
<1>3. (wait + MsPerSec - 1) \div MsPerSec \in Nat
  BY <1>2, DivNat, ClockAssumption
<1>. QED  BY <1>3 DEF RetryAfter

\* What a refill at time t <= n does to a bucket whose tokens, counted up to
\* the present n, are not negative: it stays within its capacity, keeps that
\* bound although t may precede lastFill, and pays for `since' admissions.
LEMMA RefillBounds ==
  ASSUME NEW b \in Bucket, NEW t \in Nat, NEW n \in Nat,
         NEW since \in Nat, NEW at \in Nat,
         b.tokens <= b.capacity, t <= n,
         b.tokens + b.rate * (n - b.lastFill) >= 0,
         since * One + b.tokens <= b.capacity + b.rate * (b.lastFill - at)
  PROVE  /\ Refill(b, t) \in Int
         /\ Refill(b, t) <= b.capacity
         /\ Refill(b, t) + b.rate * (n - t) >= 0
         /\ since * One + Refill(b, t) <= b.capacity + b.rate * (t - at)
<1>1. /\ b.tokens \in Int /\ b.capacity \in Nat /\ b.rate \in Nat
      /\ b.lastFill \in Nat
  BY DEF Bucket
<1>. DEFINE rn == b.rate * n  rt == b.rate * t
            rl == b.rate * b.lastFill  ra == b.rate * at
            so == since * One
            sum == b.tokens + (t - b.lastFill) * b.rate
<1>2. rn \in Int /\ rt \in Int /\ rl \in Int /\ ra \in Int /\ so \in Int
  BY <1>1, OneType
<1>3. b.rate * (n - b.lastFill) = rn - rl
  BY <1>1, Distribute
<1>4. b.rate * (b.lastFill - at) = rl - ra
  BY <1>1, Distribute
<1>5. b.rate * (n - t) = rn - rt
  BY <1>1, Distribute
<1>6. b.rate * (t - at) = rt - ra
  BY <1>1, Distribute
<1>7. sum = b.tokens + rt - rl
  BY <1>1, <1>2, Distribute
<1>8. rn - rt >= 0
  BY <1>1, <1>5, ProductNat
<1>9. Refill(b, t) = IF sum < b.capacity THEN sum ELSE b.capacity
  BY DEF Refill
<1>. HIDE DEF rn, rt, rl, ra, so, sum
<1>10. Refill(b, t) \in Int /\ Refill(b, t) <= b.capacity
  BY <1>1, <1>2, <1>7, <1>9
<1>11. Refill(b, t) + (rn - rt) >= 0
  BY <1>1, <1>2, <1>3, <1>7, <1>8, <1>9
<1>12. so + Refill(b, t) <= b.capacity + (rt - ra)
  <2>1. so + b.tokens <= b.capacity + (rl - ra)
    BY <1>4 DEF so
  <2>2. so + sum <= b.capacity + (rt - ra)
    BY <2>1, <1>1, <1>2, <1>7
  <2>3. Refill(b, t) <= sum
    BY <1>1, <1>2, <1>7, <1>9
  <2>. QED  BY <2>2, <2>3, <1>1, <1>2, <1>7, <1>10
<1>. QED  BY <1>5, <1>6, <1>10, <1>11, <1>12 DEF so

---------------------------------------------------------------------------
(* Type correctness.                                                       *)

\* Every goroutine has a key, a quota and a bucket when it uses one, and every
\* reply a Retry-After that is a number.
THEOREM TypeCorrect == Spec => []TypeOK
<1>1. Init => TypeOK
  BY ConfigAssumption, ClockAssumption DEF Init, TypeOK, Bucket, NoReply
<1>2. TypeOK /\ [Next]_vars => TypeOK'
  <2>. SUFFICES ASSUME TypeOK, [Next]_vars PROVE TypeOK'
    OBVIOUS
  <2>. USE ConfigAssumption, ClockAssumption DEF TypeOK
  <2>1. ASSUME NEW p \in Procs, NEW k \in Keys, Enter(p, k) PROVE TypeOK'
    BY <2>1 DEF Enter, Goto
  <2>2. ASSUME NEW p \in Procs, LoadConfig(p) PROVE TypeOK'
    BY <2>2 DEF LoadConfig, Goto
  <2>3. ASSUME NEW p \in Procs, QueryRow(p) PROVE TypeOK'
    BY <2>3 DEF QueryRow, Goto
  <2>4. ASSUME NEW p \in Procs, QueryNoRow(p) PROVE TypeOK'
    BY <2>4 DEF QueryNoRow, Goto
  <2>5. ASSUME NEW p \in Procs, QueryFails(p) PROVE TypeOK'
    BY <2>5 DEF QueryFails, Goto, Disturb
  <2>6. ASSUME NEW p \in Procs, StoreConfig(p) PROVE TypeOK'
    BY <2>6 DEF StoreConfig, Goto
  <2>7. ASSUME NEW p \in Procs, Create(p) PROVE TypeOK'
    <3>1. CASE buckets[key[p]] # Nil
      BY <2>7, <3>1 DEF Create, Goto
    <3>2. CASE buckets[key[p]] = Nil
      <4>1. PICK b \in BucketIds : Install(p, b)
        BY <2>7, <3>2 DEF Create
      <4>2. cfg[p].burst \in Nat /\ cfg[p].rpm \in Nat /\ key[p] \in Keys
        BY <2>7 DEF Create, Goto
      <4>3. cfg[p].burst * One \in Nat
        BY <4>2, OneType, ProductNat
      <4>4. heap' \in [BucketIds -> Bucket]
        BY <4>1, <4>2, <4>3 DEF Install, Bucket
      <4>5. obs' \in [BucketIds -> [since : Nat, at : Nat]]
        BY <4>1 DEF Install
      <4>6. /\ buckets' \in [Keys -> BucketIds \cup {Nil}]
            /\ bkt' = [bkt EXCEPT ![p] = b]
            /\ evicted' \subseteq BucketIds
        BY <4>1, <4>2 DEF Install
      <4>. QED  BY <2>7, <4>4, <4>5, <4>6 DEF Create, Goto
    <3>. QED  BY <3>1, <3>2
  <2>8. ASSUME NEW p \in Procs, ReadClock(p) PROVE TypeOK'
    BY <2>8 DEF ReadClock, Goto
  <2>9. ASSUME NEW p \in Procs, NEW restart \in BOOLEAN, Take(p, restart)
        PROVE TypeOK'
    <3>. DEFINE b == bkt[p]  tokens == Refill(heap[b], clk[p])
    <3>1. b \in BucketIds /\ clk[p] \in Nat /\ heap[b] \in Bucket
      BY <2>9 DEF Take, Goto
    <3>2. tokens \in Int
      BY <3>1 DEF Refill, Bucket
    <3>3. heap[b].rate \in Nat
      BY <3>1 DEF Bucket
    <3>4. ASSUME ~(tokens >= One)
          PROVE  RetryAfter(tokens, heap[b].rate) \in Nat
      <4>. HIDE DEF tokens, b, TypeOK
      <4>1. tokens < One
        BY <3>2, <3>4, OneType
      <4>. QED  BY <3>2, <3>3, <4>1, RetryAfterType
    <3>5. heap' \in [BucketIds -> Bucket]
      <4>. DEFINE left == IF tokens >= One THEN tokens - One ELSE tokens
                  new == [heap[b] EXCEPT !.tokens = left, !.lastFill = clk[p]]
      <4>1. heap' = [heap EXCEPT ![b] = new]
        BY <2>9 DEF Take
      <4>2. left \in Int
        BY <3>2, OneType
      <4>3. new \in Bucket
        <5>. HIDE DEF left
        <5>. QED  BY <3>1, <4>2 DEF Bucket
      <4>. HIDE DEF new
      <4>. QED  BY <4>1, <4>3
    <3>6. reply' \in [Procs -> [ok : BOOLEAN, retry : Nat]]
      BY <2>9, <3>4 DEF Take, tokens
    <3>7. obs' \in [BucketIds -> [since : Nat, at : Nat]]
      BY <2>9, <3>1 DEF Take, Observe
    <3>. QED  BY <2>9, <3>5, <3>6, <3>7 DEF Take, Goto
  <2>10. ASSUME NEW p \in Procs, Return(p) PROVE TypeOK'
    BY <2>10 DEF Return, Goto, NoReply
  <2>11. CASE Cleanup
    BY <2>11 DEF Cleanup
  <2>12. ASSUME NEW k \in Keys, NEW c \in Cfgs, SetConfig(k, c) PROVE TypeOK'
    BY <2>12 DEF SetConfig, Disturb
  <2>13. ASSUME NEW k \in Keys, NEW c \in Cfgs, UpsertRateLimit(k, c) PROVE TypeOK'
    BY <2>13 DEF UpsertRateLimit, Disturb
  <2>14. CASE Tick
    BY <2>14 DEF Tick
  <2>15. CASE UNCHANGED vars
    BY <2>15 DEF vars
  <2>. QED
    BY <2>1, <2>2, <2>3, <2>4, <2>5, <2>6, <2>7, <2>8, <2>9, <2>10, <2>11,
       <2>12, <2>13, <2>14, <2>15 DEF Next, Step
<1>. QED  BY <1>1, <1>2, PTL DEF Spec

---------------------------------------------------------------------------
(* The admission bound.  AdmissionBound alone is not inductive: it says    *)
(* nothing of the tokens left.  The invariant charges every admission to   *)
(* the bucket: what was admitted since the observed request, plus what is  *)
(* left, is at most the capacity plus what was refilled up to lastFill;    *)
(* and the tokens left, brought up to the present, are never negative,     *)
(* although a request with an older clock reading may leave a debt.        *)

Charged(b) ==
    /\ heap[b].tokens <= heap[b].capacity
    /\ heap[b].tokens + heap[b].rate * (now - heap[b].lastFill) >= 0
    /\ obs[b].since * One + heap[b].tokens
         <= heap[b].capacity + heap[b].rate * (heap[b].lastFill - obs[b].at)

AdmissionInv ==
    /\ TypeOK
    /\ \A p \in Procs : clk[p] <= now
    /\ \A b \in BucketIds : Charged(b)

\* Steps that touch neither the buckets nor the clock readings keep the
\* invariant.
LEMMA ChargedUnchanged ==
  ASSUME AdmissionInv, TypeOK', UNCHANGED <<now, heap, obs>>,
         \A p \in Procs : clk'[p] <= now
  PROVE  AdmissionInv'
  BY DEF AdmissionInv, Charged

\* The invariant implies the bound: what was refilled after lastFill covers a
\* debt.
LEMMA AdmissionInvImpliesBound == AdmissionInv => AdmissionBound
<1>. SUFFICES ASSUME AdmissionInv, NEW b \in BucketIds
             PROVE  obs[b].since * One
                      <= heap[b].capacity + heap[b].rate * (now - obs[b].at)
  BY DEF AdmissionBound
<1>. DEFINE rate == heap[b].rate  last == heap[b].lastFill  at == obs[b].at
            rn == rate * now  rl == rate * last  ra == rate * at
            so == obs[b].since * One
<1>1. /\ heap[b].tokens \in Int /\ heap[b].capacity \in Nat /\ rate \in Nat
      /\ last \in Nat /\ at \in Nat /\ obs[b].since \in Nat /\ now \in Nat
  BY ClockAssumption DEF AdmissionInv, TypeOK, Bucket
<1>2. /\ heap[b].tokens + rate * (now - last) >= 0
      /\ so + heap[b].tokens <= heap[b].capacity + rate * (last - at)
  BY DEF AdmissionInv, Charged
<1>3. rate * (now - last) = rn - rl /\ rate * (last - at) = rl - ra
      /\ rate * (now - at) = rn - ra
  BY <1>1, Distribute
<1>4. rn \in Int /\ rl \in Int /\ ra \in Int /\ so \in Int
  BY <1>1, OneType
<1>. HIDE DEF rn, rl, ra, so
<1>5. so <= heap[b].capacity + (rn - ra)
  BY <1>1, <1>2, <1>3, <1>4
<1>. QED  BY <1>3, <1>5 DEF so

\* A new bucket is full and has admitted nothing.
LEMMA CreateCharged ==
  ASSUME AdmissionInv, TypeOK', NEW p \in Procs, Create(p)
  PROVE  AdmissionInv'
<1>1. UNCHANGED <<now, clk>>
  BY DEF Create
<1>2. CASE buckets[key[p]] # Nil
  <2>1. UNCHANGED <<heap, obs>>
    BY <1>2 DEF Create
  <2>. QED  BY <1>1, <2>1, ChargedUnchanged DEF AdmissionInv
<1>3. CASE buckets[key[p]] = Nil
  <2>1. PICK b \in BucketIds : Install(p, b)
    BY <1>3 DEF Create
  <2>. DEFINE full == cfg[p].burst * One
  <2>2. cfg[p].burst \in Nat /\ cfg[p].rpm \in Nat /\ full \in Nat
    <3>1. cfg[p].burst \in Nat /\ cfg[p].rpm \in Nat
      BY ConfigAssumption DEF AdmissionInv, TypeOK, Create, Goto
    <3>. QED  BY <3>1, OneType, ProductNat
  <2>. HIDE DEF full
  <2>3. /\ heap'[b] = [tokens |-> full, capacity |-> full,
                       rate |-> cfg[p].rpm, lastFill |-> now]
        /\ obs'[b] = [since |-> 0, at |-> now]
    BY <2>1 DEF Install, AdmissionInv, TypeOK, full
  <2>4. Charged(b)'
    <3>1. now \in Nat
      BY ClockAssumption DEF AdmissionInv, TypeOK
    <3>2. cfg[p].rpm * (now - now) = 0 /\ 0 * One = 0
      BY <2>2, <3>1, OneType
    <3>. QED  BY <1>1, <2>2, <2>3, <3>1, <3>2 DEF Charged
  <2>5. ASSUME NEW c \in BucketIds, c # b PROVE Charged(c)'
    <3>1. heap'[c] = heap[c] /\ obs'[c] = obs[c] /\ now' = now
      BY <1>1, <2>1, <2>5 DEF Install, AdmissionInv, TypeOK
    <3>. QED  BY <3>1 DEF Charged, AdmissionInv
  <2>. QED  BY <1>1, <2>4, <2>5 DEF AdmissionInv
<1>. QED  BY <1>2, <1>3

\* bucket.allow keeps the account of its bucket, also when the observation
\* restarts at this request.
LEMMA TakeCharged ==
  ASSUME AdmissionInv, TypeOK', NEW p \in Procs, NEW restart \in BOOLEAN,
         Take(p, restart)
  PROVE  AdmissionInv'
<1>0. PICK b \in BucketIds : b = bkt[p]
  BY DEF AdmissionInv, TypeOK, Take, Goto
<1>. DEFINE t == clk[p]  tokens == Refill(heap[b], t)
            ok == tokens >= One
            since == IF restart THEN 0 ELSE obs[b].since
            at == IF restart THEN t ELSE obs[b].at
            left == IF ok THEN tokens - One ELSE tokens
<1>1. /\ heap[b] \in Bucket /\ t \in Nat /\ now \in Nat
      /\ t <= now /\ obs[b] \in [since : Nat, at : Nat]
  BY ClockAssumption DEF AdmissionInv, TypeOK, Take, Goto
<1>2. /\ heap[b].tokens \in Int /\ heap[b].capacity \in Nat
      /\ heap[b].rate \in Nat /\ heap[b].lastFill \in Nat
  BY <1>1 DEF Bucket
<1>3. /\ heap[b].tokens <= heap[b].capacity
      /\ heap[b].tokens + heap[b].rate * (now - heap[b].lastFill) >= 0
      /\ obs[b].since * One + heap[b].tokens
           <= heap[b].capacity + heap[b].rate * (heap[b].lastFill - obs[b].at)
  BY <1>1 DEF AdmissionInv, Charged
<1>4. /\ tokens \in Int
      /\ tokens <= heap[b].capacity
      /\ tokens + heap[b].rate * (now - t) >= 0
      /\ obs[b].since * One + tokens <= heap[b].capacity + heap[b].rate * (t - obs[b].at)
  BY <1>1, <1>3, RefillBounds
<1>5. since * One + tokens <= heap[b].capacity + heap[b].rate * (t - at)
  <2>1. CASE restart
    <3>1. heap[b].rate * (t - t) = 0 /\ 0 * One = 0
      BY <1>1, <1>2, OneType
    <3>. HIDE DEF tokens
    <3>. QED  BY <2>1, <3>1, <1>2, <1>4
  <2>2. CASE ~restart
    BY <2>2, <1>4
  <2>. QED  BY <2>1, <2>2
<1>6. heap[b].rate * (now - t) \in Nat
  BY <1>1, <1>2, ProductNat
<1>7. since \in Nat /\ at \in Nat
  BY <1>1
<1>. DEFINE more == since + (IF ok THEN 1 ELSE 0)
<1>8. /\ heap' = [heap EXCEPT ![b] = [@ EXCEPT !.tokens = left, !.lastFill = t]]
      /\ obs' = [obs EXCEPT ![b] = [since |-> more, at |-> at]]
      /\ UNCHANGED <<now, clk>>
  BY <1>0 DEF Take, Observe
<1>9. more * One + left = since * One + tokens
  <2>1. (since + 1) * One = since * One + One
    BY <1>7, OneType
  <2>2. since * One \in Int
    BY <1>7, OneType
  <2>. HIDE DEF tokens, since
  <2>. QED  BY <2>1, <2>2, <1>4, <1>7, OneType
<1>10. left \in Int /\ left <= heap[b].capacity /\ left + heap[b].rate * (now - t) >= 0
  <2>. HIDE DEF tokens
  <2>. QED  BY <1>2, <1>4, <1>6, OneType
<1>. HIDE DEF left, more, at, since, tokens, ok, t
<1>11. /\ heap'[b].tokens = left /\ heap'[b].lastFill = t
       /\ heap'[b].capacity = heap[b].capacity /\ heap'[b].rate = heap[b].rate
       /\ obs'[b].since = more /\ obs'[b].at = at
  BY <1>1, <1>8 DEF AdmissionInv, TypeOK, Bucket
<1>12. Charged(b)'
  BY <1>5, <1>8, <1>9, <1>10, <1>11 DEF Charged
<1>13. ASSUME NEW c \in BucketIds, c # b PROVE Charged(c)'
  <2>1. heap'[c] = heap[c] /\ obs'[c] = obs[c] /\ now' = now
    BY <1>8, <1>13 DEF AdmissionInv, TypeOK
  <2>. QED  BY <2>1 DEF Charged, AdmissionInv
<1>14. \A q \in Procs : clk'[q] <= now'
  BY <1>8 DEF AdmissionInv
<1>. QED  BY <1>12, <1>13, <1>14 DEF AdmissionInv

\* Time passing only adds to what is refilled.
LEMMA TickCharged ==
  ASSUME AdmissionInv, TypeOK', Tick
  PROVE  AdmissionInv'
<1>1. now \in Nat /\ now' = now + 1 /\ UNCHANGED <<heap, obs, clk>>
  BY ClockAssumption DEF AdmissionInv, TypeOK, Tick
<1>2. \A q \in Procs : clk'[q] <= now'
  BY <1>1 DEF AdmissionInv, TypeOK
<1>3. ASSUME NEW b \in BucketIds PROVE Charged(b)'
  <2>. DEFINE rate == heap[b].rate  last == heap[b].lastFill
              old == rate * (now - last)
  <2>1. rate \in Nat /\ last \in Nat /\ heap[b].tokens \in Int
    BY DEF AdmissionInv, TypeOK, Bucket
  <2>2. rate * ((now + 1) - last) = old + rate /\ old \in Int
    <3>1. rate * ((now + 1) - last) = rate * (now + 1) - rate * last
      BY <1>1, <2>1, Distribute
    <3>2. old = rate * now - rate * last
      BY <1>1, <2>1, Distribute
    <3>3. rate * (now + 1) = rate * now + rate
      <4>. HIDE DEF rate
      <4>1. rate \in Int /\ now \in Int
        BY <1>1, <2>1
      <4>. QED  BY ONLY <4>1, Successor
    <3>4. rate * now \in Int /\ rate * last \in Int
      BY <1>1, <2>1
    <3>. QED  BY <2>1, <3>1, <3>2, <3>3, <3>4
  <2>3. heap[b].tokens + old >= 0
    BY DEF AdmissionInv, Charged
  <2>. HIDE DEF old
  <2>4. heap[b].tokens + rate * ((now + 1) - last) >= 0
    BY <2>1, <2>2, <2>3
  <2>. QED  BY <1>1, <2>4 DEF AdmissionInv, Charged
<1>. QED  BY <1>2, <1>3 DEF AdmissionInv

\* From any request of a bucket on, its admissions are bounded by capacity and
\* refill, in every interleaving and for every quota.
THEOREM AdmissionBounded == Spec => []AdmissionBound
<1>1. Init => AdmissionInv
  <2>. SUFFICES ASSUME Init PROVE AdmissionInv
    OBVIOUS
  <2>1. TypeOK
    BY ConfigAssumption, ClockAssumption DEF Init, TypeOK, Bucket, NoReply
  <2>2. \A b \in BucketIds : Charged(b)
    BY OneType DEF Init, Charged
  <2>. QED  BY <2>1, <2>2 DEF AdmissionInv, Init
<1>2. AdmissionInv /\ TypeOK' /\ [Next]_vars => AdmissionInv'
  <2>. SUFFICES ASSUME AdmissionInv, TypeOK', [Next]_vars PROVE AdmissionInv'
    OBVIOUS
  <2>1. CASE /\ UNCHANGED <<now, heap, obs>>
             /\ \A p \in Procs : clk'[p] <= now
    BY <2>1, ChargedUnchanged
  <2>2. ASSUME NEW p \in Procs, NEW k \in Keys, Enter(p, k) PROVE AdmissionInv'
    BY <2>2, <2>1 DEF Enter, AdmissionInv
  <2>3. ASSUME NEW p \in Procs,
               LoadConfig(p) \/ QueryRow(p) \/ QueryNoRow(p) \/ QueryFails(p)
                 \/ StoreConfig(p)
        PROVE  AdmissionInv'
    BY <2>3, <2>1 DEF LoadConfig, QueryRow, QueryNoRow, QueryFails, StoreConfig,
                      AdmissionInv
  <2>4. ASSUME NEW p \in Procs, ReadClock(p) PROVE AdmissionInv'
    BY <2>4, <2>1, ClockAssumption DEF ReadClock, AdmissionInv, TypeOK
  <2>5. ASSUME NEW p \in Procs, Return(p) PROVE AdmissionInv'
    BY <2>5, <2>1, ClockAssumption DEF Return, AdmissionInv, TypeOK
  <2>6. CASE Cleanup
    BY <2>6, <2>1 DEF Cleanup, AdmissionInv
  <2>7. ASSUME NEW k \in Keys, NEW c \in Cfgs, SetConfig(k, c) \/ UpsertRateLimit(k, c)
        PROVE  AdmissionInv'
    BY <2>7, <2>1 DEF SetConfig, UpsertRateLimit, AdmissionInv
  <2>8. CASE UNCHANGED vars
    BY <2>8, <2>1 DEF vars, AdmissionInv
  <2>. QED
    BY <2>2, <2>3, <2>4, <2>5, <2>6, <2>7, <2>8, CreateCharged, TakeCharged,
       TickCharged DEF Next, Step
<1>. QED  BY <1>1, <1>2, TypeCorrect, AdmissionInvImpliesBound, PTL DEF Spec

---------------------------------------------------------------------------
(* One bucket per key.  With TypeOK the invariant is inductive: a goroutine *)
(* that holds a bucket of a key without map entry holds an evicted one, and *)
(* Install takes an address nobody refers to.                              *)

\* Requests of a key share the key's bucket, except for those that took it
\* before it was evicted, and no two keys share one.
THEOREM BucketsOwned == Spec => []BucketOwnership
<1>1. Init => BucketOwnership
  BY DEF Init, BucketOwnership
<1>2. TypeOK /\ BucketOwnership /\ [Next]_vars => BucketOwnership'
  <2>. SUFFICES ASSUME TypeOK, BucketOwnership, [Next]_vars PROVE BucketOwnership'
    OBVIOUS
  <2>. USE ConfigAssumption DEF TypeOK, BucketOwnership
  <2>1. ASSUME NEW p \in Procs, NEW k \in Keys, Enter(p, k) PROVE BucketOwnership'
    BY <2>1 DEF Enter, Goto
  <2>2. ASSUME NEW p \in Procs,
               LoadConfig(p) \/ QueryRow(p) \/ QueryNoRow(p) \/ QueryFails(p)
                 \/ StoreConfig(p)
        PROVE  BucketOwnership'
    BY <2>2 DEF LoadConfig, QueryRow, QueryNoRow, QueryFails, StoreConfig, Goto
  <2>3. ASSUME NEW p \in Procs, Create(p) PROVE BucketOwnership'
    <3>1. CASE buckets[key[p]] # Nil
      BY <2>3, <3>1 DEF Create, Goto
    <3>2. CASE buckets[key[p]] = Nil
      <4>1. PICK b \in BucketIds : Install(p, b)
        BY <2>3, <3>2 DEF Create
      <4>2. /\ \A k \in Keys : buckets[k] # b
            /\ \A q \in Procs : bkt[q] # b
        BY <4>1 DEF Install, FreeIds
      <4>3. /\ buckets' = [buckets EXCEPT ![key[p]] = b]
            /\ bkt' = [bkt EXCEPT ![p] = b]
            /\ evicted' = evicted \ {b}
            /\ pc' = [pc EXCEPT ![p] = "clock"]
            /\ key' = key
            /\ key[p] \in Keys
        BY <2>3, <4>1 DEF Create, Goto, Install
      <4>4. ASSUME NEW q \in Procs, pc'[q] \in {"clock", "take", "done"}
            PROVE  bkt'[q] = buckets'[key'[q]] \/ bkt'[q] \in evicted'
        BY <3>2, <4>2, <4>3, <4>4
      <4>5. \A k1, k2 \in Keys :
              buckets'[k1] = buckets'[k2] /\ buckets'[k1] # Nil => k1 = k2
        BY <4>2, <4>3
      <4>. QED  BY <4>4, <4>5
    <3>. QED  BY <3>1, <3>2
  <2>4. ASSUME NEW p \in Procs, ReadClock(p) PROVE BucketOwnership'
    BY <2>4 DEF ReadClock, Goto
  <2>5. ASSUME NEW p \in Procs, NEW restart \in BOOLEAN, Take(p, restart)
        PROVE  BucketOwnership'
    BY <2>5 DEF Take, Goto
  <2>6. ASSUME NEW p \in Procs, Return(p) PROVE BucketOwnership'
    BY <2>6 DEF Return, Goto
  <2>7. CASE Cleanup
    BY <2>7 DEF Cleanup
  <2>8. ASSUME NEW k \in Keys, NEW c \in Cfgs, SetConfig(k, c) PROVE BucketOwnership'
    BY <2>8 DEF SetConfig
  <2>9. ASSUME NEW k \in Keys, NEW c \in Cfgs, UpsertRateLimit(k, c)
        PROVE  BucketOwnership'
    BY <2>9 DEF UpsertRateLimit
  <2>10. CASE Tick
    BY <2>10 DEF Tick
  <2>11. CASE UNCHANGED vars
    BY <2>11 DEF vars
  <2>. QED
    BY <2>1, <2>2, <2>3, <2>4, <2>5, <2>6, <2>7, <2>8, <2>9, <2>10, <2>11
    DEF Next, Step
<1>. QED  BY <1>1, <1>2, TypeCorrect, PTL DEF Spec

---------------------------------------------------------------------------
(* The quota of a key.  QuotaMatchesRow speaks of the bucket only; the     *)
(* invariant follows the row through the cache and the goroutines' locals. *)

\* The quota an undisturbed key is due.
Due(k) == IF row[k] = Nil THEN DefaultCfg ELSE row[k]

QuotaInv ==
    \A k \in Keys : disturbed[k] = 0 =>
        /\ configs[k] # Nil => configs[k] = Due(k)
        /\ \A p \in Procs : pc[p] \in {"store", "create"} /\ key[p] = k
                              => cfg[p] = Due(k)
        /\ buckets[k] # Nil => /\ heap[buckets[k]].rate = Due(k).rpm
                               /\ heap[buckets[k]].capacity = Due(k).burst * One

\* A key whose row was neither changed nor failed to load is limited by the
\* quota of its row, or by the default when it has none.
THEOREM QuotaKept == Spec => []QuotaMatchesRow
<1>1. Init => QuotaInv
  BY DEF Init, QuotaInv
<1>2. TypeOK /\ QuotaInv /\ [Next]_vars => QuotaInv'
  <2>. SUFFICES ASSUME TypeOK, QuotaInv, [Next]_vars PROVE QuotaInv'
    OBVIOUS
  <2>. USE ConfigAssumption DEF TypeOK, QuotaInv, Due
  <2>1. ASSUME NEW p \in Procs, NEW k \in Keys, Enter(p, k) PROVE QuotaInv'
    BY <2>1 DEF Enter, Goto
  <2>2. ASSUME NEW p \in Procs, LoadConfig(p) PROVE QuotaInv'
    BY <2>2 DEF LoadConfig, Goto
  <2>3. ASSUME NEW p \in Procs, QueryRow(p) PROVE QuotaInv'
    BY <2>3 DEF QueryRow, Goto
  <2>4. ASSUME NEW p \in Procs, QueryNoRow(p) PROVE QuotaInv'
    BY <2>4 DEF QueryNoRow, Goto
  <2>5. ASSUME NEW p \in Procs, QueryFails(p) PROVE QuotaInv'
    BY <2>5 DEF QueryFails, Goto, Disturb
  <2>6. ASSUME NEW p \in Procs, StoreConfig(p) PROVE QuotaInv'
    BY <2>6 DEF StoreConfig, Goto
  <2>7. ASSUME NEW p \in Procs, Create(p) PROVE QuotaInv'
    <3>1. CASE buckets[key[p]] # Nil
      BY <2>7, <3>1 DEF Create, Goto
    <3>2. CASE buckets[key[p]] = Nil
      <4>1. PICK b \in BucketIds : Install(p, b)
        BY <2>7, <3>2 DEF Create
      <4>2. \A k \in Keys : buckets[k] # b
        BY <4>1 DEF Install, FreeIds
      <4>. DEFINE full == cfg[p].burst * One
                  new == [tokens |-> full, capacity |-> full,
                          rate |-> cfg[p].rpm, lastFill |-> now]
      <4>3. /\ buckets' = [buckets EXCEPT ![key[p]] = b]
            /\ heap' = [heap EXCEPT ![b] = new]
            /\ pc' = [pc EXCEPT ![p] = "clock"]
            /\ cfg' = [cfg EXCEPT ![p] = Nil]
            /\ UNCHANGED <<row, configs, key, disturbed>>
            /\ key[p] \in Keys /\ pc[p] = "create"
        BY <2>7, <4>1 DEF Create, Goto, Install
      <4>4. new.rate = cfg[p].rpm /\ new.capacity = cfg[p].burst * One
        OBVIOUS
      <4>. HIDE DEF new
      <4>5. ASSUME NEW k \in Keys, disturbed[k] = 0, buckets'[k] # Nil
            PROVE  /\ heap'[buckets'[k]].rate = Due(k).rpm
                   /\ heap'[buckets'[k]].capacity = Due(k).burst * One
        <5>1. CASE k = key[p]
          BY <4>3, <4>4, <4>5, <5>1
        <5>2. CASE k # key[p]
          BY <4>2, <4>3, <4>5, <5>2
        <5>. QED  BY <5>1, <5>2
      <4>. QED  BY <4>3, <4>5
    <3>. QED  BY <3>1, <3>2
  <2>8. ASSUME NEW p \in Procs, ReadClock(p) PROVE QuotaInv'
    BY <2>8 DEF ReadClock, Goto
  <2>9. ASSUME NEW p \in Procs, NEW restart \in BOOLEAN, Take(p, restart)
        PROVE  QuotaInv'
    <3>1. \A b \in BucketIds : /\ heap'[b].rate = heap[b].rate
                               /\ heap'[b].capacity = heap[b].capacity
      BY <2>9 DEF Take, Bucket
    <3>. QED  BY <2>9, <3>1 DEF Take, Goto
  <2>10. ASSUME NEW p \in Procs, Return(p) PROVE QuotaInv'
    BY <2>10 DEF Return, Goto
  <2>11. CASE Cleanup
    BY <2>11 DEF Cleanup
  <2>12. ASSUME NEW k \in Keys, NEW c \in Cfgs, SetConfig(k, c) PROVE QuotaInv'
    BY <2>12 DEF SetConfig, Disturb
  <2>13. ASSUME NEW k \in Keys, NEW c \in Cfgs, UpsertRateLimit(k, c) PROVE QuotaInv'
    BY <2>13 DEF UpsertRateLimit, Disturb
  <2>14. CASE Tick
    BY <2>14 DEF Tick
  <2>15. CASE UNCHANGED vars
    BY <2>15 DEF vars
  <2>. QED
    BY <2>1, <2>2, <2>3, <2>4, <2>5, <2>6, <2>7, <2>8, <2>9, <2>10, <2>11,
       <2>12, <2>13, <2>14, <2>15 DEF Next, Step
<1>3. QuotaInv => QuotaMatchesRow
  BY DEF QuotaInv, QuotaMatchesRow, Due
<1>. QED  BY <1>1, <1>2, <1>3, TypeCorrect, PTL DEF Spec

---------------------------------------------------------------------------
(* Retry-After.  What a bucket will hold at a fixed time T, its tokens plus *)
(* the refill up to T, is moved by nothing but an admission: a refusal     *)
(* only rewrites the same level at another clock, forwards or backwards.   *)
(* So the promise made to a refused request stays good, and it is enough   *)
(* that the roundings keep it when it is made.                             *)

\* Division rounds down by less than the divisor.
LEMMA DivBounds ==
  ASSUME NEW a \in Nat, NEW b \in Nat \ {0}
  PROVE  /\ a \div b \in Nat
         /\ b * (a \div b) \in Nat
         /\ b * (a \div b) <= a
         /\ a < b * (a \div b) + b
  OBVIOUS

\* Multiplying both sides by a natural keeps an inequality.
LEMMA ProductMono ==
  ASSUME NEW r \in Nat, NEW a \in Nat, NEW b \in Nat, a <= b
  PROVE  r * a <= r * b
  OBVIOUS

\* The Retry-After seconds of a refusal and one millisecond refill a token.
LEMMA RetrySuffices ==
  ASSUME NEW tokens \in Int, NEW rate \in Nat \ {0}, tokens < One
  PROVE  /\ RetryAfter(tokens, rate) \in Nat
         /\ tokens + (RetryAfter(tokens, rate) * TicksPerSec + TicksPerMs) * rate >= One
<1>. DEFINE d == One - tokens
            q == d \div rate
            w == q \div TicksPerMs
            wait == IF w < MsPerSec THEN MsPerSec ELSE w
            s == (wait + MsPerSec - 1) \div MsPerSec
            ticks == s * TicksPerSec + TicksPerMs
<1>1. d \in Nat /\ d > 0
  BY OneType
<1>2. q \in Nat /\ d < rate * q + rate /\ rate * q \in Nat
  <2>. HIDE DEF d
  <2>. QED  BY <1>1, DivBounds
<1>3. w \in Nat /\ q < TicksPerMs * w + TicksPerMs /\ TicksPerMs * w \in Nat
  <2>. HIDE DEF q
  <2>. QED  BY <1>2, DivBounds, ClockAssumption
<1>4. wait \in Nat /\ w <= wait /\ wait + MsPerSec - 1 \in Nat
  <2>. HIDE DEF w
  <2>. QED  BY <1>3, ClockAssumption
<1>5. s \in Nat /\ wait <= MsPerSec * s /\ MsPerSec * s \in Nat
  <2>. DEFINE up == wait + MsPerSec - 1
  <2>. HIDE DEF wait
  <2>1. up \in Nat
    BY <1>4
  <2>. HIDE DEF up
  <2>2. s = up \div MsPerSec
    BY DEF up
  <2>3. s \in Nat /\ up < MsPerSec * s + MsPerSec /\ MsPerSec * s \in Nat
    <3>. HIDE DEF s
    <3>. QED  BY <2>1, <2>2, DivBounds, ClockAssumption
  <2>. HIDE DEF s
  <2>. QED  BY <2>3, <1>4, ClockAssumption DEF up
<1>6. RetryAfter(tokens, rate) = s
  BY DEF RetryAfter, WaitMs
<1>. HIDE DEF d, q, w, wait, s
<1>7. TicksPerMs * w <= TicksPerMs * (MsPerSec * s)
  BY <1>3, <1>4, <1>5, ProductMono, ClockAssumption
<1>8. TicksPerMs * (MsPerSec * s) = s * TicksPerSec
  BY <1>5, ClockAssumption DEF TicksPerSec
<1>9. s * TicksPerSec \in Nat
  BY <1>5, OneType, ProductNat
<1>10. q + 1 <= ticks /\ ticks \in Nat
  BY <1>2, <1>3, <1>7, <1>8, <1>9, ClockAssumption
<1>. HIDE DEF ticks
<1>11. rate * (q + 1) <= rate * ticks
  BY <1>2, <1>10, ProductMono
<1>12. rate * (q + 1) = rate * q + rate
  BY <1>2, Successor
<1>13. d <= rate * ticks
  BY <1>1, <1>2, <1>10, <1>11, <1>12
<1>14. rate * ticks = ticks * rate
  BY <1>10
<1>15. tokens + ticks * rate >= One
  <2>. DEFINE x == ticks * rate
  <2>1. x \in Int /\ d <= x
    BY <1>10, <1>13, <1>14
  <2>. HIDE DEF x
  <2>2. tokens + x >= One
    BY <2>1, OneType DEF d
  <2>. QED  BY <2>2 DEF x
<1>. QED  BY <1>5, <1>6, <1>15 DEF ticks

\* A request that is refused, whatever its clock, leaves the level of the
\* bucket at any time T as it was, if the bucket can hold a token at all.
LEMMA RefusalKeepsLevel ==
  ASSUME NEW b \in Bucket, NEW t \in Nat, NEW T \in Nat, NEW c \in Bucket,
         b.capacity >= One, Refill(b, t) < One,
         c.tokens = Refill(b, t), c.lastFill = t,
         c.capacity = b.capacity, c.rate = b.rate
  PROVE  Refill(c, T) = Refill(b, T)
<1>. DEFINE rt == b.rate * t  rl == b.rate * b.lastFill  rT == b.rate * T
<1>1. /\ b.tokens \in Int /\ b.capacity \in Nat /\ b.rate \in Nat
      /\ b.lastFill \in Nat
  BY DEF Bucket
<1>2. rt \in Int /\ rl \in Int /\ rT \in Int
  BY <1>1
<1>3. (t - b.lastFill) * b.rate = rt - rl
  BY <1>1, Distribute
<1>4. (T - b.lastFill) * b.rate = rT - rl
  BY <1>1, Distribute
<1>5. (T - t) * b.rate = rT - rt
  BY <1>1, Distribute
<1>. HIDE DEF rt, rl, rT
<1>6. c.tokens = b.tokens + (rt - rl)
  BY <1>1, <1>2, <1>3, OneType DEF Refill
<1>7. c.tokens + (T - c.lastFill) * c.rate = b.tokens + (T - b.lastFill) * b.rate
  <2>1. (T - c.lastFill) * c.rate = rT - rt
    BY <1>5
  <2>. QED  BY <2>1, <1>1, <1>2, <1>4, <1>6
<1>. QED  BY <1>7 DEF Refill

\* The time the Retry-After header of p names, and a millisecond.
RetryAt(p) == clk[p] + reply[p].retry * TicksPerSec + TicksPerMs

\* What p was promised.
RetryGood(p) ==
    LET b == heap[bkt[p]]
    IN  b.capacity >= One /\ b.rate > 0 => Refill(b, RetryAt(p)) >= One

\* Only answered requests are owed a token.
RetryInv ==
    /\ \A p \in refused : pc[p] = "done"
    /\ \A p \in refused : RetryGood(p)

\* bucket.allow makes a good promise to a request it refuses, and keeps the
\* ones it made, unless it admits.
LEMMA TakeRetry ==
  ASSUME TypeOK, TypeOK', RetryInv, NEW p \in Procs, NEW restart \in BOOLEAN,
         Take(p, restart)
  PROVE  RetryInv'
<1>. DEFINE b == bkt[p]  t == clk[p]  tokens == Refill(heap[b], t)
            left == IF tokens >= One THEN tokens - One ELSE tokens
            new == [heap[b] EXCEPT !.tokens = left, !.lastFill = t]
<1>1. /\ b \in BucketIds /\ t \in Nat /\ heap[b] \in Bucket
      /\ tokens \in Int
      /\ pc[p] = "take" /\ p \notin refused
  BY DEF Take, Goto, TypeOK, Refill, Bucket, RetryInv
<1>2. /\ heap' = [heap EXCEPT ![b] = new]
      /\ pc' = [pc EXCEPT ![p] = "done"]
      /\ UNCHANGED <<bkt, clk>>
      /\ refused' = IF tokens >= One THEN {q \in refused : bkt[q] # b}
                                     ELSE refused \cup {p}
      /\ \A q \in Procs : q # p => reply'[q] = reply[q]
      /\ tokens < One => reply'[p].retry = RetryAfter(tokens, heap[b].rate)
  <2>1. reply' = [reply EXCEPT ![p] =
                    [ok    |-> tokens >= One,
                     retry |-> IF tokens >= One THEN 0
                                 ELSE RetryAfter(tokens, heap[b].rate)]]
    BY DEF Take
  <2>2. \A q \in Procs : q # p => reply'[q] = reply[q]
    BY <2>1 DEF TypeOK
  <2>3. tokens < One => reply'[p].retry = RetryAfter(tokens, heap[b].rate)
    <3>. HIDE DEF tokens, b
    <3>. QED  BY <2>1, <1>1, OneType DEF TypeOK
  <2>. QED  BY <2>2, <2>3 DEF Take, Goto
<1>3. \A q \in refused' : pc'[q] = "done"
  BY <1>1, <1>2 DEF RetryInv, TypeOK
<1>4. /\ new \in Bucket
      /\ new.tokens = left /\ new.lastFill = t
      /\ new.capacity = heap[b].capacity /\ new.rate = heap[b].rate
  <2>1. left \in Int
    BY <1>1, OneType
  <2>. HIDE DEF left, tokens
  <2>. QED  BY <1>1, <2>1 DEF Bucket
<1>5. heap'[b] = new /\ \A c \in BucketIds : c # b => heap'[c] = heap[c]
  <2>. HIDE DEF new
  <2>. QED  BY <1>1, <1>2 DEF TypeOK
<1>. HIDE DEF new
<1>6. ASSUME NEW q \in refused' PROVE RetryGood(q)'
  <2>1. /\ q \in Procs
        /\ q \in refused \/ (q = p /\ tokens < One)
        /\ bkt'[q] = bkt[q] /\ clk'[q] = clk[q] /\ bkt[q] \in BucketIds
    <3>. HIDE DEF tokens, b, t
    <3>. QED  BY <1>1, <1>2, OneType DEF TypeOK, RetryInv
  <2>2. CASE q \in refused /\ bkt[q] # b
    <3>1. reply'[q] = reply[q] /\ RetryAt(q)' = RetryAt(q)
      BY <1>1, <1>2, <2>1, <2>2 DEF RetryAt
    <3>2. heap'[bkt'[q]] = heap[bkt[q]]
      BY <1>5, <2>1, <2>2
    <3>3. RetryGood(q)
      BY <2>2 DEF RetryInv
    <3>. QED  BY <3>1, <3>2, <3>3 DEF RetryGood
  <2>3. CASE q \in refused /\ bkt[q] = b
    <3>1. tokens < One /\ left = tokens
      <4>. HIDE DEF tokens, b, t
      <4>. QED  BY <1>1, <1>2, <2>3, OneType
    <3>2. reply'[q] = reply[q] /\ RetryAt(q)' = RetryAt(q) /\ q # p
      BY <1>1, <1>2, <2>1, <2>3 DEF RetryAt
    <3>3. RetryAt(q) \in Nat
      <4>1. clk[q] \in Nat /\ reply[q].retry \in Nat
        BY <2>1 DEF TypeOK
      <4>2. reply[q].retry * TicksPerSec \in Nat
        BY <4>1, OneType, ProductNat
      <4>. QED  BY <4>1, <4>2, ClockAssumption DEF RetryAt
    <3>4. heap'[bkt'[q]] = new /\ heap[bkt[q]] = heap[b]
      BY <1>5, <2>1, <2>3
    <3>5. RetryGood(q)
      BY <2>3 DEF RetryInv
    <3>6. ASSUME heap[b].capacity >= One
          PROVE  Refill(new, RetryAt(q)) = Refill(heap[b], RetryAt(q))
      <4>1. Refill(heap[b], t) < One /\ new.tokens = Refill(heap[b], t)
        BY <3>1, <1>4
      <4>. HIDE DEF tokens, left, b, t
      <4>. QED  BY <4>1, <1>1, <1>4, <3>3, <3>6, RefusalKeepsLevel
    <3>. HIDE DEF b
    <3>. QED  BY <3>2, <3>4, <3>5, <3>6, <1>4 DEF RetryGood
  <2>4. CASE q = p /\ tokens < One
    <3>. DEFINE retry == RetryAfter(tokens, heap[b].rate)
                wait == retry * TicksPerSec + TicksPerMs
    <3>1. RetryAt(q)' = t + wait
      <4>1. reply'[q].retry = retry /\ clk'[q] = t
        BY <1>2, <2>1, <2>4
      <4>2. RetryAt(q)' = t + retry * TicksPerSec + TicksPerMs
        <5>. HIDE DEF retry
        <5>. QED  BY <4>1 DEF RetryAt
      <4>3. retry \in Nat
        <5>. HIDE DEF tokens, b, t
        <5>1. heap[b].rate \in Nat
          BY <1>1 DEF Bucket
        <5>. QED  BY <1>1, <5>1, <2>4, RetryAfterType
      <4>4. retry * TicksPerSec \in Nat
        <5>. HIDE DEF retry
        <5>. QED  BY <4>3, OneType, ProductNat
      <4>. HIDE DEF retry, t
      <4>. QED  BY <1>1, <4>2, <4>4, ClockAssumption
    <3>2. heap'[bkt'[q]] = new /\ left = tokens
      <4>1. left = tokens
        <5>. HIDE DEF tokens, b, t
        <5>. QED  BY <1>1, <2>4, OneType
      <4>. QED  BY <4>1, <1>5, <2>1, <2>4
    <3>3. ASSUME new.capacity >= One, new.rate > 0
          PROVE  Refill(new, t + wait) >= One
      <4>1. new.tokens = tokens /\ new.lastFill = t /\ new.rate = heap[b].rate
        BY <1>4, <3>2
      <4>2. new.rate \in Nat \ {0} /\ new.capacity \in Nat
        BY <1>4, <3>3 DEF Bucket
      <4>3. tokens \in Int /\ tokens < One /\ t \in Nat
        BY <1>1, <2>4
      <4>. HIDE DEF tokens, left, b, t
      <4>4. retry \in Nat /\ tokens + wait * new.rate >= One
        BY <4>1, <4>2, <4>3, RetrySuffices
      <4>5. wait \in Nat
        <5>. HIDE DEF retry
        <5>1. retry * TicksPerSec \in Nat
          BY <4>4, OneType, ProductNat
        <5>. QED  BY <5>1, ClockAssumption
      <4>. HIDE DEF wait
      <4>6. (t + wait) - t = wait
        BY <4>3, <4>5
      <4>7. Refill(new, t + wait) =
              IF tokens + wait * new.rate < new.capacity
                THEN tokens + wait * new.rate ELSE new.capacity
        BY <4>1, <4>6 DEF Refill
      <4>. DEFINE level == tokens + wait * new.rate
      <4>8. level \in Int /\ level >= One
        BY <4>2, <4>3, <4>4, <4>5
      <4>. HIDE DEF level
      <4>9. Refill(new, t + wait) = IF level < new.capacity THEN level ELSE new.capacity
        BY <4>7 DEF level
      <4>. QED  BY <4>8, <4>9, <4>2, <3>3, OneType
    <3>. HIDE DEF wait
    <3>. QED  BY <3>1, <3>2, <3>3 DEF RetryGood
  <2>. QED  BY <2>1, <2>2, <2>3, <2>4
<1>. QED  BY <1>3, <1>6 DEF RetryInv

\* Steps that leave the buckets and the answers of refused requests alone keep
\* the promises.
LEMMA RetryUnchanged ==
  ASSUME TypeOK, RetryInv, refused' \subseteq refused,
         \A q \in refused' : /\ pc'[q] = pc[q] /\ bkt'[q] = bkt[q]
                             /\ clk'[q] = clk[q] /\ reply'[q] = reply[q]
                             /\ heap'[bkt[q]] = heap[bkt[q]]
  PROVE  RetryInv'
<1>. SUFFICES ASSUME NEW q \in refused' PROVE pc'[q] = "done" /\ RetryGood(q)'
  BY DEF RetryInv
<1>1. pc'[q] = "done" /\ RetryGood(q)
  BY DEF RetryInv
<1>2. heap'[bkt'[q]] = heap[bkt[q]] /\ RetryAt(q)' = RetryAt(q)
  BY DEF RetryAt
<1>. QED  BY <1>1, <1>2 DEF RetryGood

\* A refused client that waits as long as Retry-After says, and a millisecond
\* more, finds a token unless the bucket has admitted another request, for
\* every quota, clock resolution and interleaving.
THEOREM RetryHonoured == Spec => []RetryAfterWithinMs
<1>1. Init => RetryInv
  BY DEF Init, RetryInv
<1>2. TypeOK /\ TypeOK' /\ RetryInv /\ [Next]_vars => RetryInv'
  <2>. SUFFICES ASSUME TypeOK, TypeOK', RetryInv, [Next]_vars PROVE RetryInv'
    OBVIOUS
  <2>. DEFINE Same(q) == /\ pc'[q] = pc[q] /\ bkt'[q] = bkt[q]
                         /\ clk'[q] = clk[q] /\ reply'[q] = reply[q]
                         /\ heap'[bkt[q]] = heap[bkt[q]]
  <2>1. ASSUME refused' \subseteq refused, \A q \in refused' : Same(q)
        PROVE  RetryInv'
    BY <2>1, RetryUnchanged
  <2>2. ASSUME NEW p \in Procs, NEW k \in Keys, Enter(p, k) PROVE RetryInv'
    BY <2>1, <2>2 DEF Enter, Goto, TypeOK, RetryInv
  <2>3. ASSUME NEW p \in Procs,
               LoadConfig(p) \/ QueryRow(p) \/ QueryNoRow(p) \/ QueryFails(p)
                 \/ StoreConfig(p)
        PROVE  RetryInv'
    BY <2>1, <2>3 DEF LoadConfig, QueryRow, QueryNoRow, QueryFails, StoreConfig,
                      Goto, TypeOK, RetryInv
  <2>4. ASSUME NEW p \in Procs, Create(p) PROVE RetryInv'
    <3>1. p \notin refused /\ refused' = refused /\ UNCHANGED <<clk, reply>>
      BY <2>4 DEF Create, Goto, RetryInv
    <3>2. \A q \in refused : pc'[q] = pc[q]
      BY <3>1, <2>4 DEF Create, Goto, TypeOK
    <3>3. ASSUME NEW q \in refused
          PROVE  bkt'[q] = bkt[q] /\ heap'[bkt[q]] = heap[bkt[q]]
      <4>1. q \in Procs /\ q # p /\ bkt[q] \in BucketIds
        BY <3>1, <3>3 DEF TypeOK, RetryInv
      <4>2. CASE buckets[key[p]] # Nil
        BY <2>4, <4>1, <4>2 DEF Create, TypeOK
      <4>3. CASE buckets[key[p]] = Nil
        <5>1. PICK b \in BucketIds : Install(p, b)
          BY <2>4, <4>3 DEF Create
        <5>2. b # bkt[q]
          BY <4>1, <5>1 DEF Install, FreeIds
        <5>. QED  BY <4>1, <5>1, <5>2 DEF Install, TypeOK
      <4>. QED  BY <4>2, <4>3
    <3>. QED  BY <2>1, <3>1, <3>2, <3>3
  <2>5. ASSUME NEW p \in Procs, ReadClock(p) PROVE RetryInv'
    BY <2>1, <2>5 DEF ReadClock, Goto, TypeOK, RetryInv
  <2>6. ASSUME NEW p \in Procs, Return(p) PROVE RetryInv'
    <3>1. refused' = refused \ {p} /\ UNCHANGED heap
      BY <2>6 DEF Return
    <3>2. \A q \in refused' : Same(q)
      BY <2>6, <3>1 DEF Return, Goto, TypeOK
    <3>. QED  BY <2>1, <3>1, <3>2
  <2>7. CASE Cleanup \/ Tick \/ UNCHANGED vars
    BY <2>1, <2>7 DEF Cleanup, Tick, vars
  <2>8. ASSUME NEW k \in Keys, NEW c \in Cfgs, SetConfig(k, c) \/ UpsertRateLimit(k, c)
        PROVE  RetryInv'
    BY <2>1, <2>8 DEF SetConfig, UpsertRateLimit
  <2>. QED
    BY <2>2, <2>3, <2>4, <2>5, <2>6, <2>7, <2>8, TakeRetry DEF Next, Step
<1>3. RetryInv => RetryAfterWithinMs
  BY DEF RetryInv, RetryGood, RetryAt, RetryAfterWithinMs
<1>. QED  BY <1>1, <1>2, <1>3, TypeCorrect, PTL DEF Spec
=============================================================================
