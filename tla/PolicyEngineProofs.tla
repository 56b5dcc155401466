------------------------- MODULE PolicyEngineProofs -------------------------
(***************************************************************************)
(* Theorems about the policy engine, for every set of policies, lists and  *)
(* concurrent requests: first about the judging of a request, the          *)
(* specification of PolicyRules; then about the cache of policies, the     *)
(* specification of PolicyCache over the engine's variables; and last      *)
(* about the two together.                                                 *)
(***************************************************************************)
EXTENDS PolicyEngine, TLAPS, FiniteSetTheorems

---------------------------------------------------------------------------
(* Hours of the day.                                                       *)

\* Quotient and remainder of a division by a positive number.
LEMMA ModDef ==
  ASSUME NEW x \in Int, NEW H \in Nat \ {0}
  PROVE  /\ x % H \in 0..(H - 1)
         /\ x \div H \in Int
         /\ x = H * (x \div H) + (x % H)
  OBVIOUS

\* A multiple of H between -H and H is zero.
LEMMA SmallMultiple ==
  ASSUME NEW H \in Nat \ {0}, NEW a \in Int, 0 - H < H * a, H * a < H
  PROVE  a = 0
  OBVIOUS

\* The remainder is unique.
LEMMA ModUnique ==
  ASSUME NEW x \in Int, NEW H \in Nat \ {0}, NEW q \in Int, NEW r \in 0..(H - 1),
         x = H * q + r
  PROVE  x % H = r
<1>. DEFINE c == x \div H  m == x % H
<1>1. m \in 0..(H - 1) /\ c \in Int /\ x = H * c + m
  BY ModDef
<1>2. H * (q - c) = H * q - H * c
  BY <1>1
<1>3. H * q \in Int /\ H * c \in Int
  BY <1>1
<1>. HIDE DEF c, m
<1>4. H * (q - c) = m - r
  BY <1>1, <1>2, <1>3
<1>5. q - c = 0
  BY <1>1, <1>4, SmallMultiple
<1>6. H * (q - c) = 0
  BY <1>5
<1>. QED  BY <1>1, <1>4, <1>6 DEF m

\* How far the hour of t is past the hour s, round the clock.
LEMMA ModShift ==
  ASSUME NEW t \in Nat, NEW H \in Nat \ {0}, NEW s \in 0..H
  PROVE  (t - s) % H = IF s <= (t % H) THEN (t % H) - s ELSE (t % H) - s + H
<1>. DEFINE c == t \div H  m == t % H
<1>1. m \in 0..(H - 1) /\ c \in Int /\ t = H * c + m /\ H * c \in Int
  BY ModDef
<1>. HIDE DEF c, m
<1>2. CASE s <= m
  <2>1. t - s \in Int /\ m - s \in 0..(H - 1) /\ t - s = H * c + (m - s)
    BY <1>1, <1>2
  <2>2. (t - s) % H = m - s
    BY <2>1, <1>1, ModUnique
  <2>. QED  BY <2>2, <1>2 DEF m
<1>3. CASE ~(s <= m)
  <2>1. H * (c - 1) = H * c - H
    BY <1>1
  <2>2. /\ t - s \in Int /\ c - 1 \in Int /\ m - s + H \in 0..(H - 1)
        /\ t - s = H * (c - 1) + (m - s + H)
    BY <1>1, <1>3, <2>1
  <2>3. (t - s) % H = m - s + H
    BY <2>2, <1>1, ModUnique
  <2>. QED  BY <2>3, <1>3 DEF m
<1>. QED  BY <1>2, <1>3

\* evaluateTimeBased's two cases, and evaluateContent, deny what the operator
\* forbids, from 0:00 up to 24:00.
LEMMA DeniesForbidden ==
  ASSUME NEW pol, NEW r, NEW t \in Nat
  PROVE  Forbidden(pol, r, t) => Denies(pol, r, t)
<1>1. ASSUME pol \in TimePolicies, {BlockStart[pol], BlockEnd[pol]} \subseteq 0..HoursPerDay
      PROVE  InBlockedHours(pol, t % HoursPerDay) <=>
               (t - BlockStart[pol]) % HoursPerDay < Span(pol)
  <2>. DEFINE H == HoursPerDay  s == BlockStart[pol]  e == BlockEnd[pol]
              h == t % HoursPerDay
  <2>1. H \in Nat \ {0} /\ s \in 0..H /\ e \in 0..H
    BY <1>1, RulesAssumption
  <2>2. h \in 0..(H - 1)
    BY <2>1, ModDef
  <2>3. (t - s) % H = IF s <= h THEN h - s ELSE h - s + H
    <3>. HIDE DEF s
    <3>. QED  BY <2>1, ModShift
  <2>4. Span(pol) = IF s <= e THEN e - s ELSE e - s + H
    BY <2>1 DEF Span
  <2>5. InBlockedHours(pol, h) <=> IF s <= e THEN h >= s /\ h < e ELSE h >= s \/ h < e
    BY DEF InBlockedHours
  <2>. HIDE DEF h, s, e, H
  <2>6. InBlockedHours(pol, h) <=> (t - s) % H < Span(pol)
    BY <2>1, <2>2, <2>3, <2>4, <2>5
  <2>. QED  BY <2>6 DEF h, s, e, H
<1>. QED  BY <1>1 DEF Denies, Forbidden

---------------------------------------------------------------------------
(* Judging a request: type correctness.                                    *)

\* Beyond TypeOK: the history is finite, so that its entries can be counted
\* and numbered; an idle goroutine starts at the head of a list; and lists
\* and clock readings are ones that were there to be read.
RulesInv ==
    /\ TypeOK
    /\ IsFiniteSet(written)
    /\ \A p \in Procs : /\ pc[p] = "idle" => idx[p] = 1
                        /\ list[p] \in Lists \cup {<<>>}
                        /\ clk[p] <= now

\* What a verdict leaves of the goroutines.
Judged(p) ==
    /\ pc' \in [Procs -> {"idle", "eval", "record", "done"}]
    /\ idx' \in [Procs -> Nat \ {0}]
    /\ denied' \in [Procs -> BOOLEAN]
    /\ pc'[p] \in {"eval", "done"}
    /\ pc'[p] = "eval" => idx'[p] <= Len(list[p])
    /\ \A q \in Procs : q # p => pc'[q] = pc[q] /\ idx'[q] = idx[q]

\* Middleware's loop does not run over its list.
LEMMA VerdictType ==
  ASSUME TypeOK, NEW p \in Procs, NEW from \in {"eval", "record"},
         NEW deny \in BOOLEAN, Verdict(p, from, deny)
  PROVE  Judged(p)
<1>1. denied' \in [Procs -> BOOLEAN]
  BY Zenon DEF Verdict, TypeOK
<1>2. Len(list[p]) \in Nat /\ idx[p] \in Nat \ {0} /\ idx[p] <= Len(list[p])
  BY DEF TypeOK, Verdict, Goto
<1>. QED  BY <1>1, <1>2 DEF Verdict, Goto, TypeOK, Judged

\* An entry that record appends is one the history does not hold yet.
LEMMA NewEntryType ==
  ASSUME written \subseteq Entries, IsFiniteSet(written),
         NEW pol \in RatePolicies, NEW k \in Keys, NEW t \in Times
  PROVE  NewEntry(pol, k, t) \in Entries
<1>1. Cardinality(Alike(pol, k, t)) \in Nat
  <2>1. Alike(pol, k, t) \subseteq written
    BY DEF Alike
  <2>. QED  BY <2>1, FS_Subset, FS_CardinalityType
<1>. QED  BY <1>1 DEF NewEntry, Entries

LEMMA RulesInit == Init => RulesInv
<1>. SUFFICES ASSUME Init PROVE RulesInv
  OBVIOUS
<1>1. denied \in [Procs -> BOOLEAN]
  BY Zenon DEF Init
<1>2. IsFiniteSet(written)
  BY FS_EmptySet DEF Init
<1>3. 0 \in Times /\ <<>> \in Seq(Policies)
  BY RulesAssumption DEF Times
<1>. QED  BY <1>1, <1>2, <1>3 DEF Init, RulesInv, TypeOK

LEMMA RulesInductive == RulesInv /\ [Next]_vars => RulesInv'
<1>. SUFFICES ASSUME RulesInv, [Next]_vars PROVE RulesInv'
  OBVIOUS
<1>. USE DEF RulesInv
<1>1. ASSUME NEW p \in Procs, NEW r \in Requests, NEW policies_ \in Lists,
             Begin(p, r, policies_)
      PROVE  RulesInv'
  <2>1. policies_ \in Seq(Policies) /\ Len(policies_) \in Nat
        /\ (policies_ # <<>> => Len(policies_) >= 1)
    BY RulesAssumption
  <2>2. UNCHANGED <<now, windows, idx, denied, written>>
    BY <1>1 DEF Begin
  <2>3. /\ pc' \in [Procs -> {"idle", "eval", "record", "done"}]
        /\ req' \in [Procs -> Requests \cup {NoRequest}]
        /\ list' \in [Procs -> Seq(Policies)]
        /\ clk' \in [Procs -> Times]
        /\ pc[p] = "idle" /\ idx[p] = 1
        /\ pc'[p] = IF policies_ = <<>> THEN "done" ELSE "eval"
        /\ req'[p].key \in Keys /\ list'[p] = policies_ /\ clk'[p] <= now
        /\ \A q \in Procs : q # p => /\ pc'[q] = pc[q] /\ req'[q] = req[q]
                                     /\ list'[q] = list[q] /\ clk'[q] = clk[q]
    BY <1>1, <2>1, RulesAssumption DEF Begin, Goto, TypeOK, Requests, Times
  <2>. QED  BY <2>1, <2>2, <2>3 DEF TypeOK, Policy
<1>2. ASSUME NEW p \in Procs, EvaluateLocal(p) PROVE RulesInv'
  <2>. DEFINE deny == Denies(Policy(p), req[p], clk[p])
  <2>1. deny \in BOOLEAN
    BY DEF Denies, InBlockedHours
  <2>2. Verdict(p, "eval", deny) /\ UNCHANGED <<now, windows, req, list, clk, written>>
    BY <1>2 DEF EvaluateLocal
  <2>. HIDE DEF deny
  <2>3. Judged(p) /\ pc[p] = "eval"
    BY <2>1, <2>2, VerdictType DEF Verdict, Goto
  <2>. QED  BY <2>2, <2>3 DEF Judged, TypeOK, Policy
<1>3. ASSUME NEW p \in Procs, CountInWindow(p) PROVE RulesInv'
  <2>1. windows' \subseteq written /\ UNCHANGED <<now, req, list, clk, written>>
        /\ pc[p] = "eval" /\ Policy(p) \in RatePolicies
    BY <1>3 DEF CountInWindow, Kept, TypeOK
  <2>2. CASE Verdict(p, "eval", TRUE)
    <3>1. Judged(p)
      BY <2>2, VerdictType
    <3>. QED  BY <2>1, <3>1 DEF Judged, TypeOK, Policy
  <2>3. CASE Goto(p, "eval", "record") /\ UNCHANGED <<idx, denied>>
    BY <2>1, <2>3 DEF TypeOK, Policy, Goto
  <2>. QED  BY <1>3, <2>2, <2>3 DEF CountInWindow
<1>4. ASSUME NEW p \in Procs, Record(p) PROVE RulesInv'
  <2>. DEFINE e == NewEntry(Policy(p), req[p].key, clk[p])
  <2>1. /\ Verdict(p, "record", FALSE)
        /\ windows' = windows \cup {e} /\ written' = written \cup {e}
        /\ UNCHANGED <<now, req, list, clk>>
    BY <1>4 DEF Record
  <2>2. e \in Entries
    BY <2>1, NewEntryType DEF Verdict, Goto, TypeOK
  <2>. HIDE DEF e
  <2>3. IsFiniteSet(written')
    BY <2>1, FS_AddElement
  <2>4. Judged(p)
    BY <2>1, VerdictType
  <2>5. windows' \subseteq written' /\ written' \subseteq Entries
    BY <2>1, <2>2 DEF TypeOK
  <2>6. UNCHANGED <<now, req, list, clk>> /\ pc[p] = "record"
    BY <2>1 DEF Verdict, Goto
  <2>. QED  BY <2>3, <2>4, <2>5, <2>6 DEF Judged, TypeOK, Policy
<1>5. ASSUME NEW p \in Procs, Return(p) PROVE RulesInv'
  <2>1. denied' \in [Procs -> BOOLEAN]
    BY <1>5, Zenon DEF Return, TypeOK
  <2>2. 0 \in Times /\ <<>> \in Seq(Policies) /\ now >= 0
    BY RulesAssumption DEF Times, TypeOK
  <2>. QED  BY <1>5, <2>1, <2>2 DEF Return, Goto, TypeOK, Policy
<1>6. CASE Tick
  BY <1>6, RulesAssumption DEF Tick, locals, TypeOK, Policy, Times
<1>7. CASE UNCHANGED vars
  BY <1>7 DEF vars, locals, TypeOK, Policy
<1>. QED
  BY <1>1, <1>2, <1>3, <1>4, <1>5, <1>6, <1>7 DEF Next, Step, Evaluate

\* RulesInv is an invariant.
LEMMA RulesInvariant == Spec => []RulesInv
  BY RulesInit, RulesInductive, PTL DEF Spec

\* Type correctness: the loop stays within its list, and the write tracker
\* holds entries that were recorded.
THEOREM TypeCorrect == Spec => []TypeOK
  BY RulesInvariant, PTL DEF RulesInv

---------------------------------------------------------------------------
(* Judging a request: no policy is skipped.  The invariant is what the     *)
(* loop has established so far: the policies before the current one did    *)
(* not deny.                                                               *)

\* The first n policies of p's list do not deny its request.
Clear(p, n) == \A i \in 1..n : ~Denies(list[p][i], req[p], clk[p])

PassInv ==
    \A p \in Procs :
        /\ pc[p] \in {"eval", "record"} => Clear(p, idx[p] - 1)
        /\ pc[p] = "done" /\ ~denied[p] => Clear(p, Len(list[p]))

\* Going on after a policy that did not deny, or stopping at one that did,
\* keeps it.
LEMMA VerdictPass ==
  ASSUME RulesInv, PassInv, NEW p \in Procs, NEW from \in {"eval", "record"},
         NEW deny \in BOOLEAN, Verdict(p, from, deny), UNCHANGED <<req, list, clk>>,
         ~deny => ~Denies(Policy(p), req[p], clk[p])
  PROVE  PassInv'
<1>. SUFFICES ASSUME NEW q \in Procs
              PROVE  /\ pc'[q] \in {"eval", "record"} => Clear(q, idx'[q] - 1)
                     /\ pc'[q] = "done" /\ ~denied'[q] => Clear(q, Len(list[q]))
  BY DEF PassInv, Clear
<1>1. CASE q # p
  <2>1. pc'[q] = pc[q] /\ idx'[q] = idx[q]
    BY <1>1 DEF Verdict, Goto, RulesInv, TypeOK
  <2>2. denied'[q] = denied[q]
    BY <1>1, Zenon DEF Verdict, RulesInv, TypeOK
  <2>. QED  BY <2>1, <2>2 DEF PassInv
<1>2. CASE q = p
  <2>. DEFINE last == deny \/ idx[p] = Len(list[p])
  <2>1. denied'[p] = deny
    BY Zenon DEF Verdict, RulesInv, TypeOK
  <2>2. /\ pc[p] \in {"eval", "record"}
        /\ pc'[p] = IF last THEN "done" ELSE "eval"
        /\ idx'[p] = IF last THEN idx[p] ELSE idx[p] + 1
        /\ idx[p] \in Nat \ {0} /\ Len(list[p]) \in Nat
    BY DEF Verdict, Goto, RulesInv, TypeOK
  <2>3. ~deny => Clear(p, idx[p])
    <3>1. Clear(p, idx[p] - 1)
      BY <2>2 DEF PassInv
    <3>. QED  BY <3>1, <2>2 DEF Clear, Policy
  <2>. QED  BY <1>2, <2>1, <2>2, <2>3
<1>. QED  BY <1>1, <1>2

LEMMA PassInductive == RulesInv /\ PassInv /\ [Next]_vars => PassInv'
<1>. SUFFICES ASSUME RulesInv, PassInv, [Next]_vars PROVE PassInv'
  OBVIOUS
<1>1. ASSUME NEW p \in Procs, NEW r \in Requests, NEW l \in Lists, Begin(p, r, l)
      PROVE  PassInv'
  <2>. SUFFICES ASSUME NEW q \in Procs
                PROVE  /\ pc'[q] \in {"eval", "record"} => Clear(q, idx[q] - 1)'
                       /\ pc'[q] = "done" /\ ~denied[q] => Clear(q, Len(list[q]))'
    BY <1>1 DEF Begin, PassInv
  <2>1. CASE q # p
    <3>1. /\ pc'[q] = pc[q] /\ req'[q] = req[q] /\ list'[q] = list[q]
          /\ clk'[q] = clk[q] /\ idx'[q] = idx[q]
      BY <1>1, <2>1 DEF Begin, Goto, RulesInv, TypeOK
    <3>. QED  BY <3>1 DEF PassInv, Clear
  <2>2. CASE q = p
    <3>1. /\ pc'[q] = IF l = <<>> THEN "done" ELSE "eval"
          /\ list'[q] = l /\ idx'[q] = 1
      BY <1>1, <2>2 DEF Begin, Goto, RulesInv, TypeOK
    <3>. QED  BY <3>1 DEF Clear
  <2>. QED  BY <2>1, <2>2
<1>2. ASSUME NEW p \in Procs, EvaluateLocal(p) PROVE PassInv'
  <2>. DEFINE deny == Denies(Policy(p), req[p], clk[p])
  <2>1. deny \in BOOLEAN
    BY DEF Denies, InBlockedHours
  <2>2. Verdict(p, "eval", deny) /\ UNCHANGED <<req, list, clk>>
    BY <1>2 DEF EvaluateLocal
  <2>. QED  BY <2>1, <2>2, VerdictPass
<1>3. ASSUME NEW p \in Procs, CountInWindow(p) PROVE PassInv'
  <2>1. UNCHANGED <<req, list, clk>> /\ pc[p] = "eval"
    BY <1>3 DEF CountInWindow
  <2>2. CASE Verdict(p, "eval", TRUE)
    BY <2>1, <2>2, VerdictPass
  <2>3. CASE Goto(p, "eval", "record") /\ UNCHANGED <<idx, denied>>
    BY <2>1, <2>3 DEF Goto, PassInv, Clear, RulesInv, TypeOK
  <2>. QED  BY <1>3, <2>2, <2>3 DEF CountInWindow
<1>4. ASSUME NEW p \in Procs, Record(p) PROVE PassInv'
  <2>1. Verdict(p, "record", FALSE) /\ UNCHANGED <<req, list, clk>>
    BY <1>4 DEF Record
  <2>2. Policy(p) \in RatePolicies
    BY <2>1 DEF Verdict, Goto, RulesInv, TypeOK
  <2>3. ~Denies(Policy(p), req[p], clk[p])
    BY <2>2, RulesAssumption DEF Denies
  <2>. QED  BY <2>1, <2>3, VerdictPass
<1>5. ASSUME NEW p \in Procs, Return(p) PROVE PassInv'
  <2>. SUFFICES ASSUME NEW q \in Procs
                PROVE  /\ pc'[q] \in {"eval", "record"} => Clear(q, idx[q] - 1)'
                       /\ pc'[q] = "done" /\ ~denied'[q] => Clear(q, Len(list[q]))'
    BY DEF PassInv
  <2>1. CASE q = p
    BY <1>5, <2>1 DEF Return, Goto, RulesInv, TypeOK
  <2>2. CASE q # p
    <3>1. /\ pc'[q] = pc[q] /\ req'[q] = req[q] /\ list'[q] = list[q]
          /\ clk'[q] = clk[q] /\ idx'[q] = idx[q]
      BY <1>5, <2>2 DEF Return, Goto, RulesInv, TypeOK
    <3>2. denied'[q] = denied[q]
      BY <1>5, <2>2, Zenon DEF Return, RulesInv, TypeOK
    <3>. QED  BY <3>1, <3>2 DEF PassInv, Clear
  <2>. QED  BY <2>1, <2>2
<1>6. CASE Tick \/ UNCHANGED vars
  BY <1>6 DEF Tick, vars, locals, PassInv, Clear
<1>. QED
  BY <1>1, <1>2, <1>3, <1>4, <1>5, <1>6 DEF Next, Step, Evaluate

\* A request passes only if no time_based or content policy of its list
\* forbids it at the time it read, whatever the list's length and order.
THEOREM PassesAllowed == Spec => []PassesMeansAllowed
<1>1. Init => PassInv
  BY DEF Init, PassInv
<1>2. RulesInv /\ PassInv => PassesMeansAllowed
  <2>. SUFFICES ASSUME RulesInv, PassInv, NEW p \in Procs, pc[p] = "done", ~denied[p],
                       NEW i \in 1..Len(list[p])
                PROVE  ~Forbidden(list[p][i], req[p], clk[p])
    BY DEF PassesMeansAllowed
  <2>1. clk[p] \in Nat
    BY DEF RulesInv, TypeOK, Times
  <2>. QED  BY <2>1, DeniesForbidden DEF PassInv, Clear
<1>. QED  BY <1>1, <1>2, RulesInvariant, PassInductive, PTL DEF Spec

---------------------------------------------------------------------------
(* Judging a request: the overshoot of a write limit.  Fix the only        *)
(* rate_of_change policy, a key and a window of time.  As long as the      *)
(* window is open, the tracker still holds all its entries, and a          *)
(* goroutine that was let through saw fewer than the limit: the entries,   *)
(* and those about to be recorded, are at most N - 1 over it.  When the    *)
(* window closes, only the goroutines that read their clocks in it can     *)
(* still add to it, once each; if those are all N, nobody has dropped an   *)
(* entry of it yet, so the first of them still sees them all.              *)

N == Cardinality(Procs)

\* The entries of the window that starts at t.
Over(pol, k, t) == Passed(pol, k, t, t + Window[pol])

InWindow(pol, k, t, p) == req[p].key = k /\ clk[p] \in t..(t + Window[pol])

\* Goroutines that have counted, and are about to record in the window.
Recording(pol, k, t) == {p \in Procs : pc[p] = "record" /\ InWindow(pol, k, t, p)}

\* Goroutines with a clock of the window that have yet to meet the policy.
Waiting(pol, k, t) ==
    {p \in Procs : /\ pc[p] = "eval" /\ InWindow(pol, k, t, p)
                   /\ \A i \in 1..(idx[p] - 1) : list[p][i] # pol}

Pend(pol, k, t) == Recording(pol, k, t) \cup Waiting(pol, k, t)

Counted(pol, k, t) ==
    IF now <= t + Window[pol]
      THEN Cardinality(Over(pol, k, t)) + Cardinality(Recording(pol, k, t))
             <= MaxWrites[pol] + N - 1
      ELSE \/ Cardinality(Over(pol, k, t)) + Cardinality(Pend(pol, k, t))
                <= MaxWrites[pol] + 2 * (N - 1)
           \/ /\ Waiting(pol, k, t) = Procs
              /\ Cardinality(Over(pol, k, t)) <= MaxWrites[pol] + N - 1
              /\ Over(pol, k, t) \subseteq windows

\* Entries of one time are numbered from one, so a new one is not there yet.
Numbered == \A e \in written : e.no <= Cardinality(Alike(e.by, e.key, e.at))

\* The tracker holds every entry of the window that ends now.
Remembered(pol) == \A e \in written : e.at >= now - Window[pol] => e \in windows

OvershootInv(pol) ==
    /\ Numbered
    /\ Remembered(pol)
    /\ \A k \in Keys, t \in Times : Counted(pol, k, t)

\* A subset of a finite set is finite and no larger.
LEMMA Smaller ==
  ASSUME NEW T, IsFiniteSet(T), NEW S, S \subseteq T
  PROVE  /\ IsFiniteSet(S)
         /\ Cardinality(S) \in Nat /\ Cardinality(T) \in Nat
         /\ Cardinality(S) <= Cardinality(T)
  BY FS_Subset, FS_CardinalityType

\* A proper subset misses at least one.
LEMMA SmallerByOne ==
  ASSUME NEW T, IsFiniteSet(T), NEW S, S \subseteq T, NEW x \in T, x \notin S
  PROVE  Cardinality(S) <= Cardinality(T) - 1
<1>1. S \subseteq T \ {x} /\ IsFiniteSet(T \ {x})
  BY FS_RemoveElement
<1>2. Cardinality(T \ {x}) = Cardinality(T) - 1
  BY FS_RemoveElement
<1>. QED  BY <1>1, <1>2, Smaller

\* There is a positive number of goroutines.
LEMMA Goroutines == N \in Nat /\ N >= 1 /\ IsFiniteSet(Procs)
<1>1. IsFiniteSet(Procs) /\ N \in Nat
  BY RulesAssumption, FS_CardinalityType DEF N
<1>2. N # 0
  BY <1>1, RulesAssumption, FS_EmptySet DEF N
<1>. QED  BY <1>1, <1>2

\* The parts a bound is made of.
LEMMA Parts ==
  ASSUME NEW pol \in RatePolicies
  PROVE  MaxWrites[pol] \in Nat \ {0} /\ Window[pol] \in Nat \ {0}
  BY RulesAssumption

\* record appends an entry that was not there.
LEMMA Fresh ==
  ASSUME RulesInv, Numbered, NEW pol, NEW k, NEW t
  PROVE  NewEntry(pol, k, t) \notin written
<1>. SUFFICES ASSUME NewEntry(pol, k, t) \in written PROVE FALSE
  OBVIOUS
<1>. DEFINE c == Cardinality(Alike(pol, k, t))
<1>1. c \in Nat
  <2>1. Alike(pol, k, t) \subseteq written
    BY DEF Alike
  <2>. QED  BY <2>1, Smaller DEF RulesInv
<1>2. c + 1 <= c
  BY DEF Numbered, NewEntry
<1>. HIDE DEF c
<1>. QED  BY <1>1, <1>2

\* The sets that are counted are finite.
LEMMA Sizes ==
  ASSUME IsFiniteSet(written), NEW pol, NEW k, NEW t
  PROVE  /\ IsFiniteSet(Over(pol, k, t)) /\ Cardinality(Over(pol, k, t)) \in Nat
         /\ IsFiniteSet(Recording(pol, k, t)) /\ Cardinality(Recording(pol, k, t)) \in 0..N
         /\ IsFiniteSet(Pend(pol, k, t)) /\ Cardinality(Pend(pol, k, t)) \in 0..N
         /\ Waiting(pol, k, t) = Procs => Recording(pol, k, t) = {}
<1>1. Over(pol, k, t) \subseteq written
  BY DEF Over, Passed
<1>2. Recording(pol, k, t) \subseteq Procs /\ Pend(pol, k, t) \subseteq Procs
  BY DEF Recording, Waiting, Pend
<1>3. IsFiniteSet(Over(pol, k, t)) /\ Cardinality(Over(pol, k, t)) \in Nat
  BY <1>1, Smaller
<1>4. IsFiniteSet(Recording(pol, k, t)) /\ Cardinality(Recording(pol, k, t)) \in 0..N
  BY <1>2, Smaller, Goroutines DEF N
<1>5. IsFiniteSet(Pend(pol, k, t)) /\ Cardinality(Pend(pol, k, t)) \in 0..N
  BY <1>2, Smaller, Goroutines DEF N
<1>6. Waiting(pol, k, t) = Procs => Recording(pol, k, t) = {}
  BY DEF Waiting, Recording
<1>. QED  BY <1>3, <1>4, <1>5, <1>6

\* A step that adds no entry to the window and no goroutine to those that may
\* still add one keeps the count.
LEMMA Quiet ==
  ASSUME RulesInv, RulesInv', NEW pol \in RatePolicies, NEW k \in Keys, NEW t \in Times,
         Counted(pol, k, t), now' = now,
         Over(pol, k, t)' = Over(pol, k, t),
         Recording(pol, k, t)' \subseteq Recording(pol, k, t),
         now > t + Window[pol] => Waiting(pol, k, t)' \subseteq Waiting(pol, k, t),
         Waiting(pol, k, t)' = Procs /\ Over(pol, k, t) \subseteq windows
           => Over(pol, k, t) \subseteq windows'
  PROVE  Counted(pol, k, t)'
<1>. DEFINE over == Over(pol, k, t)  rec == Recording(pol, k, t)
            wait == Waiting(pol, k, t)  pend == Pend(pol, k, t)
<1>1. /\ Cardinality(over) \in Nat
      /\ IsFiniteSet(rec) /\ Cardinality(rec) \in 0..N
      /\ IsFiniteSet(pend) /\ Cardinality(pend) \in 0..N
      /\ wait = Procs => rec = {}
  BY Sizes DEF RulesInv
<1>2. /\ N \in Nat /\ N >= 1 /\ IsFiniteSet(Procs) /\ Cardinality(Procs) = N
      /\ MaxWrites[pol] \in Nat \ {0} /\ Window[pol] \in Nat \ {0}
      /\ now \in Nat /\ t \in Nat
  BY Goroutines, Parts, RulesAssumption DEF N, RulesInv, TypeOK, Times
<1>3. /\ pend = rec \cup wait /\ pend' = rec' \cup wait'
      /\ wait' \subseteq Procs
  BY DEF Pend, Waiting
<1>4. CASE now <= t + Window[pol]
  <2>1. Cardinality(rec') <= Cardinality(rec) /\ Cardinality(rec') \in Nat
    BY <1>1, Smaller
  <2>2. Cardinality(over) + Cardinality(rec) <= MaxWrites[pol] + N - 1
    BY <1>4 DEF Counted
  <2>3. Cardinality(over') + Cardinality(rec') <= MaxWrites[pol] + N - 1
    <3>. HIDE DEF over, rec
    <3>. QED  BY <1>1, <1>2, <2>1, <2>2 DEF over
  <2>. QED  BY <1>4, <2>3 DEF Counted
<1>5. CASE ~(now <= t + Window[pol])
  <2>0. wait' \subseteq wait
    BY <1>2, <1>5
  <2>1. CASE Cardinality(over) + Cardinality(pend) <= MaxWrites[pol] + 2 * (N - 1)
    <3>1. pend' \subseteq pend
      BY <1>3, <2>0
    <3>2. Cardinality(pend') <= Cardinality(pend) /\ Cardinality(pend') \in Nat
      BY <1>1, <3>1, Smaller
    <3>3. Cardinality(over') + Cardinality(pend') <= MaxWrites[pol] + 2 * (N - 1)
      <4>. HIDE DEF over, pend
      <4>. QED  BY <1>1, <1>2, <2>1, <3>2 DEF over
    <3>. QED  BY <1>5, <3>3 DEF Counted
  <2>2. CASE /\ wait = Procs
             /\ Cardinality(over) <= MaxWrites[pol] + N - 1
             /\ over \subseteq windows
    <3>1. pend' = wait'
      BY <1>1, <1>3, <2>2
    <3>2. CASE wait' = Procs
      BY <1>5, <2>2, <3>2 DEF Counted
    <3>3. CASE wait' # Procs
      <4>1. PICK x \in Procs : x \notin wait'
        BY <1>3, <3>3
      <4>2. Cardinality(pend') <= N - 1 /\ Cardinality(pend') \in Nat
        BY <1>2, <1>3, <3>1, <4>1, SmallerByOne, Smaller
      <4>3. Cardinality(over') + Cardinality(pend') <= MaxWrites[pol] + 2 * (N - 1)
        <5>. HIDE DEF over, pend
        <5>. QED  BY <1>1, <1>2, <2>2, <4>2 DEF over
      <4>. QED  BY <1>5, <4>3 DEF Counted
    <3>. QED  BY <3>2, <3>3
  <2>. QED  BY <1>5, <2>1, <2>2 DEF Counted
<1>. QED  BY <1>4, <1>5

\* A goroutine that is let through, having seen all entries of the window or
\* being one of those the bound allows for.
LEMMA CountPasses ==
  ASSUME RulesInv, RulesInv', NEW pol \in RatePolicies, RatePolicies = {pol},
         OvershootInv(pol), NEW p \in Procs, CountInWindow(p),
         ~Reached(pol, Cardinality(EntriesOf(req[p].key, Kept(req[p].key, clk[p] - Window[pol])))),
         Goto(p, "eval", "record"), UNCHANGED idx,
         NEW k \in Keys, NEW t \in Times
  PROVE  Counted(pol, k, t)'
<1>. DEFINE over == Over(pol, k, t)  rec == Recording(pol, k, t)
            wait == Waiting(pol, k, t)  pend == Pend(pol, k, t)
            kept == Kept(req[p].key, clk[p] - Window[pol])
            count == Cardinality(EntriesOf(req[p].key, kept))
<1>1. /\ UNCHANGED <<now, req, list, clk, written, idx>>
      /\ pc[p] = "eval" /\ Policy(p) = pol
      /\ pc' = [pc EXCEPT ![p] = "record"]
  BY DEF CountInWindow, Goto
<1>2. Counted(pol, k, t)
  BY DEF OvershootInv
<1>3. over' = over
  BY <1>1 DEF Over, Passed
<1>4. wait' \subseteq wait /\ p \notin wait' /\ rec' \subseteq rec \cup {p}
  BY <1>1 DEF Waiting, Recording, InWindow, RulesInv, TypeOK
<1>5. CASE ~InWindow(pol, k, t, p)
  <2>1. rec' \subseteq rec
    BY <1>1, <1>4, <1>5 DEF Recording, InWindow
  <2>. HIDE DEF over, rec, wait
  <2>2. wait' # Procs
    BY <1>4
  <2>. QED  BY <1>1, <1>2, <1>3, <1>4, <2>1, <2>2, Quiet DEF over, rec, wait
<1>6. CASE InWindow(pol, k, t, p)
  <2>1. p \in wait
    <3>1. /\ list[p] \in Lists /\ idx[p] \in 1..Len(list[p]) /\ Len(list[p]) \in Nat
          /\ list[p][idx[p]] = pol
      BY <1>1 DEF RulesInv, TypeOK, Policy
    <3>2. \A i, j \in 1..Len(list[p]) : list[p][i] = list[p][j] => i = j
      BY <3>1, RulesAssumption
    <3>3. \A i \in 1..(idx[p] - 1) : list[p][i] # pol
      BY <3>1, <3>2
    <3>. QED  BY <1>1, <1>6, <3>3 DEF Waiting
  <2>2. /\ N \in Nat /\ N >= 1
        /\ MaxWrites[pol] \in Nat \ {0} /\ Window[pol] \in Nat \ {0}
        /\ now \in Nat /\ t \in Nat /\ clk[p] \in Nat /\ clk[p] <= now
        /\ clk[p] <= t + Window[pol] /\ req[p].key = k
    BY <1>6, Goroutines, Parts, RulesAssumption DEF RulesInv, TypeOK, Times, InWindow
  <2>3. /\ Cardinality(over) \in Nat
        /\ IsFiniteSet(pend) /\ Cardinality(pend) \in 0..N
    BY Sizes DEF RulesInv
  <2>4. Cardinality(rec') \in 0..N /\ Cardinality(pend') \in 0..N
    <3>1. rec' \subseteq Procs /\ pend' \subseteq Procs
      BY DEF Recording, Waiting, Pend
    <3>. QED  BY <3>1, Smaller, Goroutines DEF N
  <2>5. ASSUME over \subseteq windows PROVE Cardinality(over) <= MaxWrites[pol] - 1
    <3>1. \A e \in over : e.key = k /\ e.at >= clk[p] - Window[pol]
      <4>1. \A e \in over : e.key = k /\ e.at >= t /\ e.at \in Nat
        BY <2>2 DEF Over, Passed
      <4>. QED  BY <2>2, <4>1
    <3>2. over \subseteq EntriesOf(req[p].key, kept)
      BY <2>2, <2>5, <3>1 DEF Kept, EntriesOf
    <3>3. EntriesOf(req[p].key, kept) \subseteq written
      BY DEF Kept, EntriesOf, RulesInv, TypeOK
    <3>4. IsFiniteSet(EntriesOf(req[p].key, kept))
      BY <3>3, Smaller DEF RulesInv
    <3>5. Cardinality(over) <= count /\ count \in Nat
      BY <3>2, <3>4, Smaller
    <3>6. ~(count >= MaxWrites[pol])
      BY DEF Reached
    <3>. HIDE DEF count, over
    <3>. QED  BY <2>2, <2>3, <3>5, <3>6
  <2>6. pend' \subseteq pend
    BY <1>4, <2>1 DEF Pend
  <2>7. Cardinality(pend') <= Cardinality(pend)
    BY <2>3, <2>6, Smaller
  <2>8. CASE now <= t + Window[pol]
    <3>1. over \subseteq windows
      <4>1. \A e \in over : e \in written /\ e.at \in Nat /\ e.at >= t
        BY <2>2 DEF Over, Passed
      <4>2. \A e \in over : e.at >= now - Window[pol]
        BY <2>2, <2>8, <4>1
      <4>. QED  BY <4>1, <4>2 DEF OvershootInv, Remembered
    <3>2. Cardinality(over') + Cardinality(rec') <= MaxWrites[pol] + N - 1
      <4>1. Cardinality(over) <= MaxWrites[pol] - 1
        BY <3>1, <2>5
      <4>. HIDE DEF over, rec
      <4>. QED  BY <1>3, <2>2, <2>3, <2>4, <4>1
    <3>. QED  BY <1>1, <2>8, <3>2 DEF Counted
  <2>9. CASE ~(now <= t + Window[pol])
    <3>1. Cardinality(over') + Cardinality(pend') <= MaxWrites[pol] + 2 * (N - 1)
      <4>1. CASE Cardinality(over) + Cardinality(pend) <= MaxWrites[pol] + 2 * (N - 1)
        <5>. HIDE DEF over, pend
        <5>. QED  BY <1>3, <2>2, <2>3, <2>4, <2>7, <4>1
      <4>2. CASE over \subseteq windows
        <5>1. Cardinality(over) <= MaxWrites[pol] - 1
          BY <4>2, <2>5
        <5>. HIDE DEF over, pend
        <5>. QED  BY <1>3, <2>2, <2>3, <2>4, <5>1
      <4>. QED  BY <1>2, <2>9, <4>1, <4>2 DEF Counted
    <3>. QED  BY <1>1, <2>9, <3>1 DEF Counted
  <2>. QED  BY <2>8, <2>9
<1>. QED  BY <1>5, <1>6

\* Recording turns a goroutine that was allowed for into an entry.
LEMMA RecordCounted ==
  ASSUME RulesInv, RulesInv', NEW pol \in RatePolicies, RatePolicies = {pol},
         OvershootInv(pol), NEW p \in Procs, Record(p),
         NEW k \in Keys, NEW t \in Times
  PROVE  Counted(pol, k, t)'
<1>. DEFINE over == Over(pol, k, t)  rec == Recording(pol, k, t)
            wait == Waiting(pol, k, t)  pend == Pend(pol, k, t)
            e == NewEntry(pol, req[p].key, clk[p])
<1>1. /\ pc[p] = "record" /\ Policy(p) = pol
      /\ windows' = windows \cup {e} /\ written' = written \cup {e}
      /\ UNCHANGED <<now, req, list, clk>>
  BY DEF Record, Verdict, Goto, RulesInv, TypeOK
<1>2. Counted(pol, k, t)
  BY DEF OvershootInv
<1>3. e \notin written /\ e.by = pol /\ e.key = req[p].key /\ e.at = clk[p]
  BY Fresh DEF OvershootInv, NewEntry
<1>4. /\ pc'[p] \in {"eval", "done"}
      /\ pc'[p] = "eval" => idx'[p] = idx[p] + 1
      /\ \A q \in Procs : q # p => pc'[q] = pc[q] /\ idx'[q] = idx[q]
      /\ idx[p] \in Nat \ {0} /\ list[p][idx[p]] = pol
  BY <1>1 DEF Record, Verdict, Goto, RulesInv, TypeOK, Policy
<1>5. p \notin wait'
  <2>1. ASSUME pc'[p] = "eval" PROVE idx[p] \in 1..(idx'[p] - 1)
    BY <1>4, <2>1
  <2>. QED  BY <1>1, <1>4, <2>1 DEF Waiting
<1>6. wait' \subseteq wait /\ rec' \subseteq rec \ {p}
  <2>1. ASSUME NEW q \in wait' PROVE q \in wait
    <3>1. q \in Procs /\ q # p
      BY <1>5 DEF Waiting
    <3>. QED  BY <1>1, <1>4, <3>1 DEF Waiting, InWindow
  <2>2. ASSUME NEW q \in rec' PROVE q \in rec \ {p}
    BY <1>1, <1>4 DEF Recording, InWindow
  <2>. QED  BY <2>1, <2>2
<1>7. p \notin wait
  BY <1>1 DEF Waiting
<1>. HIDE DEF e
<1>8. CASE ~InWindow(pol, k, t, p)
  <2>1. over' = over
    BY <1>1, <1>3, <1>8 DEF Over, Passed, InWindow
  <2>. HIDE DEF over, rec, wait
  <2>2. wait' # Procs
    BY <1>5
  <2>. QED  BY <1>1, <1>2, <1>6, <2>1, <2>2, Quiet DEF over, rec, wait
<1>9. CASE InWindow(pol, k, t, p)
  <2>1. over' = over \cup {e} /\ e \notin over
    BY <1>1, <1>3, <1>9 DEF Over, Passed, InWindow
  <2>2. p \in rec /\ rec' \subseteq rec /\ p \notin rec'
    BY <1>1, <1>6, <1>9 DEF Recording
  <2>3. /\ IsFiniteSet(over) /\ Cardinality(over) \in Nat
        /\ IsFiniteSet(rec) /\ Cardinality(rec) \in 0..N
        /\ IsFiniteSet(pend) /\ Cardinality(pend) \in 0..N
    BY Sizes DEF RulesInv
  <2>4. /\ N \in Nat /\ N >= 1
        /\ MaxWrites[pol] \in Nat \ {0} /\ Window[pol] \in Nat \ {0}
        /\ now \in Nat /\ t \in Nat
    BY Goroutines, Parts, RulesAssumption DEF RulesInv, TypeOK, Times
  <2>5. Cardinality(over') = Cardinality(over) + 1
    BY <2>1, <2>3, FS_AddElement
  <2>6. Cardinality(rec') <= Cardinality(rec) - 1 /\ Cardinality(rec') \in Nat
    BY <2>2, <2>3, SmallerByOne, Smaller
  <2>7. pend' \subseteq pend /\ p \in pend /\ p \notin pend'
    BY <1>5, <1>6, <2>2 DEF Pend
  <2>8. Cardinality(pend') <= Cardinality(pend) - 1 /\ Cardinality(pend') \in Nat
    BY <2>3, <2>7, SmallerByOne, Smaller
  <2>9. CASE now <= t + Window[pol]
    <3>1. Cardinality(over) + Cardinality(rec) <= MaxWrites[pol] + N - 1
      BY <1>2, <2>9 DEF Counted
    <3>2. Cardinality(over') + Cardinality(rec') <= MaxWrites[pol] + N - 1
      <4>. HIDE DEF over, rec
      <4>. QED  BY <2>3, <2>4, <2>5, <2>6, <3>1
    <3>. QED  BY <1>1, <2>9, <3>2 DEF Counted
  <2>10. CASE ~(now <= t + Window[pol])
    <3>1. Cardinality(over) + Cardinality(pend) <= MaxWrites[pol] + 2 * (N - 1)
      BY <1>2, <1>7, <2>10 DEF Counted
    <3>2. Cardinality(over') + Cardinality(pend') <= MaxWrites[pol] + 2 * (N - 1)
      <4>. HIDE DEF over, pend
      <4>. QED  BY <2>3, <2>4, <2>5, <2>8, <3>1
    <3>. QED  BY <1>1, <2>10, <3>2 DEF Counted
  <2>. QED  BY <2>9, <2>10
<1>. QED  BY <1>8, <1>9

\* Time passes: when the window closes, the goroutines that may still add to
\* it are not all N, or nobody has dropped any of its entries.
LEMMA TickCounted ==
  ASSUME RulesInv, RulesInv', NEW pol \in RatePolicies, OvershootInv(pol), Tick,
         NEW k \in Keys, NEW t \in Times
  PROVE  Counted(pol, k, t)'
<1>. DEFINE over == Over(pol, k, t)  rec == Recording(pol, k, t)
            wait == Waiting(pol, k, t)  pend == Pend(pol, k, t)
<1>1. now' = now + 1 /\ UNCHANGED <<windows, locals, written>>
  BY DEF Tick
<1>2. over' = over /\ rec' = rec /\ wait' = wait /\ pend' = pend
  BY <1>1 DEF locals, Over, Passed, Recording, Waiting, Pend, InWindow
<1>3. Counted(pol, k, t)
  BY DEF OvershootInv
<1>4. /\ Cardinality(over) \in Nat
      /\ IsFiniteSet(rec) /\ Cardinality(rec) \in 0..N
      /\ IsFiniteSet(pend) /\ Cardinality(pend) \in 0..N
      /\ wait = Procs => rec = {}
  BY Sizes DEF RulesInv
<1>5. /\ N \in Nat /\ N >= 1 /\ IsFiniteSet(Procs) /\ Cardinality(Procs) = N
      /\ MaxWrites[pol] \in Nat \ {0} /\ Window[pol] \in Nat \ {0}
      /\ now \in Nat /\ t \in Nat
  BY Goroutines, Parts, RulesAssumption DEF N, RulesInv, TypeOK, Times
<1>6. CASE now + 1 <= t + Window[pol]
  <2>1. now <= t + Window[pol] /\ now' <= t + Window[pol]
    BY <1>1, <1>5, <1>6
  <2>2. Cardinality(over') + Cardinality(rec') <= MaxWrites[pol] + N - 1
    BY <1>2, <1>3, <2>1 DEF Counted
  <2>. QED  BY <2>1, <2>2 DEF Counted
<1>7. CASE now = t + Window[pol]
  <2>1. ~(now' <= t + Window[pol])
    BY <1>1, <1>5, <1>7
  <2>2. Cardinality(over) + Cardinality(rec) <= MaxWrites[pol] + N - 1
    BY <1>3, <1>5, <1>7 DEF Counted
  <2>3. CASE wait = Procs
    <3>1. over \subseteq windows
      <4>1. \A e \in over : e \in written /\ e.at \in Nat /\ e.at >= t
        BY <1>5 DEF Over, Passed
      <4>2. \A e \in over : e.at >= now - Window[pol]
        BY <1>5, <1>7, <4>1
      <4>. QED  BY <4>1, <4>2 DEF OvershootInv, Remembered
    <3>2. Cardinality(over) <= MaxWrites[pol] + N - 1
      <4>. HIDE DEF over, rec
      <4>. QED  BY <1>4, <1>5, <2>2
    <3>3. /\ wait' = Procs /\ Cardinality(over') <= MaxWrites[pol] + N - 1
          /\ over' \subseteq windows'
      BY <1>1, <1>2, <2>3, <3>1, <3>2
    <3>. QED  BY <2>1, <3>3 DEF Counted
  <2>4. CASE wait # Procs
    <3>1. wait \subseteq Procs
      BY DEF Waiting
    <3>2. PICK x \in Procs : x \notin wait
      BY <2>4, <3>1
    <3>3. IsFiniteSet(wait) /\ Cardinality(wait) \in Nat /\ Cardinality(wait) <= N - 1
      BY <1>5, <3>1, <3>2, Smaller, SmallerByOne
    <3>4. Cardinality(pend) <= Cardinality(rec) + Cardinality(wait)
      <4>1. /\ Cardinality(rec \cup wait) = Cardinality(rec) + Cardinality(wait)
                                              - Cardinality(rec \cap wait)
        BY <1>4, <3>3, FS_Union
      <4>2. Cardinality(rec \cap wait) \in Nat
        BY <1>4, Smaller
      <4>3. pend = rec \cup wait
        BY DEF Pend
      <4>. HIDE DEF rec, wait, pend
      <4>. QED  BY <1>4, <3>3, <4>1, <4>2, <4>3
    <3>5. Cardinality(over) + Cardinality(pend) <= MaxWrites[pol] + 2 * (N - 1)
      <4>. HIDE DEF over, rec, wait, pend
      <4>. QED  BY <1>4, <1>5, <2>2, <3>3, <3>4
    <3>6. Cardinality(over') + Cardinality(pend') <= MaxWrites[pol] + 2 * (N - 1)
      BY <1>2, <3>5
    <3>. QED  BY <2>1, <3>6 DEF Counted
  <2>. QED  BY <2>3, <2>4
<1>8. CASE now > t + Window[pol]
  <2>1. ~(now <= t + Window[pol]) /\ ~(now' <= t + Window[pol])
    BY <1>1, <1>5, <1>8
  <2>2. \/ Cardinality(over) + Cardinality(pend) <= MaxWrites[pol] + 2 * (N - 1)
        \/ /\ wait = Procs
           /\ Cardinality(over) <= MaxWrites[pol] + N - 1
           /\ over \subseteq windows
    BY <1>3, <2>1 DEF Counted
  <2>3. \/ Cardinality(over') + Cardinality(pend') <= MaxWrites[pol] + 2 * (N - 1)
        \/ /\ wait' = Procs
           /\ Cardinality(over') <= MaxWrites[pol] + N - 1
           /\ over' \subseteq windows'
    BY <1>1, <1>2, <2>2
  <2>. QED  BY <2>1, <2>3 DEF Counted
<1>. QED  BY <1>5, <1>6, <1>7, <1>8

\* Entries of one time stay numbered from one.
LEMMA NumberedKept ==
  ASSUME RulesInv, RulesInv', Numbered, [Next]_vars
  PROVE  Numbered'
<1>1. ASSUME NEW p \in Procs, Record(p) PROVE Numbered'
  <2>0. PICK pol, k, t, n : /\ pol = Policy(p) /\ k = req[p].key /\ t = clk[p]
                            /\ n = NewEntry(pol, k, t)
    OBVIOUS
  <2>1. written' = written \cup {n}
    BY <1>1, <2>0 DEF Record
  <2>2. n \notin written
    BY <2>0, Fresh
  <2>3. n.by = pol /\ n.key = k /\ n.at = t /\ n.no = Cardinality(Alike(pol, k, t)) + 1
    BY <2>0 DEF NewEntry
  <2>4. ASSUME NEW e \in written PROVE e.no <= Cardinality(Alike(e.by, e.key, e.at)')
    <3>1. /\ Alike(e.by, e.key, e.at) \subseteq Alike(e.by, e.key, e.at)'
          /\ Alike(e.by, e.key, e.at)' \subseteq written'
      BY <2>1 DEF Alike
    <3>2. /\ Cardinality(Alike(e.by, e.key, e.at)) \in Nat
          /\ Cardinality(Alike(e.by, e.key, e.at)') \in Nat
          /\ Cardinality(Alike(e.by, e.key, e.at)) <= Cardinality(Alike(e.by, e.key, e.at)')
      BY <3>1, Smaller DEF RulesInv
    <3>3. e.no <= Cardinality(Alike(e.by, e.key, e.at)) /\ e.no \in Nat
      BY DEF Numbered, RulesInv, TypeOK, Entries
    <3>. QED  BY <3>2, <3>3
  <2>5. n.no <= Cardinality(Alike(n.by, n.key, n.at)')
    <3>1. Alike(pol, k, t)' = Alike(pol, k, t) \cup {n} /\ n \notin Alike(pol, k, t)
      BY <2>1, <2>2, <2>3 DEF Alike
    <3>2. Alike(pol, k, t) \subseteq written
      BY DEF Alike
    <3>3. IsFiniteSet(Alike(pol, k, t)) /\ Cardinality(Alike(pol, k, t)) \in Nat
      BY <3>2, Smaller DEF RulesInv
    <3>4. Cardinality(Alike(pol, k, t)') = Cardinality(Alike(pol, k, t)) + 1
      BY <3>1, <3>3, FS_AddElement
    <3>. QED  BY <2>3, <3>3, <3>4
  <2>. QED  BY <2>1, <2>4, <2>5 DEF Numbered, Alike
<1>2. CASE UNCHANGED written
  BY <1>2 DEF Numbered, Alike
<1>. QED
  BY <1>1, <1>2 DEF Next, Step, Evaluate, Begin, EvaluateLocal, CountInWindow, Return, Tick, vars

\* The only rate_of_change policy drops no entry of the window that ends now.
LEMMA RememberedKept ==
  ASSUME RulesInv, RulesInv', NEW pol \in RatePolicies, RatePolicies = {pol},
         Remembered(pol), [Next]_vars
  PROVE  Remembered(pol)'
<1>0. /\ now \in Nat /\ Window[pol] \in Nat
      /\ \A e \in written : e.at \in Nat
  BY Parts, RulesAssumption DEF RulesInv, TypeOK, Times, Entries
<1>1. ASSUME NEW p \in Procs, CountInWindow(p) PROVE Remembered(pol)'
  <2>1. /\ windows' = Kept(req[p].key, clk[p] - Window[pol])
        /\ UNCHANGED <<now, written>>
    BY <1>1 DEF CountInWindow
  <2>2. clk[p] \in Nat /\ clk[p] <= now
    BY DEF RulesInv, TypeOK, Times
  <2>3. \A e \in written : e.at >= now - Window[pol] => e.at >= clk[p] - Window[pol]
    BY <1>0, <2>2
  <2>. QED  BY <2>1, <2>3 DEF Remembered, Kept
<1>2. ASSUME NEW p \in Procs, Record(p) PROVE Remembered(pol)'
  <2>. DEFINE n == NewEntry(Policy(p), req[p].key, clk[p])
  <2>1. windows' = windows \cup {n} /\ written' = written \cup {n} /\ now' = now
    BY <1>2 DEF Record
  <2>. HIDE DEF n
  <2>. QED  BY <2>1 DEF Remembered
<1>3. CASE Tick
  <2>1. now' = now + 1 /\ UNCHANGED <<windows, written>>
    BY <1>3 DEF Tick
  <2>2. \A e \in written : e.at >= now + 1 - Window[pol] => e.at >= now - Window[pol]
    BY <1>0
  <2>. QED  BY <1>0, <2>1, <2>2 DEF Remembered
<1>4. CASE UNCHANGED <<now, windows, written>>
  BY <1>4 DEF Remembered
<1>. QED
  BY <1>1, <1>2, <1>3, <1>4 DEF Next, Step, Evaluate, Begin, EvaluateLocal, Return, vars

\* The bound is kept by every step.
LEMMA CountedKept ==
  ASSUME RulesInv, RulesInv', NEW pol \in RatePolicies, RatePolicies = {pol},
         OvershootInv(pol), [Next]_vars, NEW k \in Keys, NEW t \in Times
  PROVE  Counted(pol, k, t)'
<1>. DEFINE over == Over(pol, k, t)  rec == Recording(pol, k, t)  wait == Waiting(pol, k, t)
<1>0. /\ Counted(pol, k, t)
      /\ now \in Nat /\ t \in Nat /\ Window[pol] \in Nat
  BY Parts, RulesAssumption DEF OvershootInv, RulesInv, TypeOK, Times
<1>1. ASSUME NEW p \in Procs, NEW r \in Requests, NEW policies_ \in Lists,
             Begin(p, r, policies_)
      PROVE  Counted(pol, k, t)'
  <2>1. UNCHANGED <<now, windows, written, idx>>
    BY <1>1 DEF Begin
  <2>2. /\ pc'[p] \in {"done", "eval"}
        /\ pc'[p] = "eval" => clk'[p] = now
        /\ \A q \in Procs : q # p => /\ pc'[q] = pc[q] /\ req'[q] = req[q]
                                     /\ list'[q] = list[q] /\ clk'[q] = clk[q]
    BY <1>1 DEF Begin, Goto, RulesInv, TypeOK
  <2>3. over' = over
    BY <2>1 DEF Over, Passed
  <2>4. rec' \subseteq rec
    BY <2>2 DEF Recording, InWindow
  <2>5. ASSUME now > t + Window[pol] PROVE wait' \subseteq wait
    <3>1. p \notin wait'
      BY <1>0, <2>2, <2>5 DEF Waiting, InWindow
    <3>2. \A q \in Procs : q # p /\ q \in wait' => q \in wait
      BY <2>1, <2>2 DEF Waiting, InWindow
    <3>. QED  BY <3>1, <3>2 DEF Waiting
  <2>. HIDE DEF over, rec, wait
  <2>. QED  BY <1>0, <2>1, <2>3, <2>4, <2>5, Quiet DEF over, rec, wait
<1>2. ASSUME NEW p \in Procs, EvaluateLocal(p) PROVE Counted(pol, k, t)'
  <2>1. UNCHANGED <<now, windows, written, req, list, clk>> /\ pc[p] = "eval"
    BY <1>2 DEF EvaluateLocal
  <2>2. /\ pc'[p] \in {"done", "eval"}
        /\ idx'[p] \in {idx[p], idx[p] + 1}
        /\ idx[p] \in Nat \ {0}
        /\ \A q \in Procs : q # p => pc'[q] = pc[q] /\ idx'[q] = idx[q]
    BY <1>2 DEF EvaluateLocal, Verdict, Goto, RulesInv, TypeOK
  <2>3. over' = over
    BY <2>1 DEF Over, Passed
  <2>4. rec' \subseteq rec
    BY <2>1, <2>2 DEF Recording, InWindow
  <2>5. wait' \subseteq wait
    <3>1. 1..(idx[p] - 1) \subseteq 1..(idx'[p] - 1)
      BY <2>2
    <3>2. p \in wait' => p \in wait
      BY <2>1, <3>1 DEF Waiting, InWindow
    <3>3. \A q \in Procs : q # p /\ q \in wait' => q \in wait
      BY <2>1, <2>2 DEF Waiting, InWindow
    <3>. QED  BY <3>2, <3>3 DEF Waiting
  <2>. HIDE DEF over, rec, wait
  <2>. QED  BY <1>0, <2>1, <2>3, <2>4, <2>5, Quiet DEF over, rec, wait
<1>3. ASSUME NEW p \in Procs, CountInWindow(p) PROVE Counted(pol, k, t)'
  <2>. DEFINE count == Cardinality(EntriesOf(req[p].key, Kept(req[p].key, clk[p] - Window[pol])))
  <2>1. /\ UNCHANGED <<now, written, req, list, clk>> /\ pc[p] = "eval"
        /\ Policy(p) = pol
        /\ IF Reached(pol, count)
             THEN Verdict(p, "eval", TRUE)
             ELSE Goto(p, "eval", "record") /\ UNCHANGED <<idx, denied>>
    BY <1>3 DEF CountInWindow
  <2>2. CASE ~Reached(pol, count)
    BY <1>3, <2>1, <2>2, CountPasses
  <2>3. CASE Reached(pol, count)
    <3>1. pc'[p] = "done" /\ UNCHANGED idx
          /\ \A q \in Procs : q # p => pc'[q] = pc[q]
      BY <2>1, <2>3 DEF Verdict, Goto, RulesInv, TypeOK
    <3>2. over' = over
      BY <2>1 DEF Over, Passed
    <3>3. rec' \subseteq rec /\ wait' \subseteq wait /\ p \notin wait'
      BY <2>1, <3>1 DEF Recording, Waiting, InWindow
    <3>. HIDE DEF over, rec, wait
    <3>4. wait' # Procs
      BY <3>3
    <3>. QED  BY <1>0, <2>1, <3>2, <3>3, <3>4, Quiet DEF over, rec, wait
  <2>. QED  BY <2>2, <2>3
<1>4. ASSUME NEW p \in Procs, Record(p) PROVE Counted(pol, k, t)'
  BY <1>4, RecordCounted
<1>5. ASSUME NEW p \in Procs, Return(p) PROVE Counted(pol, k, t)'
  <2>1. UNCHANGED <<now, windows, written>>
    BY <1>5 DEF Return
  <2>2. /\ pc'[p] = "idle"
        /\ \A q \in Procs : q # p => /\ pc'[q] = pc[q] /\ req'[q] = req[q] /\ idx'[q] = idx[q]
                                     /\ list'[q] = list[q] /\ clk'[q] = clk[q]
    BY <1>5 DEF Return, Goto, RulesInv, TypeOK
  <2>3. over' = over /\ rec' \subseteq rec /\ wait' \subseteq wait
    BY <2>1, <2>2 DEF Over, Passed, Recording, Waiting, InWindow
  <2>. HIDE DEF over, rec, wait
  <2>. QED  BY <1>0, <2>1, <2>3, Quiet DEF over, rec, wait
<1>6. CASE Tick
  BY <1>6, TickCounted
<1>7. CASE UNCHANGED vars
  <2>1. UNCHANGED <<now, windows, written>> /\ over' = over /\ rec' = rec /\ wait' = wait
    BY <1>7 DEF vars, locals, Over, Passed, Recording, Waiting, InWindow
  <2>. HIDE DEF over, rec, wait
  <2>. QED  BY <1>0, <2>1, Quiet DEF over, rec, wait
<1>. QED
  BY <1>1, <1>2, <1>3, <1>4, <1>5, <1>6, <1>7 DEF Next, Step, Evaluate

\* At first nothing is recorded and nobody is about to.
LEMMA OvershootInit ==
  ASSUME NEW pol \in RatePolicies, Init
  PROVE  OvershootInv(pol)
<1>1. written = {} /\ windows = {} /\ now = 0 /\ \A p \in Procs : pc[p] = "idle"
  BY DEF Init
<1>2. ASSUME NEW k \in Keys, NEW t \in Times PROVE Counted(pol, k, t)
  <2>1. Over(pol, k, t) = {} /\ Recording(pol, k, t) = {}
    BY <1>1 DEF Over, Passed, Recording
  <2>2. Cardinality({}) = 0
    BY FS_EmptySet
  <2>3. /\ N \in Nat /\ N >= 1 /\ MaxWrites[pol] \in Nat \ {0}
        /\ Window[pol] \in Nat /\ t \in Nat
    BY Goroutines, Parts, RulesAssumption DEF Times
  <2>. QED  BY <1>1, <2>1, <2>2, <2>3 DEF Counted
<1>. QED  BY <1>1, <1>2 DEF OvershootInv, Numbered, Remembered

\* What the invariant says about one window, open or closed.
LEMMA CountedBound ==
  ASSUME RulesInv, NEW pol \in RatePolicies, NEW k \in Keys, NEW t \in Times,
         Counted(pol, k, t)
  PROVE  Cardinality(Over(pol, k, t)) <= MaxWrites[pol] + 2 * (N - 1)
<1>1. /\ Cardinality(Over(pol, k, t)) \in Nat
      /\ Cardinality(Recording(pol, k, t)) \in 0..N
      /\ Cardinality(Pend(pol, k, t)) \in 0..N
  BY Sizes DEF RulesInv
<1>2. N \in Nat /\ N >= 1 /\ MaxWrites[pol] \in Nat
  BY Goroutines, Parts
<1>. QED  BY <1>1, <1>2 DEF Counted

\* For the only rate_of_change policy there is.
Only == \A pol \in RatePolicies : RatePolicies = {pol} => OvershootInv(pol)

LEMMA OnlyInductive == RulesInv /\ RulesInv' /\ Only /\ [Next]_vars => Only'
<1>. SUFFICES ASSUME RulesInv, RulesInv', Only, [Next]_vars,
                     NEW pol \in RatePolicies, RatePolicies = {pol}
              PROVE  OvershootInv(pol)'
  BY DEF Only
<1>1. OvershootInv(pol)
  BY DEF Only
<1>2. Numbered'
  BY <1>1, NumberedKept DEF OvershootInv
<1>3. Remembered(pol)'
  BY <1>1, RememberedKept DEF OvershootInv
<1>4. \A k \in Keys, t \in Times : Counted(pol, k, t)'
  BY <1>1, CountedKept
<1>. QED  BY <1>2, <1>3, <1>4 DEF OvershootInv

\* However many requests are judged at once, a rate_of_change policy that is
\* alone of its type lets pass at most two writes more than its limit for each
\* other goroutine.
THEOREM OvershootBounded == Spec => []OvershootBound
<1>1. Init => Only
  BY OvershootInit DEF Only
<1>2. RulesInv /\ Only => OvershootBound
  BY CountedBound DEF Only, OvershootInv, OvershootBound, Over, N
<1>. QED  BY <1>1, <1>2, OnlyInductive, RulesInvariant, PTL DEF Spec

\* Requests that come one at a time keep to the limit.
THEOREM LimitKeptInSequence ==
  ASSUME NEW pol \in RatePolicies, RatePolicies = {pol}, N = 1
  PROVE  Spec => []LimitKept
<1>1. OvershootBound => LimitKept
  BY Parts DEF OvershootBound, LimitKept, N
<1>. QED  BY <1>1, OvershootBounded, PTL

---------------------------------------------------------------------------
(* The cache of policies: the invariant.                                   *)

USE RulesAssumption, CacheAssumption DEF Cache!tableVars, Cache!engineVars,
    Cache!localVars, Cache!Times, Times, Cache!Goto

\* No clock that was read is ahead, and history ends now.
Clocks ==
    /\ lastLoad <= now
    /\ \A p \in Procs : since[p] <= now /\ asked[p] <= now
    /\ \A t \in Times : t > now => seen[t] = {}
    /\ enabled \in seen[now]

\* The cached list was the table's no earlier than the slowest load before
\* lastLoad; before the first store there is none.
CachedList ==
    IF loaded THEN \E t \in Times : lastLoad - t <= slowest /\ policies \in seen[t]
              ELSE policies = {}

\* A list about to be stored was the table's when its query was answered.
Pending ==
    \A p \in Procs :
        /\ loadPc[p] = "store" => since[p] <= asked[p] /\ loadList[p] \in seen[asked[p]]
        /\ loadPc[p] \in {"idle", "query", "store"} => ~failed[p]
        /\ warm[p] => loaded

CacheInv ==
    /\ Cache!TypeOK
    /\ Clocks
    /\ CachedList
    /\ Pending
    /\ Cache!PolicyStaleness
    /\ Cache!NeverSilentlyOpen

---------------------------------------------------------------------------
(* The cache of policies: the proofs.                                      *)

\* A gateway that starts has nothing cached, and the history holds the table.
LEMMA CacheInit ==
  ASSUME Cache!Init
  PROVE  CacheInv
<1>1. /\ now = 0 /\ 0 \in Times
      /\ seen \in [Times -> SUBSET SUBSET Policies]
      /\ \A t \in Times : t > 0 => seen[t] = {}
      /\ enabled \in seen[0]
  BY DEF Cache!Init
<1>2. Cache!TypeOK
  <2>1. failed \in [Procs -> BOOLEAN] /\ warm \in [Procs -> BOOLEAN] /\ loaded \in BOOLEAN
    BY Zenon DEF Cache!Init
  <2>2. /\ loadPc \in [Procs -> {"idle", "query", "store", "loaded"}]
        /\ loadList \in [Procs -> SUBSET Policies]
        /\ since \in [Procs -> Times]
        /\ asked \in [Procs -> Times]
    BY DEF Cache!Init
  <2>3. /\ table \in SUBSET Policies /\ enabled \in SUBSET table
        /\ edits \in 0..MaxEdits
        /\ policies \in SUBSET Policies
        /\ lastLoad \in Times /\ slowest \in Times
    BY DEF Cache!Init
  <2>. QED
    BY <1>1, <2>1, <2>2, <2>3 DEF Cache!TypeOK
<1>3. Clocks
  BY <1>1 DEF Cache!Init, Clocks
<1>. QED
  BY <1>1, <1>2, <1>3 DEF Cache!Init, CacheInv, CachedList, Pending, Cache!PolicyStaleness, Cache!NeverSilentlyOpen

\* No step takes a list out of the history.
LEMMA SeenGrows ==
  ASSUME CacheInv, [Cache!Next]_(Cache!vars)
  PROVE  \A t \in Times : seen[t] \subseteq seen'[t]
<1>. USE DEF CacheInv, Cache!TypeOK, Clocks
<1>1. ASSUME NEW p \in Procs, Cache!Step(p) PROVE UNCHANGED seen
  BY <1>1 DEF Cache!Step, Cache!Enter, Cache!Query, Cache!QueryFails, Cache!Store, Cache!Leave
<1>2. ASSUME NEW rows, NEW on, Cache!Edit(rows, on)
      PROVE  \A t \in Times : seen[t] \subseteq seen'[t]
  BY <1>2 DEF Cache!Edit
<1>3. CASE Cache!Tick
  BY <1>3 DEF Cache!Tick
<1>. QED
  BY <1>1, <1>2, <1>3 DEF Cache!Next, Cache!CreatePolicy, Cache!TogglePolicy, Cache!DeletePolicy, Cache!vars

\* A step that leaves the engine and the goroutines alone, and only adds to
\* the history, keeps every promise about lists.
LEMMA ListsKept ==
  ASSUME CacheInv, UNCHANGED <<Cache!engineVars, Cache!localVars>>, Cache!TypeOK',
         \A t \in Times : seen[t] \subseteq seen'[t]
  PROVE  CachedList' /\ Pending' /\ Cache!PolicyStaleness' /\ Cache!NeverSilentlyOpen'
<1>. USE DEF CacheInv, Cache!TypeOK
<1>1. CachedList'
  BY DEF CachedList
<1>2. Pending'
  BY DEF Pending
<1>3. Cache!PolicyStaleness'
  BY DEF Cache!PolicyStaleness
<1>4. Cache!NeverSilentlyOpen'
  BY DEF Cache!NeverSilentlyOpen
<1>. QED  BY <1>1, <1>2, <1>3, <1>4

\* loadPolicies keeps the invariant.
LEMMA CacheStep ==
  ASSUME CacheInv, NEW p \in Procs, Cache!Step(p)
  PROVE  CacheInv'
<1>. USE DEF CacheInv
<1>1. CASE Cache!Enter(p)
  <2>1. Cache!TypeOK' /\ Clocks'
    BY <1>1 DEF Cache!Enter, Cache!TypeOK, Clocks
  <2>2. CachedList' /\ Pending'
    BY <1>1 DEF Cache!Enter, Cache!TypeOK, CachedList, Pending
  <2>3. ASSUME now - lastLoad < TTL, policies # {}
        PROVE  \E t \in Times : now - t < TTL + slowest /\ policies \in seen[t]
    BY <2>3 DEF CachedList, Cache!TypeOK
  <2>4. Cache!PolicyStaleness'
    BY <1>1, <2>3 DEF Cache!Enter, Cache!TypeOK, Cache!PolicyStaleness
  <2>5. Cache!NeverSilentlyOpen'
    BY <1>1, <2>3 DEF Cache!Enter, Cache!TypeOK, Cache!NeverSilentlyOpen
  <2>. QED  BY <2>1, <2>2, <2>4, <2>5
<1>2. CASE Cache!Query(p)
  <2>1. Cache!TypeOK' /\ Clocks'
    BY <1>2 DEF Cache!Query, Cache!TypeOK, Clocks
  <2>2. CachedList' /\ Pending'
    BY <1>2 DEF Cache!Query, Cache!TypeOK, Clocks, CachedList, Pending
  <2>3. Cache!PolicyStaleness' /\ Cache!NeverSilentlyOpen'
    BY <1>2 DEF Cache!Query, Cache!TypeOK, Cache!PolicyStaleness, Cache!NeverSilentlyOpen
  <2>. QED  BY <2>1, <2>2, <2>3
<1>3. CASE Cache!QueryFails(p)
  <2>1. Cache!TypeOK' /\ Clocks'
    BY <1>3 DEF Cache!QueryFails, Cache!TypeOK, Clocks
  <2>2. CachedList' /\ Pending'
    BY <1>3 DEF Cache!QueryFails, Cache!TypeOK, CachedList, Pending
  <2>3. Cache!PolicyStaleness'
    BY <1>3 DEF Cache!QueryFails, Cache!TypeOK, Cache!PolicyStaleness
  <2>4. warm[p] => \E t \in Times : policies \in seen[t]
    BY DEF CachedList, Pending
  <2>5. Cache!NeverSilentlyOpen'
    BY <1>3, <2>4 DEF Cache!QueryFails, Cache!TypeOK, Cache!NeverSilentlyOpen
  <2>. QED  BY <2>1, <2>2, <2>3, <2>5
<1>4. CASE Cache!Store(p)
  <2>1. /\ slowest' \in Times /\ slowest <= slowest'
        /\ now - asked[p] <= slowest'
        /\ asked[p] \in Times /\ since[p] <= asked[p]
        /\ loadList[p] \in seen[asked[p]]
    BY <1>4 DEF Cache!Store, Cache!Slower, Cache!TypeOK, Clocks, Pending
  <2>2. Cache!TypeOK' /\ Clocks'
    BY <1>4, <2>1 DEF Cache!Store, Cache!TypeOK, Clocks
  <2>3. CachedList' /\ Pending'
    BY <1>4, <2>1 DEF Cache!Store, Cache!TypeOK, CachedList, Pending
  <2>4. Cache!PolicyStaleness'
    <3>. SUFFICES ASSUME NEW q \in Procs, loadPc'[q] = "loaded", ~failed[q]
                  PROVE  \E t \in Times :
                           /\ t >= since[q] \/ since[q] - t < TTL + slowest'
                           /\ loadList[q] \in seen[t]
      BY <1>4 DEF Cache!Store, Cache!PolicyStaleness
    <3>1. CASE q = p
      BY <3>1, <2>1 DEF Cache!TypeOK
    <3>2. CASE q # p
      <4>1. PICK t \in Times : /\ t >= since[q] \/ since[q] - t < TTL + slowest
                               /\ loadList[q] \in seen[t]
        BY <1>4, <3>2 DEF Cache!Store, Cache!TypeOK, Cache!PolicyStaleness
      <4>. QED  BY <4>1, <2>1 DEF Cache!TypeOK
    <3>. QED  BY <3>1, <3>2
  <2>5. Cache!NeverSilentlyOpen'
    BY <1>4, <2>1 DEF Cache!Store, Cache!TypeOK, Cache!NeverSilentlyOpen
  <2>. QED  BY <2>2, <2>3, <2>4, <2>5
<1>5. CASE Cache!Leave(p)
  <2>1. Cache!TypeOK' /\ Clocks'
    BY <1>5 DEF Cache!Leave, Cache!TypeOK, Clocks
  <2>2. CachedList' /\ Pending'
    BY <1>5 DEF Cache!Leave, Cache!TypeOK, CachedList, Pending
  <2>3. Cache!PolicyStaleness' /\ Cache!NeverSilentlyOpen'
    BY <1>5 DEF Cache!Leave, Cache!TypeOK, Cache!PolicyStaleness, Cache!NeverSilentlyOpen
  <2>. QED  BY <2>1, <2>2, <2>3
<1>. QED
  BY <1>1, <1>2, <1>3, <1>4, <1>5 DEF Cache!Step

\* CacheInv is inductive.
LEMMA CacheInductive ==
  ASSUME CacheInv, [Cache!Next]_(Cache!vars)
  PROVE  CacheInv'
<1>1. ASSUME NEW rows \in SUBSET Policies, NEW on \in SUBSET rows, Cache!Edit(rows, on)
      PROVE  CacheInv'
  <2>1. Cache!TypeOK' /\ Clocks'
    BY <1>1 DEF Cache!Edit, CacheInv, Cache!TypeOK, Clocks
  <2>. QED
    BY <1>1, <2>1, SeenGrows, ListsKept DEF Cache!Edit, CacheInv
<1>2. CASE \E pol \in Policies : Cache!CreatePolicy(pol) \/ Cache!TogglePolicy(pol) \/ Cache!DeletePolicy(pol)
  BY <1>1, <1>2 DEF Cache!CreatePolicy, Cache!TogglePolicy, Cache!DeletePolicy, CacheInv, Cache!TypeOK
<1>3. CASE Cache!Tick
  <2>1. Cache!TypeOK' /\ Clocks'
    BY <1>3 DEF Cache!Tick, CacheInv, Cache!TypeOK, Clocks
  <2>. QED
    BY <1>3, <2>1, SeenGrows, ListsKept DEF Cache!Tick, CacheInv
<1>4. CASE UNCHANGED Cache!vars
  <2>1. Cache!TypeOK' /\ Clocks'
    BY <1>4 DEF Cache!vars, CacheInv, Cache!TypeOK, Clocks
  <2>. QED
    BY <1>4, <2>1, SeenGrows, ListsKept DEF Cache!vars, CacheInv
<1>. QED
  BY CacheStep, <1>2, <1>3, <1>4 DEF Cache!Next

\* CacheInv is an invariant.
LEMMA CacheInvariant == Cache!Spec => []CacheInv
<1>1. Cache!Init => CacheInv
  BY CacheInit
<1>2. CacheInv /\ [Cache!Next]_(Cache!vars) => CacheInv'
  BY CacheInductive
<1>. QED  BY <1>1, <1>2, PTL DEF Cache!Spec

\* Type correctness: loadPolicies and the dashboard's handlers keep the
\* types, and only rows of the policies table are enabled.
THEOREM CacheTypeCorrect == Cache!Spec => []Cache!TypeOK
  BY CacheInvariant, PTL DEF CacheInv

\* The list loadPolicies returns, unless its query failed, was the table's
\* after the request entered or less than cacheTTL and the slowest load
\* before, however loads overtake each other.
THEOREM StalenessBounded == Cache!Spec => []PolicyStaleness
  BY CacheInvariant, PTL DEF CacheInv, PolicyStaleness

\* After the first stored load no request is judged by a list that was never
\* the table's, even if its query fails.
THEOREM NeverOpen == Cache!Spec => []NeverSilentlyOpen
  BY CacheInvariant, PTL DEF CacheInv, NeverSilentlyOpen

HIDE DEF Cache!tableVars, Cache!engineVars,
    Cache!localVars, Cache!Times, Times, Cache!Goto

---------------------------------------------------------------------------
(* The two together: Middleware is an implementation of each part, and a   *)
(* link between them.                                                      *)

\* What loadPolicies and the table do is no step of the loop over policies,
\* and the other way round.
LEMMA EngineSteps ==
  ASSUME [EngineNext]_engineVars
  PROVE  [Next]_vars /\ [Cache!Next]_(Cache!vars)
<1>. USE DEF engineVars, rulesVars, cacheVars, vars, Cache!vars, Cache!tableVars,
             Cache!engineVars, Cache!localVars
<1>1. ASSUME NEW p \in Procs, Load(p) PROVE [Next]_vars /\ [Cache!Next]_(Cache!vars)
  <2>1. now' = now /\ Cache!Step(p)
    BY <1>1 DEF Load, Cache!Enter, Cache!Query, Cache!QueryFails, Cache!Store, Cache!Step
  <2>. QED  BY <1>1, <2>1 DEF Load, Cache!Next
<1>2. ASSUME NEW p \in Procs, Judge(p) PROVE [Next]_vars /\ [Cache!Next]_(Cache!vars)
  <2>1. now' = now /\ Step(p)
    BY <1>2 DEF Judge, Begin, Step
  <2>. QED  BY <1>2, <2>1 DEF Judge, Next
<1>3. ASSUME NEW p \in Procs, Loop(p) PROVE [Next]_vars /\ [Cache!Next]_(Cache!vars)
  <2>1. now' = now /\ Step(p)
    BY <1>3 DEF Loop, Evaluate, EvaluateLocal, CountInWindow, Record, Step
  <2>. QED  BY <1>3, <2>1 DEF Loop, Evaluate, Next
<1>4. ASSUME NEW p \in Procs, Leave(p) PROVE [Next]_vars /\ [Cache!Next]_(Cache!vars)
  BY <1>4 DEF Leave, Step, Next, Cache!Step, Cache!Next
<1>5. CASE EditTable
  <2>1. now' = now
    BY <1>5 DEF EditTable, Cache!CreatePolicy, Cache!TogglePolicy, Cache!DeletePolicy,
                Cache!Edit
  <2>. QED  BY <1>5, <2>1 DEF EditTable, Cache!Next
<1>6. CASE PassTime
  BY <1>6 DEF PassTime, Next, Cache!Next
<1>7. CASE UNCHANGED engineVars
  BY <1>7
<1>. QED  BY <1>1, <1>2, <1>3, <1>4, <1>5, <1>6, <1>7 DEF EngineNext

\* Every behaviour of Middleware judges requests the way PolicyRules says, so
\* its theorems hold of lists that come from the cache.
THEOREM EngineJudges == EngineSpec => Spec
<1>1. EngineInit => Init
  BY DEF EngineInit
<1>. QED  BY <1>1, EngineSteps, PTL DEF EngineSpec, Spec

\* Every behaviour of Middleware uses the cache the way PolicyCache says.
THEOREM EngineLoads == EngineSpec => Cache!Spec
<1>1. EngineInit => Cache!Init
  BY DEF EngineInit
<1>. QED  BY <1>1, EngineSteps, PTL DEF EngineSpec, Cache!Spec

\* All that is promised of the parts holds of the whole engine.
THEOREM EngineKeepsPromises ==
  EngineSpec => [](/\ TypeOK /\ Cache!TypeOK
                   /\ PassesMeansAllowed /\ OvershootBound
                   /\ PolicyStaleness /\ NeverSilentlyOpen)
  BY EngineJudges, EngineLoads, TypeCorrect, CacheTypeCorrect, PassesAllowed,
     OvershootBounded, StalenessBounded, NeverOpen, PTL

\* A request is judged by the list that loadPolicies returned to it.
Linked ==
    \A p \in Procs : pc[p] # "idle" => loadPc[p] = "loaded" /\ Range(list[p]) = loadList[p]

LEMMA LinkedInductive ==
  ASSUME RulesInv, CacheInv, Linked, [EngineNext]_engineVars
  PROVE  Linked'
<1>0. /\ pc \in [Procs -> {"idle", "eval", "record", "done"}]
      /\ list \in [Procs -> Seq(Policies)]
      /\ loadPc \in [Procs -> {"idle", "query", "store", "loaded"}]
      /\ loadList \in [Procs -> SUBSET Policies]
  BY DEF RulesInv, TypeOK, CacheInv, Cache!TypeOK
<1>1. ASSUME NEW p \in Procs, Load(p) PROVE Linked'
  <2>1. /\ pc' = pc /\ list' = list /\ loadPc[p] # "loaded"
        /\ \A q \in Procs : q # p => loadPc'[q] = loadPc[q] /\ loadList'[q] = loadList[q]
    BY <1>0, <1>1 DEF Load, rulesVars, locals, Cache!Enter, Cache!Query,
                      Cache!QueryFails, Cache!Store, Cache!Goto
  <2>. QED  BY <2>1 DEF Linked
<1>2. ASSUME NEW p \in Procs, Judge(p) PROVE Linked'
  <2>1. PICK r \in Requests, l \in Lists : Range(l) = loadList[p] /\ Begin(p, r, l)
    BY <1>2 DEF Judge
  <2>2. /\ list'[p] = l
        /\ \A q \in Procs : q # p => pc'[q] = pc[q] /\ list'[q] = list[q]
    BY <1>0, <2>1 DEF Begin, Goto
  <2>3. loadPc[p] = "loaded" /\ UNCHANGED <<loadPc, loadList>>
    BY <1>2 DEF Judge, cacheVars
  <2>. QED  BY <2>1, <2>2, <2>3 DEF Linked
<1>3. ASSUME NEW p \in Procs, Loop(p) PROVE Linked'
  <2>1. /\ pc[p] # "idle"
        /\ \A q \in Procs : q # p => pc'[q] = pc[q]
    BY <1>0, <1>3 DEF Loop, Evaluate, EvaluateLocal, CountInWindow, Record, Verdict, Goto
  <2>2. UNCHANGED <<list, loadPc, loadList>>
    BY <1>3 DEF Loop, Evaluate, EvaluateLocal, CountInWindow, Record, cacheVars
  <2>. QED  BY <2>1, <2>2 DEF Linked
<1>4. ASSUME NEW p \in Procs, Leave(p) PROVE Linked'
  <2>1. /\ pc'[p] = "idle"
        /\ \A q \in Procs : q # p => /\ pc'[q] = pc[q] /\ list'[q] = list[q]
                                     /\ loadPc'[q] = loadPc[q] /\ loadList'[q] = loadList[q]
    BY <1>0, <1>4 DEF Leave, Return, Goto, Cache!Leave, Cache!Goto
  <2>. QED  BY <2>1 DEF Linked
<1>5. CASE EditTable
  <2>1. UNCHANGED <<pc, list, loadPc, loadList>>
    BY <1>5 DEF EditTable, rulesVars, locals, Cache!CreatePolicy, Cache!TogglePolicy,
                Cache!DeletePolicy, Cache!Edit, Cache!localVars
  <2>. QED  BY <2>1 DEF Linked
<1>6. CASE PassTime
  <2>1. UNCHANGED <<pc, list, loadPc, loadList>>
    BY <1>6 DEF PassTime, Tick, locals, Cache!Tick, Cache!localVars
  <2>. QED  BY <2>1 DEF Linked
<1>7. CASE UNCHANGED engineVars
  BY <1>7 DEF engineVars, rulesVars, cacheVars, locals, Linked
<1>. QED  BY <1>1, <1>2, <1>3, <1>4, <1>5, <1>6, <1>7 DEF EngineNext

\* End to end: a request that passes, and whose load did not fail, was
\* forbidden by none of the policies enabled together at a time less than
\* cacheTTL and the slowest load before it entered, or later.
THEOREM RecentPoliciesObeyed == EngineSpec => []JudgedByRecent
<1>1. EngineInit => Linked
  BY DEF EngineInit, Init, Linked
<1>2. RulesInv /\ CacheInv /\ Linked /\ [EngineNext]_engineVars => Linked'
  BY LinkedInductive
<1>3. RulesInv /\ CacheInv /\ Linked /\ PassesMeansAllowed => JudgedByRecent
  <2>. SUFFICES ASSUME RulesInv, CacheInv, Linked, PassesMeansAllowed,
                       NEW p \in Procs, pc[p] = "done", ~denied[p], ~failed[p]
                PROVE  \E t \in Times :
                         /\ t >= since[p] \/ since[p] - t < TTL + slowest
                         /\ \E on \in seen[t] : \A pol \in on : ~Forbidden(pol, req[p], clk[p])
    BY DEF JudgedByRecent
  <2>1. loadPc[p] = "loaded" /\ Range(list[p]) = loadList[p]
    BY DEF Linked
  <2>2. PICK t \in Times : /\ t >= since[p] \/ since[p] - t < TTL + slowest
                           /\ loadList[p] \in seen[t]
    BY <2>1 DEF CacheInv, Cache!PolicyStaleness, Cache!Times, Times
  <2>3. ASSUME NEW pol \in loadList[p] PROVE ~Forbidden(pol, req[p], clk[p])
    <3>1. list[p] \in Seq(Policies) /\ DOMAIN list[p] = 1..Len(list[p])
      BY DEF RulesInv, TypeOK
    <3>2. PICK i \in 1..Len(list[p]) : pol = list[p][i]
      BY <2>1, <3>1 DEF Range
    <3>. QED  BY <3>2 DEF PassesMeansAllowed
  <2>. QED  BY <2>2, <2>3
<1>. QED
  BY <1>1, <1>2, <1>3, EngineJudges, EngineLoads, RulesInvariant, CacheInvariant,
     PassesAllowed, PTL DEF EngineSpec
=============================================================================
