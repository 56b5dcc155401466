---------------------------- MODULE PolicyRules -----------------------------
(***************************************************************************)
(* How internal/policy/policy.go judges a request by the list of policies  *)
(* that loadPolicies returned (module PolicyCache).  A request is a        *)
(* goroutine of Procs that reads the clock once and evaluates the policies *)
(* in order until one denies.  evaluateRateOfChange is split between       *)
(* countInWindow and record, which lock the write tracker separately.      *)
(*                                                                         *)
(* A request's body is abstracted to what the policies see of it: whether  *)
(* it is a write (isWriteOperation) and which content policies it hits.    *)
(***************************************************************************)
EXTENDS Integers, Sequences, FiniteSets

CONSTANTS
    Keys,         \* API key ids
    Procs,        \* goroutines serving requests
    TimePolicies, ContentPolicies, RatePolicies,  \* policies by policy_type
    IdlePolicies, \* policies whose config evaluate ignores
    Lists,        \* the lists loadPolicies may return
    BlockStart, BlockEnd,    \* hours of a time_based policy
    MaxWrites, Window,       \* limits of a rate_of_change policy
    HoursPerDay,  \* a tick is an hour of a day of this length
    Nil,          \* no key
    MaxTime       \* bound on the clock

Policies == TimePolicies \cup ContentPolicies \cup RatePolicies \cup IdlePolicies

\* A policy is a row, so it has one policy_type and is once in a list.  No code
\* validates its hours.
ASSUME RulesAssumption ==
    /\ RatePolicies \cap (TimePolicies \cup ContentPolicies) = {}
    /\ Lists \subseteq Seq(Policies)
    /\ \A l \in Lists : \A i, j \in 1..Len(l) : l[i] = l[j] => i = j
    /\ HoursPerDay \in Nat \ {0}
    /\ BlockStart \in [TimePolicies -> Int]
    /\ BlockEnd \in [TimePolicies -> Int]
    /\ MaxWrites \in [RatePolicies -> Nat \ {0}]
    /\ Window \in [RatePolicies -> Nat \ {0}]
    /\ MaxTime \in Nat
    /\ Nil \notin Keys
    /\ IsFiniteSet(Procs) /\ Procs # {}

VARIABLES
    now,      \* the clock
    windows,  \* writeTracker.windows: the entries it holds, of all keys
    pc,       \* where each goroutine is in Middleware
    req,      \* its request
    list,     \* its policies
    clk,      \* its now
    idx,      \* the policy it is at
    denied,   \* a policy denied its request
    written   \* history: all entries ever recorded

locals == <<pc, req, list, clk, idx, denied>>
vars == <<now, windows, locals, written>>

Times == 0..MaxTime
Requests == [key : Keys, write : BOOLEAN, hits : SUBSET ContentPolicies]
NoRequest == [key |-> Nil, write |-> FALSE, hits |-> {}]

\* An entry of the tracker: a time in the slice of a key.  The policy that let
\* the write pass, and a number, tell the entries of one time apart.
Entries == [key : Keys, at : Times, by : RatePolicies, no : Nat \ {0}]

Init ==
    /\ now = 0
    /\ windows = {}
    /\ written = {}
    /\ pc = [p \in Procs |-> "idle"]
    /\ req = [p \in Procs |-> NoRequest]
    /\ list = [p \in Procs |-> <<>>]
    /\ clk = [p \in Procs |-> 0]
    /\ idx = [p \in Procs |-> 1]
    /\ denied = [p \in Procs |-> FALSE]

Goto(p, from, to) ==
    /\ pc[p] = from
    /\ pc' = [pc EXCEPT ![p] = to]

\* loadPolicies has returned.  Without policies the request passes, otherwise
\* now is read, once for all of them.
Begin(p, r, policies) ==
    /\ Goto(p, "idle", IF policies = <<>> THEN "done" ELSE "eval")
    /\ req' = [req EXCEPT ![p] = r]
    /\ list' = [list EXCEPT ![p] = policies]
    /\ clk' = [clk EXCEPT ![p] = IF policies = <<>> THEN 0 ELSE now]
    /\ UNCHANGED <<now, windows, idx, denied, written>>

Policy(p) == list[p][idx[p]]

\* A loop that runs over the end of the list.
VerdictOverrun(p, from, deny) ==
    /\ Goto(p, from, IF deny \/ idx[p] > Len(list[p]) THEN "done" ELSE "eval")
    /\ denied' = [denied EXCEPT ![p] = deny]
    /\ idx' = [idx EXCEPT ![p] = IF deny THEN @ ELSE @ + 1]

\* evaluate returns: the loop goes on unless it denied or was the last.
Verdict(p, from, deny) ==
    LET last == deny \/ idx[p] = Len(list[p]) IN
    /\ Goto(p, from, IF last THEN "done" ELSE "eval")
    /\ denied' = [denied EXCEPT ![p] = deny]
    /\ idx' = [idx EXCEPT ![p] = IF last THEN @ ELSE @ + 1]

\* The blocked hours taken as one interval even when they span midnight.
InBlockedHoursSameDay(pol, hour) ==
    hour >= BlockStart[pol] /\ hour < BlockEnd[pol]

\* evaluateTimeBased's comparison: the blocked hours may span midnight.
InBlockedHours(pol, hour) ==
    IF BlockStart[pol] <= BlockEnd[pol]
      THEN hour >= BlockStart[pol] /\ hour < BlockEnd[pol]
      ELSE hour >= BlockStart[pol] \/ hour < BlockEnd[pol]

\* Whether a policy that only looks at the request and the hour denies.
Denies(pol, r, t) ==
    \/ pol \in TimePolicies /\ InBlockedHours(pol, t % HoursPerDay)
    \/ pol \in ContentPolicies /\ pol \in r.hits

\* evaluateTimeBased, evaluateContent, evaluateRateOfChange of a request that
\* is no write, and evaluate of a policy it ignores.
EvaluateLocal(p) ==
    /\ pc[p] = "eval"
    /\ ~(Policy(p) \in RatePolicies /\ req[p].write)
    /\ Verdict(p, "eval", Denies(Policy(p), req[p], clk[p]))
    /\ UNCHANGED <<now, windows, req, list, clk, written>>

\* countInWindow drops the key's entries before windowStart, whichever
\* policy's window that is of.
Kept(k, windowStart) == {e \in windows : e.key = k => e.at >= windowStart}

EntriesOf(k, entries) == {e \in entries : e.key = k}

\* A limit compared with > instead of >=.
ReachedLate(pol, count) == count > MaxWrites[pol]

Reached(pol, count) == count >= MaxWrites[pol]

\* evaluateRateOfChange of a write, up to its comparison.
CountInWindow(p) ==
    /\ pc[p] = "eval"
    /\ Policy(p) \in RatePolicies /\ req[p].write
    /\ LET kept == Kept(req[p].key, clk[p] - Window[Policy(p)]) IN
       /\ windows' = kept
       /\ IF Reached(Policy(p), Cardinality(EntriesOf(req[p].key, kept)))
            THEN Verdict(p, "eval", TRUE)
            ELSE Goto(p, "eval", "record") /\ UNCHANGED <<idx, denied>>
    /\ UNCHANGED <<now, req, list, clk, written>>

Alike(pol, k, t) == {e \in written : e.by = pol /\ e.key = k /\ e.at = t}

NewEntry(pol, k, t) ==
    [key |-> k, at |-> t, by |-> pol, no |-> Cardinality(Alike(pol, k, t)) + 1]

\* record, under a lock of its own: the count may have changed since.
Record(p) ==
    /\ Verdict(p, "record", FALSE)
    /\ LET e == NewEntry(Policy(p), req[p].key, clk[p]) IN
       /\ windows' = windows \cup {e}
       /\ written' = written \cup {e}
    /\ UNCHANGED <<now, req, list, clk>>

\* One turn of the loop, or the first half of one.
Evaluate(p) == EvaluateLocal(p) \/ CountInWindow(p) \/ Record(p)

\* The middleware answers 403 or calls next.
Return(p) ==
    /\ Goto(p, "done", "idle")
    /\ req' = [req EXCEPT ![p] = NoRequest]
    /\ list' = [list EXCEPT ![p] = <<>>]
    /\ clk' = [clk EXCEPT ![p] = 0]
    /\ idx' = [idx EXCEPT ![p] = 1]
    /\ denied' = [denied EXCEPT ![p] = FALSE]
    /\ UNCHANGED <<now, windows, written>>

Tick ==
    /\ now < MaxTime
    /\ now' = now + 1
    /\ UNCHANGED <<windows, locals, written>>

Step(p) ==
    \/ \E r \in Requests, policies \in Lists : Begin(p, r, policies)
    \/ Evaluate(p)
    \/ Return(p)

Next == (\E p \in Procs : Step(p)) \/ Tick

Spec == Init /\ [][Next]_vars

-----------------------------------------------------------------------------
(* Properties *)

\* Every variable has its type, and a goroutine that evaluates is at a policy
\* of its list.
TypeOK ==
    /\ now \in Times
    /\ written \subseteq Entries
    /\ windows \subseteq written
    /\ pc \in [Procs -> {"idle", "eval", "record", "done"}]
    /\ req \in [Procs -> Requests \cup {NoRequest}]
    /\ list \in [Procs -> Seq(Policies)]
    /\ clk \in [Procs -> Times]
    /\ idx \in [Procs -> Nat \ {0}]
    /\ denied \in [Procs -> BOOLEAN]
    /\ \A p \in Procs :
           /\ pc[p] \in {"eval", "record"} => req[p].key \in Keys /\ idx[p] <= Len(list[p])
           /\ pc[p] = "record" => Policy(p) \in RatePolicies

\* How many hours pass from BlockStart to BlockEnd, round the clock.
Span(pol) == BlockEnd[pol] - BlockStart[pol]
                 + (IF BlockEnd[pol] < BlockStart[pol] THEN HoursPerDay ELSE 0)

\* What the operator asked for, said without the code's case split: the hours
\* from BlockStart round the clock up to BlockEnd, and the content hit.  An hour
\* is one of 0 to 24, 24 being the end of the day; of other numbers it says
\* nothing.
Forbidden(pol, r, t) ==
    \/ /\ pol \in TimePolicies
       /\ {BlockStart[pol], BlockEnd[pol]} \subseteq 0..HoursPerDay
       /\ (t - BlockStart[pol]) % HoursPerDay < Span(pol)
    \/ pol \in ContentPolicies /\ pol \in r.hits

\* A request passes only if no time_based or content policy of its list, early
\* or late in the list, forbids it at the time it read: no policy is skipped.
PassesMeansAllowed ==
    \A p \in Procs : pc[p] = "done" /\ ~denied[p] =>
        \A i \in 1..Len(list[p]) : ~Forbidden(list[p][i], req[p], clk[p])

Passed(pol, k, from, to) ==
    {e \in written : e.by = pol /\ e.key = k /\ e.at \in from..to}

\* A rate_of_change policy that is alone of its type lets pass at most its
\* limit of writes in its window, and two more for each other goroutine: one
\* that counted before the others recorded, and one whose clock was read
\* before another goroutine's later window dropped the entries.
OvershootBound ==
    \A pol \in RatePolicies : RatePolicies = {pol} =>
        \A k \in Keys, t \in Times : t + Window[pol] <= MaxTime =>
            Cardinality(Passed(pol, k, t, t + Window[pol]))
                <= MaxWrites[pol] + 2 * (Cardinality(Procs) - 1)

\* What the tests of the limit expect of every rate_of_change policy when
\* requests come one at a time: no write over the limit passes.
LimitKept ==
    \A pol \in RatePolicies, k \in Keys, t \in Times : t + Window[pol] <= MaxTime =>
        Cardinality(Passed(pol, k, t, t + Window[pol])) <= MaxWrites[pol]
=============================================================================
