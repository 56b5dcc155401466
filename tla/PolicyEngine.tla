---------------------------- MODULE PolicyEngine ----------------------------
(***************************************************************************)
(* Engine.Middleware of internal/policy/policy.go as a whole: every        *)
(* request loads its policies through the cache (module PolicyCache, the   *)
(* instance Cache below) and is then judged by the list it got (module     *)
(* PolicyRules), while operators edit the policies table.  The two modules *)
(* share the clock, the goroutines and the policies.  PolicyCache's list   *)
(* is a set; here the request gets its members in some order.              *)
(***************************************************************************)
EXTENDS PolicyRules, Functions

CONSTANTS
    TTL,      \* cacheTTL in ticks
    MaxEdits  \* bound on the changes of the table

ASSUME CacheAssumption == TTL \in Nat /\ MaxEdits \in Nat

VARIABLES
    table, enabled, edits, seen,           \* the policies table
    policies, lastLoad, slowest, loaded,   \* the cache
    loadPc, loadList,                      \* the goroutines in loadPolicies
    since, asked, failed, warm

cacheVars == <<table, enabled, edits, seen, policies, lastLoad, slowest, loaded,
               loadPc, loadList, since, asked, failed, warm>>
rulesVars == <<windows, locals, written>>
engineVars == <<now, cacheVars, rulesVars>>

Cache == INSTANCE PolicyCache WITH pc <- loadPc, list <- loadList

EngineInit == Init /\ Cache!Init

\* Middleware calls loadPolicies.
Load(p) ==
    /\ Cache!Enter(p) \/ Cache!Query(p) \/ Cache!QueryFails(p) \/ Cache!Store(p)
    /\ UNCHANGED rulesVars

\* loadPolicies has returned; Middleware reads the body and the clock.
Judge(p) ==
    /\ loadPc[p] = "loaded"
    /\ \E r \in Requests, l \in Lists :
           Range(l) = loadList[p] /\ Begin(p, r, l)
    /\ UNCHANGED cacheVars

\* Middleware's loop, which holds on to its list whatever becomes of the cache.
Loop(p) == Evaluate(p) /\ UNCHANGED cacheVars

\* Middleware answers 403 or calls next.
Leave(p) == Return(p) /\ Cache!Leave(p)

\* The dashboard's handlers change the table.
EditTable ==
    /\ \E pol \in Policies :
           Cache!CreatePolicy(pol) \/ Cache!TogglePolicy(pol) \/ Cache!DeletePolicy(pol)
    /\ UNCHANGED rulesVars

PassTime == Tick /\ Cache!Tick

EngineNext ==
    \/ \E p \in Procs : Load(p) \/ Judge(p) \/ Loop(p) \/ Leave(p)
    \/ EditTable
    \/ PassTime

EngineSpec == EngineInit /\ [][EngineNext]_engineVars

-----------------------------------------------------------------------------
(* Properties *)

\* The promises of the cache (module PolicyCache) in the whole engine: how old
\* a list loadPolicies may hand out, and that a failing database does not make
\* it hand out no list.
PolicyStaleness == Cache!PolicyStaleness
NeverSilentlyOpen == Cache!NeverSilentlyOpen

\* End to end: a request that passes, and whose load did not fail, was
\* forbidden by none of the policies that were enabled together at some time
\* after it entered or less than cacheTTL and the slowest load before.
JudgedByRecent ==
    \A p \in Procs : pc[p] = "done" /\ ~denied[p] /\ ~failed[p] =>
        \E t \in Times :
            /\ t >= since[p] \/ since[p] - t < TTL + slowest
            /\ \E on \in seen[t] : \A pol \in on : ~Forbidden(pol, req[p], clk[p])
=============================================================================
