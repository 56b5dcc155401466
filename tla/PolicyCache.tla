---------------------------- MODULE PolicyCache -----------------------------
(***************************************************************************)
(* The policies table and the cache of it in internal/policy/policy.go.    *)
(* A request is a goroutine of Procs that runs loadPolicies and is then    *)
(* judged by the list it got (module PolicyRules; PolicyEngine has both,   *)
(* and the assumptions on the constants).  loadPolicies is split           *)
(* where it releases Engine.mu, so edits of the table, other loads and     *)
(* time come between its first look, its query and its store.              *)
(*                                                                         *)
(* A list of policies is the set of its members: its order, by created_at, *)
(* is the same in every list, and the cache does not look at it.           *)
(***************************************************************************)
EXTENDS Integers

CONSTANTS
    Policies,  \* ids of policies rows
    Procs,     \* goroutines serving requests
    TTL,       \* cacheTTL in ticks
    MaxTime,   \* bound on the clock
    MaxEdits   \* bound on the changes of the table

VARIABLES
    now,       \* the clock
    table,     \* the ids of the policies table
    enabled,   \* the ids of its enabled rows, what ListEnabledPolicies lists
    edits,     \* the changes of the table so far
    policies,  \* Engine.policies; {} is nil
    lastLoad,  \* Engine.lastLoad
    pc,        \* where each goroutine is in loadPolicies
    list,      \* its local policies
    seen,      \* history: the enabled lists of each time
    slowest,   \* history: the longest time between a query and its store
    loaded,    \* history: a list has been stored
    since,     \* history: when each request entered
    asked,     \* history: when its query was answered
    failed,    \* history: its query failed
    warm       \* history: a list had been stored when it entered

tableVars == <<table, enabled, edits, seen>>
engineVars == <<policies, lastLoad, slowest, loaded>>
localVars == <<pc, list, since, asked, failed, warm>>
vars == <<now, tableVars, engineVars, localVars>>

Times == 0..MaxTime

\* The gateway starts on a database with some policies, and nothing cached.
Init ==
    /\ now = 0
    /\ table \in SUBSET Policies
    /\ enabled \in SUBSET table
    /\ edits = 0
    /\ seen = [t \in Times |-> IF t = 0 THEN {enabled} ELSE {}]
    /\ policies = {}
    /\ lastLoad = 0
    /\ slowest = 0
    /\ loaded = FALSE
    /\ pc = [p \in Procs |-> "idle"]
    /\ list = [p \in Procs |-> {}]
    /\ since = [p \in Procs |-> 0]
    /\ asked = [p \in Procs |-> 0]
    /\ failed = [p \in Procs |-> FALSE]
    /\ warm = [p \in Procs |-> FALSE]

-----------------------------------------------------------------------------
(* loadPolicies *)

Goto(p, from, to) ==
    /\ pc[p] = from
    /\ pc' = [pc EXCEPT ![p] = to]

\* A cache without a TTL.
EnterForever(p) ==
    /\ Goto(p, "idle", IF policies # {} THEN "loaded" ELSE "query")
    /\ list' = [list EXCEPT ![p] = policies]
    /\ since' = [since EXCEPT ![p] = now]
    /\ warm' = [warm EXCEPT ![p] = loaded]
    /\ UNCHANGED <<now, tableVars, engineVars, asked, failed>>

\* A request arrives; under RLock, a list younger than cacheTTL is used.  An
\* empty list is nil, which is never fresh.
Enter(p) ==
    LET fresh == now - lastLoad < TTL /\ policies # {} IN
    /\ Goto(p, "idle", IF fresh THEN "loaded" ELSE "query")
    /\ list' = [list EXCEPT ![p] = IF fresh THEN policies ELSE {}]
    /\ since' = [since EXCEPT ![p] = now]
    /\ warm' = [warm EXCEPT ![p] = loaded]
    /\ UNCHANGED <<now, tableVars, engineVars, asked, failed>>

\* ListEnabledPolicies answers.
Query(p) ==
    /\ Goto(p, "query", "store")
    /\ list' = [list EXCEPT ![p] = enabled]
    /\ asked' = [asked EXCEPT ![p] = now]
    /\ UNCHANGED <<now, tableVars, engineVars, since, failed, warm>>

\* A failed load that returns no list at all.
QueryFailsOpen(p) ==
    /\ Goto(p, "query", "loaded")
    /\ failed' = [failed EXCEPT ![p] = TRUE]
    /\ UNCHANGED <<now, tableVars, engineVars, list, since, asked, warm>>

\* A failed load that counts as a load.
QueryFailsRefreshing(p) ==
    /\ Goto(p, "query", "loaded")
    /\ list' = [list EXCEPT ![p] = policies]
    /\ lastLoad' = now
    /\ failed' = [failed EXCEPT ![p] = TRUE]
    /\ UNCHANGED <<now, tableVars, policies, slowest, loaded, since, asked, warm>>

\* ListEnabledPolicies fails: the cached list is used, however old, and
\* lastLoad stays, so the next request tries again.
QueryFails(p) ==
    /\ Goto(p, "query", "loaded")
    /\ list' = [list EXCEPT ![p] = policies]
    /\ failed' = [failed EXCEPT ![p] = TRUE]
    /\ UNCHANGED <<now, tableVars, engineVars, since, asked, warm>>

Slower(took) == IF took > slowest THEN took ELSE slowest

\* Under Lock, the list read replaces the cached one, whichever is newer.
Store(p) ==
    /\ Goto(p, "store", "loaded")
    /\ policies' = list[p]
    /\ lastLoad' = now
    /\ slowest' = Slower(now - asked[p])
    /\ loaded' = TRUE
    /\ UNCHANGED <<now, tableVars, list, since, asked, failed, warm>>

\* The request is judged by its list and leaves.
Leave(p) ==
    /\ Goto(p, "loaded", "idle")
    /\ list' = [list EXCEPT ![p] = {}]
    /\ since' = [since EXCEPT ![p] = 0]
    /\ asked' = [asked EXCEPT ![p] = 0]
    /\ failed' = [failed EXCEPT ![p] = FALSE]
    /\ warm' = [warm EXCEPT ![p] = FALSE]
    /\ UNCHANGED <<now, tableVars, engineVars>>

-----------------------------------------------------------------------------
(* The dashboard's changes of the policies table, and time *)

\* A change of the table to these rows, of which these are enabled.
Edit(rows, on) ==
    /\ edits < MaxEdits
    /\ edits' = edits + 1
    /\ table' = rows
    /\ enabled' = on
    /\ seen' = [seen EXCEPT ![now] = @ \cup {on}]
    /\ UNCHANGED <<now, engineVars, localVars>>

\* handleCreatePolicy: a new policy is enabled.
CreatePolicy(pol) ==
    /\ pol \notin table
    /\ Edit(table \cup {pol}, enabled \cup {pol})

\* handleTogglePolicy.
TogglePolicy(pol) ==
    /\ pol \in table
    /\ Edit(table, IF pol \in enabled THEN enabled \ {pol} ELSE enabled \cup {pol})

\* handleDeletePolicy.
DeletePolicy(pol) ==
    /\ pol \in table
    /\ Edit(table \ {pol}, enabled \ {pol})

Tick ==
    /\ now < MaxTime
    /\ now' = now + 1
    /\ seen' = [seen EXCEPT ![now + 1] = {enabled}]
    /\ UNCHANGED <<table, enabled, edits, engineVars, localVars>>

Step(p) ==
    \/ Enter(p)
    \/ Query(p)
    \/ QueryFails(p)
    \/ Store(p)
    \/ Leave(p)

Next ==
    \/ \E p \in Procs : Step(p)
    \/ \E pol \in Policies :
           CreatePolicy(pol) \/ TogglePolicy(pol) \/ DeletePolicy(pol)
    \/ Tick

Spec == Init /\ [][Next]_vars

-----------------------------------------------------------------------------
(* Properties *)

\* Every variable has its type, and only rows of the table are enabled.
TypeOK ==
    /\ now \in Times
    /\ table \in SUBSET Policies /\ enabled \in SUBSET table
    /\ edits \in 0..MaxEdits
    /\ policies \in SUBSET Policies
    /\ lastLoad \in Times
    /\ pc \in [Procs -> {"idle", "query", "store", "loaded"}]
    /\ list \in [Procs -> SUBSET Policies]
    /\ seen \in [Times -> SUBSET SUBSET Policies]
    /\ slowest \in Times
    /\ loaded \in BOOLEAN
    /\ since \in [Procs -> Times]
    /\ asked \in [Procs -> Times]
    /\ failed \in [Procs -> BOOLEAN]
    /\ warm \in [Procs -> BOOLEAN]

\* A change of the policies reaches every request soon: the list a request is
\* judged by, when its load did not fail, was the table's after the request
\* entered, or less than cacheTTL and the slowest load before it, although a
\* slow load may overwrite a newer list.
PolicyStaleness ==
    \A p \in Procs : pc[p] = "loaded" /\ ~failed[p] =>
        \E t \in Times :
            /\ t >= since[p] \/ since[p] - t < TTL + slowest
            /\ list[p] \in seen[t]

\* Once a list has been loaded, a failing database never makes a request skip
\* the policies: the list it is judged by was the table's at some time.
NeverSilentlyOpen ==
    \A p \in Procs : pc[p] = "loaded" /\ warm[p] =>
        \E t \in Times : list[p] \in seen[t]
=============================================================================
