-------------------------------- MODULE Rbac --------------------------------
(***************************************************************************)
(* The permission cache of internal/rbac/rbac.go, with the tables it       *)
(* caches.  Each request is a goroutine of Procs that runs IsAllowed for   *)
(* one key and one tool; loadPermissions is split where it releases        *)
(* Service.mu, so an operator's change, another request or InvalidateCache *)
(* can come between its first look, its query and its store.               *)
(***************************************************************************)
EXTENDS AccessTables

CONSTANTS
    Procs,   \* goroutines serving requests
    Nil,     \* a missing map entry
    NoTool   \* a request that is no tools/call: extractResourceAction's ""

ASSUME RbacAssumption ==
    /\ \A S \in SUBSET Rows : S # Nil
    /\ Nil \notin Keys
    /\ NoTool \notin Tools

VARIABLES
    cache,   \* Service.cache: a set of patterns, {} for the nil slice, or Nil
    pc,      \* where each goroutine is in IsAllowed
    key,     \* its key.ID
    tool,    \* the tool it asks for
    perms,   \* its local perms
    failed,  \* history: its query failed
    synced,  \* history: perms came from the cache, not invalidated since
    seen,    \* history: what the tables held for a key since its invalidation
    raced,   \* history: a query result was in flight at that invalidation
    bare     \* history: keys that were at some time without a role

request == <<pc, key, tool, perms, failed, synced>>
vars == <<accessVars, cache, request, seen, raced, bare>>

Init ==
    /\ AccessInit
    /\ cache = [k \in Keys |-> Nil]
    /\ pc = [p \in Procs |-> "idle"]
    /\ key = [p \in Procs |-> Nil]
    /\ tool = [p \in Procs |-> NoTool]
    /\ perms = [p \in Procs |-> {}]
    /\ failed = [p \in Procs |-> FALSE]
    /\ synced = [p \in Procs |-> FALSE]
    /\ seen = [k \in Keys |-> {DbPerms(k)}]
    /\ raced = [k \in Keys |-> FALSE]
    /\ bare = {k \in Keys : keyRoles[k] = {}}

Goto(p, from, to) ==
    /\ pc[p] = from
    /\ pc' = [pc EXCEPT ![p] = to]

\* IsAllowed, lines 91-101: no permissions at all means open.
Permits(ps, t) == ps = {} \/ \E x \in ps : t \in Matches[x]

\* Middleware and loadPermissions' first look: a request without a tool
\* passes, a cached key is answered from the cache.  The key was valid when
\* auth looked it up; it may have been deleted since.
Check(p, k, t) ==
    /\ Goto(p, "idle", IF t = NoTool \/ cache[k] # Nil THEN "done" ELSE "query")
    /\ key' = [key EXCEPT ![p] = k]
    /\ tool' = [tool EXCEPT ![p] = t]
    /\ IF t # NoTool /\ cache[k] # Nil
         THEN /\ perms' = [perms EXCEPT ![p] = cache[k]]
              /\ synced' = [synced EXCEPT ![p] = TRUE]
         ELSE UNCHANGED <<perms, synced>>
    /\ UNCHANGED <<accessVars, cache, failed, seen, raced, bare>>

\* GetPermissionsByKeyID answers.
Query(p) ==
    /\ Goto(p, "query", "fill")
    /\ perms' = [perms EXCEPT ![p] = DbPerms(key[p])]
    /\ UNCHANGED <<accessVars, cache, key, tool, failed, synced, seen, raced, bare>>

\* GetPermissionsByKeyID fails: nil, and nothing is cached.
QueryFails(p) ==
    /\ Goto(p, "query", "done")
    /\ perms' = [perms EXCEPT ![p] = {}]
    /\ failed' = [failed EXCEPT ![p] = TRUE]
    /\ UNCHANGED <<accessVars, cache, key, tool, synced, seen, raced, bare>>

\* Storing the result without the second look.
FillUnchecked(p) ==
    /\ Goto(p, "fill", "done")
    /\ cache' = [cache EXCEPT ![key[p]] = perms[p]]
    /\ synced' = [synced EXCEPT ![p] = TRUE]
    /\ UNCHANGED <<accessVars, key, tool, perms, failed, seen, raced, bare>>

\* loadPermissions under Lock: what another goroutine cached since wins.
Fill(p) ==
    /\ Goto(p, "fill", "done")
    /\ IF cache[key[p]] # Nil
         THEN /\ perms' = [perms EXCEPT ![p] = cache[key[p]]]
              /\ UNCHANGED cache
         ELSE /\ cache' = [cache EXCEPT ![key[p]] = perms[p]]
              /\ UNCHANGED perms
    /\ synced' = [synced EXCEPT ![p] = TRUE]
    /\ UNCHANGED <<accessVars, key, tool, failed, seen, raced, bare>>

\* The middleware answers 403 or calls next.
Return(p) ==
    /\ Goto(p, "done", "idle")
    /\ key' = [key EXCEPT ![p] = Nil]
    /\ tool' = [tool EXCEPT ![p] = NoTool]
    /\ perms' = [perms EXCEPT ![p] = {}]
    /\ failed' = [failed EXCEPT ![p] = FALSE]
    /\ synced' = [synced EXCEPT ![p] = FALSE]
    /\ UNCHANGED <<accessVars, cache, seen, raced, bare>>

\* History of an invalidation of k.
ForgetHistory(k) ==
    /\ synced' = [p \in Procs |-> synced[p] /\ key[p] # k]
    /\ seen' = [seen EXCEPT ![k] = {DbPerms(k)}]
    /\ raced' = [raced EXCEPT ![k] = \E p \in Procs : pc[p] = "fill" /\ key[p] = k]

\* An invalidation that leaves the entry where it was.
InvalidateCacheNoDelete(k) ==
    /\ ForgetHistory(k)
    /\ UNCHANGED <<accessVars, cache, pc, key, tool, perms, failed, bare>>

InvalidateCache(k) ==
    /\ cache' = [cache EXCEPT ![k] = Nil]
    /\ ForgetHistory(k)
    /\ UNCHANGED <<accessVars, pc, key, tool, perms, failed, bare>>

\* A statement on the access tables; the cache does not hear of it.
ChangeTables ==
    /\ AccessNext
    /\ seen' = [k \in Keys |-> seen[k] \cup {DbPerms(k)'}]
    /\ bare' = bare \cup {k \in Keys : keyRoles'[k] = {}}
    /\ UNCHANGED <<cache, request, raced>>

Step(p) ==
    \/ \E k \in Keys, t \in Tools \cup {NoTool} : Check(p, k, t)
    \/ Query(p) \/ QueryFails(p) \/ Fill(p) \/ Return(p)

Next ==
    \/ \E p \in Procs : Step(p)
    \/ \E k \in Keys : InvalidateCache(k)
    \/ ChangeTables

Spec == Init /\ [][Next]_vars

---------------------------------------------------------------------------

\* Type invariant: a goroutine past its first look has a key, and the foreign
\* keys of the tables hold.
TypeOK ==
    /\ AccessTypeOK
    /\ cache \in [Keys -> {Nil} \cup SUBSET Rows]
    /\ pc \in [Procs -> {"idle", "query", "fill", "done"}]
    /\ key \in [Procs -> Keys \cup {Nil}]
    /\ tool \in [Procs -> Tools \cup {NoTool}]
    /\ perms \in [Procs -> SUBSET Rows]
    /\ failed \in [Procs -> BOOLEAN]
    /\ synced \in [Procs -> BOOLEAN]
    /\ seen \in [Keys -> SUBSET SUBSET Rows]
    /\ raced \in [Keys -> BOOLEAN]
    /\ bare \subseteq Keys
    /\ \A p \in Procs : pc[p] # "idle" => key[p] \in Keys

\* Between two invalidations all requests of a key are judged by the same
\* permissions, whatever the tables do and however their loads overlap: every
\* decision whose load succeeded used the entry the cache still holds
\* (loadPermissions' second look, line 79).
Agreement ==
    \A p \in Procs : synced[p] => perms[p] = cache[key[p]]

\* A cache entry is never older than the key's last invalidation, provided no
\* request of that key stood between its query and its store when
\* InvalidateCache ran (lines 72-83 and 105-109).
RecentUnlessRaced ==
    \A k \in Keys : cache[k] # Nil /\ ~raced[k] => cache[k] \in seen[k]

\* rbac.go:88-89: IsAllowed "Returns true if no roles are assigned (open by
\* default) or if any permission matches", for requests whose query succeeded.
OpenOnlyWithoutRoles ==
    \A p \in Procs :
        /\ pc[p] = "done" /\ tool[p] # NoTool /\ ~failed[p]
        /\ Permits(perms[p], tool[p])
        => \/ key[p] \in bare
           \/ \E x \in perms[p] : tool[p] \in Matches[x]
=============================================================================
