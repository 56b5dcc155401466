------------------------------ MODULE Gateway ------------------------------
(***************************************************************************)
(* The life of API keys across the processes that share the database:      *)
(* requests authenticated, judged, proxied and logged by the gateway, keys *)
(* made by the dashboard and keygen, revoked and deleted by the dashboard, *)
(* and the key table it shows afterwards.  A key is its row's id and its   *)
(* plaintext at once: both are fresh random values.  The audit logger is   *)
(* AuditLogger's, on, with a live database; Lifecycle has its shutdown.    *)
(* Time counts in ticks; a handler may be delayed between any two steps.   *)
(***************************************************************************)
EXTENDS AuditLogger

CONSTANTS
    Keys,       \* api_keys.id
    Admins,     \* concurrent handlers of the key pages
    Durations,  \* lifetimes a key can be given
    MaxTime,    \* bound on the clock
    Never       \* expires_at NULL

ASSUME GatewayAssumption ==
    /\ Durations \subseteq Nat /\ MaxTime \in Nat
    /\ Never \notin Nat /\ Nil \notin Keys
    /\ Nil \notin [active : BOOLEAN, expires : Nat \cup {Never}]
    /\ Nil \notin [row : [active : BOOLEAN, expires : Nat \cup {Never}], at : Nat]

VARIABLES
    now,        \* time.Now()
    apiKeys,    \* the row of each key in api_keys, or Nil
    issued,     \* history: keys that ever had a row
    known,      \* keys whose plaintext was handed out
    stage,      \* where each request is
    cred,       \* the key each request presents
    found,      \* the row ValidateKey got for it, and history: when
    handler,    \* what each handler of the key pages does next
    page,       \* the rows it has listed
    target,     \* history: the key it was asked to delete, until its list has it
    ended,      \* history: keys that a page showed as Revoked, Expired or gone
    tooLate,    \* history: requests that began after that
    faulted     \* history: entries whose insert met a fault of the database

keyVars == <<apiKeys, issued, known>>
requestVars == <<stage, cred, found, tooLate>>
pageVars == <<handler, page, target, ended>>
vars == <<now, keyVars, requestVars, pageVars, faulted, auditVars>>

Row == [active : BOOLEAN, expires : Nat \cup {Never}]
Expired(row) == row.expires # Never /\ row.expires < now

Init ==
    /\ AuditInit("receive", TRUE)
    /\ now = 1
    /\ apiKeys = [k \in Keys |-> Nil]
    /\ issued = {}
    /\ known = {}
    /\ stage = [r \in Requests |-> "new"]
    /\ cred = [r \in Requests |-> Nil]
    /\ found = [r \in Requests |-> Nil]
    /\ handler = [a \in Admins |-> "idle"]
    /\ page = [a \in Admins |-> {}]
    /\ target = [a \in Admins |-> Nil]
    /\ ended = {}
    /\ tooLate = {}
    /\ faulted = {}

Tick ==
    /\ now < MaxTime
    /\ now' = now + 1
    /\ UNCHANGED <<keyVars, requestVars, pageVars, faulted, auditVars>>

-----------------------------------------------------------------------------
(* auth.Middleware and what follows it *)

Move(r, from, to) ==
    /\ stage[r] = from
    /\ stage' = [stage EXCEPT ![r] = to]

\* A POST /mcp with a key that was handed out.
Arrive(r, k) ==
    /\ Move(r, "new", "lookup")
    /\ cred' = [cred EXCEPT ![r] = k]
    /\ tooLate' = IF k \in ended THEN tooLate \cup {r} ELSE tooLate
    /\ UNCHANGED <<now, keyVars, found, pageVars, faulted, auditVars>>

\* Without a header, with one of another form, or with an unknown token.
ArriveUnknown(r) ==
    /\ Move(r, "new", "denied")
    /\ UNCHANGED <<now, keyVars, cred, found, tooLate, pageVars, faulted, auditVars>>

\* GetAPIKeyByHash finds an active row.
Lookup(r) ==
    /\ stage[r] = "lookup"
    /\ apiKeys[cred[r]] # Nil
    /\ apiKeys[cred[r]].active
    /\ Move(r, "lookup", "expiry")
    /\ found' = [found EXCEPT ![r] = [row |-> apiKeys[cred[r]], at |-> now]]
    /\ UNCHANGED <<now, keyVars, cred, tooLate, pageVars, faulted, auditVars>>

\* No row, a revoked key or an error of the query, which always may happen:
\* 401.
LookupFails(r) ==
    /\ Move(r, "lookup", "denied")
    /\ UNCHANGED <<now, keyVars, cred, found, tooLate, pageVars, faulted, auditVars>>

\* A ValidateKey that does not look at expires_at.
NoCheckExpiry(r) ==
    /\ Move(r, "expiry", "judge")
    /\ UNCHANGED <<now, keyVars, cred, found, tooLate, pageVars, faulted, auditVars>>

\* ExpiresAt.Before(time.Now()), on the row found before.
CheckExpiry(r) ==
    /\ stage[r] = "expiry"
    /\ IF Expired(found[r].row) THEN Move(r, "expiry", "denied")
                                ELSE Move(r, "expiry", "judge")
    /\ UNCHANGED <<now, keyVars, cred, found, tooLate, pageVars, faulted, auditVars>>

\* The rate limiter, rbac and the policies pass the request to the proxy or
\* deny it (RateLimiter, Rbac, PolicyCache, PolicyRules).
Judge(r) ==
    /\ \E to \in {"proxy", "denied"} : Move(r, "judge", to)
    /\ UNCHANGED <<now, keyVars, cred, found, tooLate, pageVars, faulted, auditVars>>

\* next.ServeHTTP of audit.Middleware returns, and it logs an entry.
LogEntry(r) ==
    /\ Move(r, "proxy", "done")
    /\ LogAccepts(r) \/ LogDrops(r)
    /\ UNCHANGED <<now, keyVars, cred, found, tooLate, pageVars, faulted>>

\* The proxy panics: no entry.
ProxyAborts(r) ==
    /\ Move(r, "proxy", "done")
    /\ UNCHANGED <<now, keyVars, cred, found, tooLate, pageVars, faulted, auditVars>>

Serve(r) ==
    \/ \E k \in known : Arrive(r, k)
    \/ ArriveUnknown(r) \/ Lookup(r) \/ LookupFails(r) \/ CheckExpiry(r)
    \/ Judge(r) \/ LogEntry(r) \/ ProxyAborts(r)

-----------------------------------------------------------------------------
(* The writer goroutine and the foreign key of audit_logs *)

\* Entries that carry uuid.Nil for their key.
EntryKeyNil(r) == Nil

\* Entry.ApiKeyID, from the request's context.
EntryKey(r) == cred[r]

HasKey(r) == EntryKey(r) # Nil /\ apiKeys[EntryKey(r)] # Nil

Receives == Receive /\ UNCHANGED <<now, keyVars, requestVars, pageVars, faulted>>

\* InsertAuditLog: the foreign key admits rows of existing keys only.
Insert ==
    /\ InsertReturns(HasKey(hand))
    /\ UNCHANGED <<now, keyVars, requestVars, pageVars, faulted>>

\* It fails or its answer is lost.
InsertFaults ==
    /\ writer = "insert"
    /\ \E stored \in {FALSE, HasKey(hand)} : InsertReturns(stored)
    /\ faulted' = faulted \cup {hand}
    /\ UNCHANGED <<now, keyVars, requestVars, pageVars>>

-----------------------------------------------------------------------------
(* Statements on api_keys *)

CreateAPIKey(k, expires) ==
    /\ k \in Keys \ issued
    /\ apiKeys' = [apiKeys EXCEPT ![k] = [active |-> TRUE, expires |-> expires]]
    /\ issued' = issued \cup {k}

\* A fresh plaintext and its row; the plaintext is returned unless the answer
\* of the statement is lost.
CreateKey(k, expires) ==
    /\ CreateAPIKey(k, expires)
    /\ known' \in {known, known \cup {k}}

\* What handleCreateKey makes of the form: no expiry for "", "0" and anything
\* that does not parse, and a moment in the past for a negative duration.
FormExpiries == {Never, now - 1} \cup {now + d : d \in Durations}

\* keygen takes durations that are not positive for no expiry.
KeygenExpiries == {Never} \cup {now + d : d \in Durations \ {0}}

\* RevokeAPIKey; of no row, no effect.
RevokeAPIKey(k) ==
    /\ apiKeys' = [apiKeys EXCEPT ![k] = IF @ = Nil THEN Nil
                                         ELSE [@ EXCEPT !.active = FALSE]]
    /\ UNCHANGED <<issued, known>>

\* DeleteAPIKey fails if audit_logs has rows of the key.
DeleteAPIKey(k) ==
    /\ \A r \in rows : cred[r] # k
    /\ apiKeys' = [apiKeys EXCEPT ![k] = Nil]
    /\ UNCHANGED <<issued, known>>

-----------------------------------------------------------------------------
(* The dashboard's key handlers: a statement, whose error is dropped, then *)
(* ListAPIKeys, then the table with a badge per key; and keygen.           *)

\* The plaintext that CreateKey returned is shown; without a row, nothing.
handleCreateKey(a, k) ==
    /\ handler[a] = "idle"
    /\ (\E e \in FormExpiries : CreateKey(k, e)) \/ UNCHANGED keyVars
    /\ handler' = [handler EXCEPT ![a] = "list"]
    /\ UNCHANGED <<now, requestVars, page, target, ended, faulted, auditVars>>

handleRevokeKey(a, k) ==
    /\ handler[a] = "idle"
    /\ RevokeAPIKey(k) \/ UNCHANGED keyVars
    /\ handler' = [handler EXCEPT ![a] = "list"]
    /\ UNCHANGED <<now, requestVars, page, target, ended, faulted, auditVars>>

\* Of an id that never was, it only lists the keys, as handleKeys does.
handleDeleteKey(a, k) ==
    /\ handler[a] = "idle"
    /\ k \in issued
    /\ DeleteAPIKey(k) \/ UNCHANGED keyVars
    /\ target' = [target EXCEPT ![a] = k]
    /\ handler' = [handler EXCEPT ![a] = "list"]
    /\ UNCHANGED <<now, requestVars, page, ended, faulted, auditVars>>

handleKeys(a) ==
    /\ handler[a] = "idle"
    /\ handler' = [handler EXCEPT ![a] = "list"]
    /\ UNCHANGED <<now, keyVars, requestVars, page, target, ended, faulted, auditVars>>

\* The key whose deletion a table of other keys answers.  An empty table tells
\* nothing: a failed query shows one too.
Missing(k, listed) == IF listed = {} \/ \E x \in listed : x.key = k THEN Nil ELSE k

Lists(a, keys) ==
    /\ handler[a] = "list"
    /\ LET table == {[key |-> k, row |-> apiKeys[k]] : k \in {x \in keys : apiKeys[x] # Nil}}
       IN \E listed \in {table, {}} :
              /\ page' = [page EXCEPT ![a] = listed]
              /\ target' = [target EXCEPT ![a] = Missing(@, listed)]
    /\ handler' = [handler EXCEPT ![a] = "render"]
    /\ UNCHANGED <<now, keyVars, requestVars, ended, faulted, auditVars>>

\* The table without the key that was to be deleted, whatever became of it.
ListOthers(a) == Lists(a, Keys \ {target[a]})

\* An error leaves the list empty.
ListAPIKeys(a) == Lists(a, Keys)

\* keyStatusBadge, at the time of rendering.
Badge(row) == IF ~row.active THEN "Revoked" ELSE IF Expired(row) THEN "Expired" ELSE "Active"

KeysTable(a) ==
    /\ handler[a] = "render"
    /\ ended' = ended \cup {x.key : x \in {y \in page[a] : Badge(y.row) # "Active"}}
                     \cup ({target[a]} \ {Nil})
    /\ page' = [page EXCEPT ![a] = {}]
    /\ target' = [target EXCEPT ![a] = Nil]
    /\ handler' = [handler EXCEPT ![a] = "idle"]
    /\ UNCHANGED <<now, keyVars, requestVars, faulted, auditVars>>

\* keygen prints the key it has made, or exits without.
Keygen(k) ==
    /\ \E e \in KeygenExpiries : CreateKey(k, e)
    /\ UNCHANGED <<now, requestVars, pageVars, faulted, auditVars>>

Manage(a) ==
    \/ \E k \in Keys : handleCreateKey(a, k) \/ handleRevokeKey(a, k) \/ handleDeleteKey(a, k)
    \/ handleKeys(a) \/ ListAPIKeys(a) \/ KeysTable(a)

Next ==
    \/ Tick
    \/ \E r \in Requests : Serve(r)
    \/ Receives \/ Insert \/ InsertFaults
    \/ \E a \in Admins : Manage(a)
    \/ \E k \in Keys : Keygen(k)

Spec == Init /\ [][Next]_vars

-----------------------------------------------------------------------------
(* Properties *)

\* Every variable has its type, and only keys with a history have rows.
TypeOK ==
    /\ AuditTypeOK
    /\ now \in Nat \ {0}
    /\ apiKeys \in [Keys -> Row \cup {Nil}]
    /\ issued \subseteq Keys /\ known \subseteq issued
    /\ \A k \in Keys \ issued : apiKeys[k] = Nil
    /\ stage \in [Requests -> {"new", "lookup", "expiry", "judge", "proxy", "done", "denied"}]
    /\ cred \in [Requests -> Keys \cup {Nil}]
    /\ found \in [Requests -> [row : Row, at : Nat] \cup {Nil}]
    /\ handler \in [Admins -> {"idle", "list", "render"}]
    /\ page \in [Admins -> SUBSET [key : Keys, row : Row]]
    /\ target \in [Admins -> issued \cup {Nil}]
    /\ ended \subseteq Keys
    /\ tooLate \subseteq Requests
    /\ faulted \subseteq Requests

\* The keys a request would be let in with.
Valid == {k \in Keys : apiKeys[k] # Nil /\ apiKeys[k].active /\ ~Expired(apiKeys[k])}

\* A request whose row had expired when it was found is as good as denied.
Status(r) ==
    CASE stage[r] = "lookup" -> "pending"
      [] stage[r] = "expiry" ->
            IF found[r].row.expires # Never /\ found[r].row.expires < found[r].at
            THEN "denied" ELSE "checked"
      [] stage[r] = "judge" -> "checked"
      [] stage[r] = "proxy" -> "admitted"
      [] OTHER -> stage[r]

Statuses == [r \in Requests |-> Status(r)]

Promise == INSTANCE Admission WITH valid <- Valid, status <- Statuses, None <- Nil

\* Validation in two steps, a row and then a clock, with revocation, deletion
\* and time in between, implements an atomic check, and no operation makes a
\* withdrawn key valid again (ValidateKey, the statements on api_keys).
AdmissionSpec == Promise!Spec

\* Once a page has shown a key as Revoked or Expired, or has answered the request
\* to delete it with a table of other keys, no request that begins later with
\* that key reaches the upstream, however old the listed rows and the row of
\* the lookup were, and although the statements' errors are dropped
\* (keyStatusBadge, handleRevokeKey, handleDeleteKey, ValidateKey).
ShownRevokedIsFinal ==
    \A r \in tooLate : stage[r] \in {"lookup", "expiry", "denied"}

\* An accepted entry for which process has called the database is stored,
\* unless the database failed or the key was deleted while the entry waited
\* (process, the foreign key of audit_logs).
LostOnlyWhenDeleted ==
    \A i \in DOMAIN attempts :
        LET r == attempts[i] IN
        r \in rows \/ r \in faulted \/ (cred[r] \in issued /\ apiKeys[cred[r]] = Nil)
=============================================================================
