----------------------------- MODULE Dashboard -----------------------------
(***************************************************************************)
(* The dashboard process: sessions kept in signed cookies, and the pages   *)
(* that put several queries together while the gateway and other admins    *)
(* change what they read.  One browser is followed; the others are in the  *)
(* environment.  The key pages are in Gateway, the policies in PolicyCache.*)
(* Time counts in ticks, several of which make a second; the clocks of the *)
(* database and of the process agree, and both use UTC.                    *)
(***************************************************************************)
EXTENDS AccessTables, Integers, Sequences

CONSTANTS
    Second,    \* ticks per second
    TTL,       \* tokenTTL, in ticks: whole seconds
    Hour,      \* ticks per hour
    Hours,     \* hours on the chart, 24
    Day,       \* ticks per day
    PageSize,  \* pageSize of the audit page
    MaxTime, MaxLogs, MaxSecret,  \* bounds
    Nil        \* nothing

ASSUME DashboardAssumption ==
    /\ {Second, TTL, Hour, Hours, Day, PageSize} \subseteq Nat \ {0}
    /\ {MaxTime, MaxLogs, MaxSecret} \subseteq Nat

VARIABLES
    now,     \* time.Now() and NOW()
    fixed,   \* JWT_SECRET is set
    secret,  \* which jwtSecret the process has
    jar,     \* the browser's cookie, and history: when it was set
    logs,    \* audit_logs, oldest first
    step,    \* where the handler of the browser's request is
    got,     \* what it has read
    out      \* what requireAuth decided or a handler rendered in this step

sessionVars == <<fixed, secret, jar>>
vars == <<now, sessionVars, logs, step, got, out, accessVars>>

Init ==
    /\ AccessInit
    /\ now = 0
    /\ fixed \in BOOLEAN
    /\ secret = 0
    /\ jar = Nil
    /\ logs = <<>>
    /\ step = "idle"
    /\ got = Nil
    /\ out = Nil

-----------------------------------------------------------------------------
(* Sessions *)

\* Rounding up instead.
NumericDateUp(t) == ((t + Second - 1) \div Second) * Second

\* jwt.NewNumericDate cuts off fractions of a second.
NumericDate(t) == (t \div Second) * Second

\* setSessionCookie: the token of createToken.
SessionCookie == [secret |-> secret, exp |-> NumericDate(now + TTL), set |-> now]

\* handleLogin with the right credentials.  Otherwise it shows the login page, and nothing changes.
Login ==
    /\ step = "idle"
    /\ jar' = SessionCookie
    /\ out' = Nil
    /\ UNCHANGED <<now, fixed, secret, logs, step, got, accessVars>>

\* handleLogout: clearSessionCookie; or the browser drops the cookie, at its
\* MaxAge or before.
Logout ==
    /\ step = "idle" /\ jar # Nil
    /\ jar' = Nil
    /\ out' = Nil
    /\ UNCHANGED <<now, fixed, secret, logs, step, got, accessVars>>

\* validateToken: the signature, then exp.
ValidToken == jar.secret = secret /\ now < jar.exp

FirstStep ==
    [stats |-> "requests", chart |-> "hours", roles |-> "list", change |-> "statement",
     audit |-> "audit"]

Judged(in) ==
    [page |-> "session", in |-> in, age |-> now - jar.set, same |-> jar.secret = secret]

\* A request with a valid token gets past requireAuth.
Enter(page) ==
    /\ step = "idle" /\ jar # Nil /\ ValidToken
    /\ step' = FirstStep[page]
    /\ out' = Judged(TRUE)
    /\ UNCHANGED <<now, sessionVars, logs, got, accessVars>>

\* An invalid one is cleared, and the browser sent to the login page, as it
\* is without a cookie.
Refuse ==
    /\ step = "idle" /\ jar # Nil /\ ~ValidToken
    /\ out' = Judged(FALSE)
    /\ jar' = Nil
    /\ UNCHANGED <<now, fixed, secret, logs, step, got, accessVars>>

\* The process ends and starts again; a random secret is a new one.
Restart ==
    /\ fixed \/ secret < MaxSecret
    /\ secret' = IF fixed THEN secret ELSE secret + 1
    /\ step' = "idle" /\ got' = Nil /\ out' = Nil
    /\ UNCHANGED <<now, fixed, jar, logs, accessVars>>

-----------------------------------------------------------------------------
(* The environment *)

Tick ==
    /\ now < MaxTime
    /\ now' = now + 1
    /\ out' = Nil
    /\ UNCHANGED <<sessionVars, logs, step, got, accessVars>>

\* The gateway's InsertAuditLog; created_at is NOW().
InsertLog(failed) ==
    /\ Len(logs) < MaxLogs
    /\ logs' = Append(logs, [at |-> now, failed |-> failed])
    /\ out' = Nil
    /\ UNCHANGED <<now, sessionVars, step, got, accessVars>>

\* What the handlers of the roles page do to the tables.
RolesChange ==
    \/ \E r \in Roles : CreateRole(r) \/ DeleteRole(r)
    \/ \E r \in Roles, x \in Rows : AddPermission(r, x) \/ DeletePermission(r, x)

\* Another admin's change.
OthersChange ==
    /\ RolesChange
    /\ out' = Nil
    /\ UNCHANGED <<now, sessionVars, logs, step, got>>

-----------------------------------------------------------------------------
(* The pages.  A query that fails counts as 0 or as an empty list.         *)

Render(page) ==
    /\ out' = page
    /\ step' = "idle"
    /\ got' = Nil
    /\ UNCHANGED <<now, sessionVars, logs, accessVars>>

Read(next, data) ==
    /\ step' = next
    /\ got' = data
    /\ out' = Nil
    /\ UNCHANGED <<now, sessionVars, logs, accessVars>>

\* created_at >= CURRENT_DATE.
Today == {i \in DOMAIN logs : logs[i].at >= (now \div Day) * Day}

\* loadStats, three counts one after the other.  The histories keep whether
\* the first one failed, and how many rows there were.
CountRequestsToday ==
    /\ step = "requests"
    /\ \E failed \in BOOLEAN :
           Read("keys", [requests |-> IF failed THEN 0 ELSE Cardinality(Today),
                         failed |-> failed, length |-> Len(logs)])

\* The number of active keys is not followed.
CountActiveKeys ==
    /\ step = "keys"
    /\ Read("errors", got)

\* Errors of all days.
ErrorsAtAll == Cardinality({i \in DOMAIN logs : logs[i].failed})

ErrorsToday == Cardinality({i \in Today : logs[i].failed})

\* In tenths of a percent, rounded: "%.1f%%".
ErrorRate(requests, errors) ==
    IF requests > 0 THEN (2000 * errors + requests) \div (2 * requests) ELSE 0

\* The home page and its refresh; the history keeps the rows added meanwhile.
StatsCards(errors) ==
    [page |-> "stats", requests |-> got.requests, errors |-> errors,
     rate |-> ErrorRate(got.requests, errors), failed |-> got.failed,
     grown |-> Len(logs) - got.length]

CountErrorsToday ==
    /\ step = "errors"
    /\ \E n \in {0, ErrorsToday} : Render(StatsCards(n))

\* The window starts an hour late.
InWindowShort(at) == at >= now - (Hours - 1) * Hour

\* created_at >= NOW() - INTERVAL '24 hours'.
InWindow(at) == at >= now - Hours * Hour

HourOf(t) == t \div Hour

CountIn(hour, S) == Cardinality({i \in S : HourOf(logs[i].at) = hour})

ByHour(S) == [h \in 0..HourOf(now) |-> CountIn(h, S)]

\* The query's rows; the history keeps the exact counts and whether it failed.
ReadHours(S, failed) ==
    /\ step = "hours"
    /\ Read("chart", [counts |-> ByHour(S), exact |-> ByHour(DOMAIN logs), failed |-> failed])

CountRequestsByHour == ReadHours({i \in DOMAIN logs : InWindow(logs[i].at)}, FALSE)

\* rows, _ := ...: the error is dropped, and there are no rows.
CountRequestsByHourFails == ReadHours({}, TRUE)

\* handleChartData labels the last hours by the clock of now; an hour without
\* a row of the query has 0.
handleChartData ==
    /\ step = "chart"
    /\ LET hours == {h \in 0..HourOf(now) : h > HourOf(now) - Hours}
           Of(f) == [h \in hours |-> IF h \in DOMAIN f THEN f[h] ELSE 0]
       IN Render([page |-> "chart", data |-> Of(got.counts), exact |-> Of(got.exact),
                  failed |-> got.failed])

\* handleCreateRole, handleDeleteRole, handleAddPermission and
\* handleDeletePermission: the statement, the error of which is dropped.
ChangeRoles ==
    /\ step = "statement"
    /\ RolesChange \/ UNCHANGED accessVars
    /\ step' = "list"
    /\ out' = Nil
    /\ UNCHANGED <<now, sessionVars, logs, got>>

\* The id in the path is no UUID: 400.
ChangeInvalid ==
    /\ step = "statement"
    /\ Render(Nil)

\* loadRolesWithPerms: ListRoles, then the permissions of each.
ListRoles ==
    /\ step = "list"
    /\ \/ Read("perms", [todo |-> roles, perms |-> [r \in {} |-> {}]])
       \/ Render(Nil)

\* An error leaves the role on the page without permissions.
ListPermissionsByRole(r) ==
    /\ step = "perms" /\ r \in got.todo
    /\ \E p \in {rolePerms[r], {}} :
           Read("perms", [got EXCEPT !.todo = @ \ {r},
                                     !.perms = [x \in DOMAIN @ \cup {r} |-> IF x = r THEN p ELSE @[x]]])

RolesList ==
    /\ step = "perms" /\ got.todo = {}
    /\ Render([page |-> "roles", perms |-> got.perms])

\* ORDER BY created_at DESC LIMIT: rows of one instant in any order.
Newest(M, limit) ==
    {S \in SUBSET M : /\ Cardinality(S) <= limit
                      /\ S = M \/ Cardinality(S) = limit
                      /\ \A i \in S, j \in M \ S : logs[i].at >= logs[j].at}

\* With one row more than a page has; the page number is no parameter.
ListAuditLogs(wanted) == Newest({i \in DOMAIN logs : logs[i].failed \in wanted}, PageSize + 1)

\* The rows, the number, and the buttons Previous and Next.
AuditResults(number, rows, hasMore) ==
    [page |-> "audit", number |-> number, rows |-> rows,
     previous |-> number > 1, next |-> hasMore]

\* The page keeps the newest of them; the number is shown and not used.
queryAuditLogs(number, wanted) ==
    /\ step = "audit"
    /\ \E found \in ListAuditLogs(wanted) :
           \E S \in Newest(found, PageSize) :
               Render(AuditResults(number, S, Cardinality(found) > PageSize))

queryAuditLogsFails ==
    /\ step = "audit"
    /\ Render(Nil)

Handle ==
    \/ CountRequestsToday \/ CountActiveKeys \/ CountErrorsToday
    \/ CountRequestsByHour \/ CountRequestsByHourFails \/ handleChartData
    \/ ChangeRoles \/ ChangeInvalid \/ ListRoles \/ RolesList
    \/ \E r \in Roles : ListPermissionsByRole(r)
    \/ queryAuditLogsFails
    \/ \E number \in 1..2, wanted \in {{TRUE}, {FALSE}, BOOLEAN} : queryAuditLogs(number, wanted)

Next ==
    \/ Login \/ Logout \/ Refuse \/ Restart
    \/ \E page \in DOMAIN FirstStep : Enter(page)
    \/ Tick \/ OthersChange
    \/ \E failed \in BOOLEAN : InsertLog(failed)
    \/ Handle

Spec == Init /\ [][Next]_vars

-----------------------------------------------------------------------------
(* Properties *)

Logs == [at : Nat, failed : BOOLEAN]

\* Every variable has its type; an audit page offers Next only when it is full.
TypeOK ==
    /\ AccessTypeOK
    /\ now \in 0..MaxTime /\ fixed \in BOOLEAN /\ secret \in Nat
    /\ jar \in [secret : Nat, exp : Nat, set : Nat] \cup {Nil}
    /\ logs \in Seq(Logs)
    /\ step \in {"idle", "requests", "keys", "errors", "hours", "chart", "statement", "list",
                  "perms", "audit"}
    /\ step \in {"keys", "errors"} =>
           got \in [requests : Nat, failed : BOOLEAN, length : Nat]
    /\ step = "chart" =>
           \E n \in 0..MaxTime :
               got \in [counts : [0..n -> Nat], exact : [0..n -> Nat], failed : BOOLEAN]
    /\ step = "perms" =>
           \E R \in SUBSET Roles : got \in [todo : SUBSET Roles, perms : [R -> SUBSET Rows]]
    /\ (out # Nil /\ out.page = "audit") =>
           Cardinality(out.rows) <= PageSize /\ (out.next => Cardinality(out.rows) = PageSize)

\* A session lasts as long as promised, up to a second that the rounding of
\* exp takes away, and never longer, restarts with the same secret included;
\* after one with a new secret it is over (createToken, requireAuth, main).
SessionBounds ==
    (out # Nil /\ out.page = "session") =>
        /\ out.in => out.same /\ out.age < TTL
        /\ ~out.in /\ out.same => out.age > TTL - Second

\* The counts on the home page are of different moments, and each may fail and
\* show 0.  Where the first count has not failed, more errors than requests are
\* shown only if entries came in between, and no more of them than that, at
\* midnight too; and whichever count failed, the error rate is at most 100%
\* unless entries came in between (loadStats).
StatsBounded ==
    (out # Nil /\ out.page = "stats") =>
        /\ ~out.failed => out.errors <= out.requests + out.grown
        /\ out.grown = 0 => out.rate <= 1000

\* Every hour on the chart has the count of all its rows as of the query, the
\* oldest too, whatever the minute and however late the labels are computed; or
\* the query failed, and every hour is drawn as 0, which no reader can tell from
\* a day without requests (CountRequestsByHour, handleChartData).
ChartExact ==
    (out # Nil /\ out.page = "chart") =>
        \/ out.data = out.exact
        \/ out.failed /\ \A h \in DOMAIN out.data : out.data[h] = 0
=============================================================================
