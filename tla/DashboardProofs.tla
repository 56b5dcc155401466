-------------------------- MODULE DashboardProofs --------------------------
(***************************************************************************)
(* For any clock resolution, session length, chart width and any number of *)
(* roles and log rows: how long sessions last, and what pages put together *)
(* from several queries show.                                              *)
(***************************************************************************)
EXTENDS Dashboard, TLAPS, FiniteSetTheorems

USE DEF sessionVars, accessVars

---------------------------------------------------------------------------
(* Arithmetic and cardinality.                                             *)

\* Cutting off to a multiple of d loses less than d.
LEMMA DivBounds ==
  ASSUME NEW t \in Nat, NEW d \in Nat \ {0}
  PROVE  /\ t \div d \in Nat
         /\ (t \div d) * d \in Nat
         /\ (t \div d) * d <= t
         /\ t < (t \div d) * d + d
         /\ t \div d <= t
  OBVIOUS

\* Multiples do not decrease with time.
LEMMA DivMono ==
  ASSUME NEW t \in Nat, NEW u \in Nat, NEW d \in Nat \ {0}, t <= u
  PROVE  /\ t \div d <= u \div d
         /\ (t \div d) * d <= (u \div d) * d
  OBVIOUS

\* The rows of a set of logs are finitely many.
LEMMA LogRows ==
  ASSUME logs \in Seq(Logs), NEW S \in SUBSET DOMAIN logs
  PROVE  IsFiniteSet(S) /\ Cardinality(S) \in Nat
<1>1. DOMAIN logs = 1..Len(logs) /\ Len(logs) \in Nat
  OBVIOUS
<1>2. IsFiniteSet(DOMAIN logs)
  BY <1>1, FS_Interval
<1>3. IsFiniteSet(S)
  BY <1>2, FS_Subset
<1>. QED  BY <1>3, FS_CardinalityType

\* Every row has a time.
LEMMA LogTimes ==
  ASSUME logs \in Seq(Logs)
  PROVE  \A i \in DOMAIN logs : logs[i].at \in Nat
<1>1. \A i \in DOMAIN logs : logs[i] \in Logs
  OBVIOUS
<1>. QED  BY <1>1 DEF Logs

---------------------------------------------------------------------------
(* Type correctness.                                                       *)

\* The statements keep the foreign keys.
LEMMA RolesChangeType ==
  ASSUME AccessTypeOK, RolesChange
  PROVE  AccessTypeOK'
<1>. USE DEF AccessTypeOK, ForeignKeys
<1>1. ASSUME NEW r \in Roles, CreateRole(r) PROVE AccessTypeOK'
  BY <1>1 DEF CreateRole
<1>2. ASSUME NEW r \in Roles, DeleteRole(r) PROVE AccessTypeOK'
  BY <1>2 DEF DeleteRole
<1>3. ASSUME NEW r \in Roles, NEW x \in Rows, AddPermission(r, x) PROVE AccessTypeOK'
  BY <1>3 DEF AddPermission
<1>4. ASSUME NEW r \in Roles, NEW x \in Rows, DeletePermission(r, x) PROVE AccessTypeOK'
  BY <1>4 DEF DeletePermission
<1>. QED  BY <1>1, <1>2, <1>3, <1>4 DEF RolesChange

\* The counts of the chart are over the hours up to now.
LEMMA HourCounts ==
  ASSUME now \in 0..MaxTime, logs \in Seq(Logs)
  PROVE  /\ HourOf(now) \in 0..MaxTime
         /\ \A S \in SUBSET DOMAIN logs : ByHour(S) \in [0..HourOf(now) -> Nat]
<1>1. HourOf(now) \in 0..MaxTime
  <2>1. now \in Nat /\ Hour \in Nat \ {0} /\ MaxTime \in Nat
    BY DashboardAssumption
  <2>2. now \div Hour \in Nat /\ now \div Hour <= now
    BY <2>1, DivBounds
  <2>. QED  BY <2>1, <2>2 DEF HourOf
<1>2. ASSUME NEW h, NEW S \in SUBSET DOMAIN logs PROVE CountIn(h, S) \in Nat
  <2>1. {i \in S : HourOf(logs[i].at) = h} \in SUBSET DOMAIN logs
    OBVIOUS
  <2>. QED  BY <2>1, LogRows DEF CountIn
<1>. QED  BY <1>1, <1>2 DEF ByHour

\* Every variable keeps its type, and the audit page offers Next only when it
\* is full.
THEOREM DashboardTypeOK == Spec => []TypeOK
<1>1. Init => TypeOK
  BY DashboardAssumption DEF Init, AccessInit, AccessTypeOK, ForeignKeys, TypeOK
<1>2. TypeOK /\ [Next]_vars => TypeOK'
  <2>. SUFFICES ASSUME TypeOK, [Next]_vars PROVE TypeOK'
    OBVIOUS
  <2>. USE DashboardAssumption
  <2>1. CASE Login
    <3>1. NumericDate(now + TTL) \in Nat
      <4>1. now + TTL \in Nat /\ Second \in Nat \ {0}
        BY DEF TypeOK
      <4>. QED  BY <4>1, DivBounds DEF NumericDate
    <3>2. AccessTypeOK'
      BY <2>1 DEF Login, TypeOK, AccessTypeOK, ForeignKeys
    <3>. QED  BY <2>1, <3>1, <3>2 DEF Login, SessionCookie, TypeOK
  <2>2. CASE Logout \/ Refuse
    <3>1. AccessTypeOK'
      BY <2>2 DEF Logout, Refuse, TypeOK, AccessTypeOK, ForeignKeys
    <3>2. out' # Nil => out'.page # "audit"
      BY <2>2 DEF Logout, Refuse, Judged
    <3>. QED  BY <2>2, <3>1, <3>2 DEF Logout, Refuse, TypeOK
  <2>3. CASE Restart
    <3>1. AccessTypeOK'
      BY <2>3 DEF Restart, TypeOK, AccessTypeOK, ForeignKeys
    <3>. QED  BY <2>3, <3>1 DEF Restart, TypeOK
  <2>4. ASSUME NEW page \in DOMAIN FirstStep, Enter(page) PROVE TypeOK'
    <3>1. AccessTypeOK'
      BY <2>4 DEF Enter, TypeOK, AccessTypeOK, ForeignKeys
    <3>2. step' \in {"requests", "hours", "list", "statement", "audit"}
      BY <2>4 DEF Enter, FirstStep
    <3>3. out'.page # "audit"
      BY <2>4 DEF Enter, Judged
    <3>. QED  BY <2>4, <3>1, <3>2, <3>3 DEF Enter, TypeOK
  <2>5. CASE Tick
    <3>1. AccessTypeOK'
      BY <2>5 DEF Tick, TypeOK, AccessTypeOK, ForeignKeys
    <3>2. now' \in 0..MaxTime
      BY <2>5 DEF Tick, TypeOK
    <3>. QED  BY <2>5, <3>1, <3>2 DEF Tick, TypeOK
  <2>6. CASE OthersChange
    <3>1. AccessTypeOK'
      BY <2>6, RolesChangeType DEF OthersChange, TypeOK
    <3>2. UNCHANGED <<now, sessionVars, logs, step, got>> /\ out' = Nil
      BY <2>6 DEF OthersChange
    <3>. QED  BY <3>1, <3>2 DEF TypeOK
  <2>7. ASSUME NEW failed \in BOOLEAN, InsertLog(failed) PROVE TypeOK'
    <3>1. AccessTypeOK'
      BY <2>7 DEF InsertLog, TypeOK, AccessTypeOK, ForeignKeys
    <3>2. logs' \in Seq(Logs)
      BY <2>7 DEF InsertLog, TypeOK, Logs
    <3>. QED  BY <2>7, <3>1, <3>2 DEF InsertLog, TypeOK
  <2>8. CASE Handle
    <3>0. (UNCHANGED accessVars) => AccessTypeOK'
      BY DEF TypeOK, AccessTypeOK, ForeignKeys
    <3>1. ASSUME NEW page, Render(page), page # Nil => page.page # "audit" PROVE TypeOK'
      BY <3>0, <3>1 DEF Render, TypeOK
    <3>2. CASE CountRequestsToday
      <4>1. PICK failed \in BOOLEAN :
               Read("keys", [requests |-> IF failed THEN 0 ELSE Cardinality(Today),
                             failed |-> failed, length |-> Len(logs)])
        BY <3>2 DEF CountRequestsToday
      <4>2. Cardinality(Today) \in Nat /\ Len(logs) \in Nat
        BY LogRows DEF Today, TypeOK
      <4>. QED  BY <3>0, <4>1, <4>2 DEF Read, TypeOK
    <3>3. CASE CountActiveKeys
      BY <3>0, <3>3 DEF CountActiveKeys, Read, TypeOK
    <3>4. CASE CountErrorsToday
      BY <3>1, <3>4 DEF CountErrorsToday, StatsCards
    <3>5. ASSUME NEW S \in SUBSET DOMAIN logs, NEW failed \in BOOLEAN, ReadHours(S, failed)
          PROVE  TypeOK'
      <4>. DEFINE n == HourOf(now)  counts == ByHour(S)  exact == ByHour(DOMAIN logs)
      <4>1. n \in 0..MaxTime /\ counts \in [0..n -> Nat] /\ exact \in [0..n -> Nat]
        BY HourCounts DEF TypeOK
      <4>2. Read("chart", [counts |-> counts, exact |-> exact, failed |-> failed])
        BY <3>5 DEF ReadHours
      <4>. HIDE DEF n, counts, exact
      <4>3. got' \in [counts : [0..n -> Nat], exact : [0..n -> Nat], failed : BOOLEAN]
        BY <4>1, <4>2 DEF Read
      <4>. QED  BY <3>0, <4>1, <4>2, <4>3 DEF Read, TypeOK
    <3>6. CASE CountRequestsByHour \/ CountRequestsByHourFails
      BY <3>5, <3>6 DEF CountRequestsByHour, CountRequestsByHourFails
    <3>13. CASE ChangeInvalid \/ queryAuditLogsFails
      BY <3>1, <3>13 DEF ChangeInvalid, queryAuditLogsFails
    <3>7. CASE handleChartData
      BY <3>1, <3>7 DEF handleChartData
    <3>8. CASE ChangeRoles
      <4>1. AccessTypeOK'
        BY <3>0, <3>8, RolesChangeType DEF ChangeRoles, TypeOK
      <4>. QED  BY <3>8, <4>1 DEF ChangeRoles, TypeOK
    <3>9. CASE ListRoles
      <4>1. CASE Render(Nil)
        BY <3>1, <4>1
      <4>2. CASE Read("perms", [todo |-> roles, perms |-> [r \in {} |-> {}]])
        <5>1. roles \in SUBSET Roles
          BY DEF TypeOK, AccessTypeOK
        <5>2. [r \in {} |-> {}] \in [{} -> SUBSET Rows]
          OBVIOUS
        <5>. QED  BY <3>0, <4>2, <5>1, <5>2 DEF Read, TypeOK
      <4>. QED  BY <3>9, <4>1, <4>2 DEF ListRoles
    <3>10. ASSUME NEW r \in Roles, ListPermissionsByRole(r) PROVE TypeOK'
      <4>1. PICK p \in {rolePerms[r], {}} :
               Read("perms", [got EXCEPT !.todo = @ \ {r},
                                !.perms = [x \in DOMAIN @ \cup {r} |-> IF x = r THEN p ELSE @[x]]])
        BY <3>10 DEF ListPermissionsByRole
      <4>2. PICK R \in SUBSET Roles :
               got \in [todo : SUBSET Roles, perms : [R -> SUBSET Rows]]
        BY <3>10 DEF TypeOK, ListPermissionsByRole
      <4>3. p \in SUBSET Rows
        BY DEF TypeOK, AccessTypeOK
      <4>4. [x \in R \cup {r} |-> IF x = r THEN p ELSE got.perms[x]]
               \in [R \cup {r} -> SUBSET Rows]
        BY <4>2, <4>3
      <4>5. got' \in [todo : SUBSET Roles, perms : [R \cup {r} -> SUBSET Rows]]
        BY <4>1, <4>2, <4>4 DEF Read
      <4>6. \E Q \in SUBSET Roles :
               got' \in [todo : SUBSET Roles, perms : [Q -> SUBSET Rows]]
        <5>1. R \cup {r} \in SUBSET Roles
          OBVIOUS
        <5>. QED  BY <4>5, <5>1
      <4>7. step' = "perms" /\ out' = Nil /\ UNCHANGED <<now, sessionVars, logs, accessVars>>
        BY <4>1 DEF Read
      <4>. QED  BY <3>0, <4>6, <4>7 DEF TypeOK
    <3>11. CASE RolesList
      BY <3>1, <3>11 DEF RolesList
    <3>12. ASSUME NEW number \in 1..2, NEW wanted, queryAuditLogs(number, wanted)
           PROVE  TypeOK'
      <4>1. PICK found \in ListAuditLogs(wanted) : \E S \in Newest(found, PageSize) :
               Render(AuditResults(number, S, Cardinality(found) > PageSize))
        BY <3>12 DEF queryAuditLogs
      <4>2. PICK S \in Newest(found, PageSize) :
               Render(AuditResults(number, S, Cardinality(found) > PageSize))
        BY <4>1
      <4>3. Cardinality(S) <= PageSize /\ (S = found \/ Cardinality(S) = PageSize)
        BY DEF Newest
      <4>4. Cardinality(found) \in Nat
        <5>1. found \subseteq 1..Len(logs) /\ Len(logs) \in Nat
          BY DEF ListAuditLogs, Newest, TypeOK
        <5>2. IsFiniteSet(1..Len(logs))
          BY <5>1, FS_Interval
        <5>3. IsFiniteSet(found)
          BY <5>1, <5>2, FS_Subset
        <5>. QED  BY <5>3, FS_CardinalityType
      <4>5. out'.rows = S /\ out'.next = (Cardinality(found) > PageSize)
        BY <4>2 DEF Render, AuditResults
      <4>6. Cardinality(out'.rows) <= PageSize /\ (out'.next => Cardinality(out'.rows) = PageSize)
        <5>1. PageSize \in Nat
          OBVIOUS
        <5>2. Cardinality(found) > PageSize => Cardinality(S) = PageSize
          BY <4>3, <4>4, <5>1
        <5>. QED  BY <4>3, <4>5, <5>2
      <4>. QED  BY <3>0, <4>2, <4>6 DEF Render, TypeOK
    <3>. QED
      BY <2>8, <3>2, <3>3, <3>4, <3>6, <3>7, <3>8, <3>9, <3>10, <3>11, <3>12, <3>13 DEF Handle
  <2>9. CASE UNCHANGED vars
    BY <2>9 DEF vars, TypeOK, AccessTypeOK, ForeignKeys
  <2>. QED
    BY <2>1, <2>2, <2>3, <2>4, <2>5, <2>6, <2>7, <2>8, <2>9 DEF Next
<1>. QED  BY <1>1, <1>2, PTL DEF Spec

---------------------------------------------------------------------------
(* Sessions.  The cookie carries the moment it was set, cut off.           *)

SessionInv ==
    jar # Nil => jar.set <= now /\ jar.exp = NumericDate(jar.set + TTL)

\* Cutting off loses less than a second.
LEMMA NumericDateBounds ==
  ASSUME NEW t \in Nat
  PROVE  NumericDate(t) \in Nat /\ NumericDate(t) <= t /\ t < NumericDate(t) + Second
<1>1. Second \in Nat \ {0}
  BY DashboardAssumption
<1>. QED  BY <1>1, DivBounds DEF NumericDate

\* No handler touches the session or the clock, or renders one.
LEMMA HandleKeepsSession ==
  ASSUME Handle
  PROVE  UNCHANGED <<now, sessionVars>> /\ (out' # Nil => out'.page # "session")
<1>1. ASSUME NEW page, Render(page), page # Nil => page.page # "session"
      PROVE  UNCHANGED <<now, sessionVars>> /\ (out' # Nil => out'.page # "session")
  BY <1>1 DEF Render
<1>2. ASSUME NEW next, NEW data, Read(next, data)
      PROVE  UNCHANGED <<now, sessionVars>> /\ (out' # Nil => out'.page # "session")
  BY <1>2 DEF Read
<1>3. CASE CountRequestsToday
  BY <1>2, <1>3 DEF CountRequestsToday
<1>4. CASE CountActiveKeys \/ CountRequestsByHour \/ CountRequestsByHourFails
  BY <1>2, <1>4 DEF CountActiveKeys, CountRequestsByHour, CountRequestsByHourFails, ReadHours
<1>5. CASE CountErrorsToday
  BY <1>1, <1>5 DEF CountErrorsToday, StatsCards
<1>6. CASE ChangeInvalid \/ queryAuditLogsFails \/ ListRoles
  BY <1>1, <1>2, <1>6 DEF ChangeInvalid, queryAuditLogsFails, ListRoles
<1>7. CASE handleChartData
  BY <1>1, <1>7 DEF handleChartData
<1>8. CASE ChangeRoles
  BY <1>8 DEF ChangeRoles
<1>9. ASSUME NEW r \in Roles, ListPermissionsByRole(r)
      PROVE  UNCHANGED <<now, sessionVars>> /\ (out' # Nil => out'.page # "session")
  BY <1>2, <1>9 DEF ListPermissionsByRole
<1>10. CASE RolesList
  BY <1>1, <1>10 DEF RolesList
<1>11. ASSUME NEW number, NEW wanted, queryAuditLogs(number, wanted)
       PROVE  UNCHANGED <<now, sessionVars>> /\ (out' # Nil => out'.page # "session")
  BY <1>1, <1>11 DEF queryAuditLogs, AuditResults
<1>. QED
  BY <1>3, <1>4, <1>5, <1>6, <1>7, <1>8, <1>9, <1>10, <1>11 DEF Handle

\* requireAuth lets a session in for less than tokenTTL and refuses one signed
\* with the same secret only in its last second or later.
THEOREM DashboardSessionBounds == Spec => []SessionBounds
<1>1. Init => SessionInv /\ SessionBounds
  BY DEF Init, SessionInv, SessionBounds
<1>2. TypeOK /\ SessionInv /\ SessionBounds /\ [Next]_vars => SessionInv' /\ SessionBounds'
  <2>. SUFFICES ASSUME TypeOK, SessionInv, SessionBounds, [Next]_vars
                PROVE  SessionInv' /\ SessionBounds'
    OBVIOUS
  <2>0. /\ now \in Nat /\ secret \in Nat /\ TTL \in Nat /\ Second \in Nat
        /\ jar # Nil => jar.set \in Nat /\ jar.exp \in Nat
    BY DashboardAssumption DEF TypeOK
  <2>1. jar # Nil => jar.exp <= jar.set + TTL /\ jar.set + TTL < jar.exp + Second
    BY <2>0, NumericDateBounds DEF SessionInv
  <2>2. ASSUME UNCHANGED <<now, jar>>, out' # Nil => out'.page # "session"
        PROVE  SessionInv' /\ SessionBounds'
    BY <2>2 DEF SessionInv, SessionBounds
  <2>3. CASE Login
    <3>1. /\ jar' = [secret |-> secret, exp |-> NumericDate(now + TTL), set |-> now]
          /\ now' = now /\ out' = Nil
      BY <2>3 DEF Login, SessionCookie
    <3>2. jar'.set = now /\ jar'.exp = NumericDate(now + TTL)
      BY <3>1
    <3>3. NumericDate(jar'.set + TTL) = jar'.exp
      BY <3>2
    <3>. QED  BY <2>0, <3>1, <3>2, <3>3 DEF SessionInv, SessionBounds, NumericDate
  <2>4. CASE Logout
    BY <2>4 DEF Logout, SessionInv, SessionBounds
  <2>5. CASE Refuse
    <3>1. /\ out'.in = FALSE /\ out'.age = now - jar.set
          /\ out'.same => jar.secret = secret
          /\ jar # Nil /\ ~(jar.secret = secret /\ now < jar.exp)
          /\ jar' = Nil
      BY <2>5 DEF Refuse, Judged, ValidToken
    <3>2. out'.same => out'.age > TTL - Second
      BY <2>0, <2>1, <3>1
    <3>. QED  BY <3>1, <3>2 DEF SessionInv, SessionBounds
  <2>6. ASSUME NEW page \in DOMAIN FirstStep, Enter(page) PROVE SessionInv' /\ SessionBounds'
    <3>1. /\ out'.in = TRUE /\ out'.age = now - jar.set /\ out'.same
          /\ jar # Nil /\ jar.secret = secret /\ now < jar.exp
          /\ UNCHANGED <<now, jar>>
      BY <2>6 DEF Enter, Judged, ValidToken
    <3>2. out'.same /\ out'.age < TTL
      BY <2>0, <2>1, <3>1
    <3>. QED  BY <3>1, <3>2 DEF SessionInv, SessionBounds, NumericDate
  <2>7. CASE Restart
    BY <2>2, <2>7 DEF Restart
  <2>8. CASE Tick
    BY <2>0, <2>8 DEF Tick, SessionInv, SessionBounds, NumericDate
  <2>9. CASE OthersChange
    BY <2>2, <2>9 DEF OthersChange
  <2>10. ASSUME NEW failed, InsertLog(failed) PROVE SessionInv' /\ SessionBounds'
    BY <2>2, <2>10 DEF InsertLog
  <2>11. CASE Handle
    BY <2>2, <2>11, HandleKeepsSession
  <2>12. CASE UNCHANGED vars
    BY <2>12 DEF vars, SessionInv, SessionBounds
  <2>. QED
    BY <2>3, <2>4, <2>5, <2>6, <2>7, <2>8, <2>9, <2>10, <2>11, <2>12 DEF Next
<1>. QED  BY <1>1, <1>2, DashboardTypeOK, PTL DEF Spec

---------------------------------------------------------------------------
(* The chart.  The counts were exact for every hour that can still get a   *)
(* label, or all 0; later labels only leave hours out.                     *)

ChartInv ==
    step = "chart" =>
        /\ DOMAIN got.counts = DOMAIN got.exact
        /\ \A h \in DOMAIN got.counts : h \in Nat
        /\ \/ \A h \in DOMAIN got.counts :
                  h > HourOf(now) - Hours => got.counts[h] = got.exact[h]
           \/ got.failed /\ \A h \in DOMAIN got.counts : got.counts[h] = 0

\* An hour of the chart lies within the window whole.
LEMMA HourInWindow ==
  ASSUME now \in Nat, NEW at \in Nat, HourOf(at) > HourOf(now) - Hours
  PROVE  InWindow(at)
<1>. DEFINE q == now \div Hour
            h == at \div Hour
<1>1. Hour \in Nat \ {0} /\ Hours \in Nat
  BY DashboardAssumption
<1>2. /\ q \in Nat /\ now < q * Hour + Hour
      /\ h \in Nat /\ h * Hour <= at
  BY <1>1, DivBounds
<1>3. q - Hours + 1 <= h
  BY <1>1, <1>2 DEF HourOf
<1>. HIDE DEF q, h
<1>4. (q - Hours + 1) * Hour <= h * Hour
  BY <1>1, <1>2, <1>3
<1>5. (q - Hours + 1) * Hour = q * Hour - Hours * Hour + Hour
  BY <1>1, <1>2
<1>6. q * Hour \in Nat /\ Hours * Hour \in Nat /\ h * Hour \in Nat
  BY <1>1, <1>2
<1>7. at >= now - Hours * Hour
  BY <1>1, <1>2, <1>4, <1>5, <1>6
<1>. QED  BY <1>7 DEF InWindow

\* Each hour on the chart has its exact count as of the query, or the query
\* failed and each has 0.
THEOREM DashboardChartExact == Spec => []ChartExact
<1>1. Init => ChartInv /\ ChartExact
  BY DEF Init, ChartInv, ChartExact
<1>2. TypeOK /\ ChartInv /\ ChartExact /\ [Next]_vars => ChartInv' /\ ChartExact'
  <2>. SUFFICES ASSUME TypeOK, ChartInv, ChartExact, [Next]_vars
                PROVE  ChartInv' /\ ChartExact'
    OBVIOUS
  <2>1. ASSUME step' # "chart", out' # Nil => out'.page # "chart"
        PROVE  ChartInv' /\ ChartExact'
    BY <2>1 DEF ChartInv, ChartExact
  <2>2. ASSUME UNCHANGED <<now, step, got>>, out' = Nil PROVE ChartInv' /\ ChartExact'
    BY <2>2 DEF ChartInv, ChartExact, HourOf
  <2>3. CASE Login \/ Logout
    BY <2>2, <2>3 DEF Login, Logout
  <2>4. CASE Refuse
    BY <2>1, <2>4 DEF Refuse, Judged
  <2>5. CASE Restart
    BY <2>1, <2>5 DEF Restart
  <2>6. ASSUME NEW page \in DOMAIN FirstStep, Enter(page) PROVE ChartInv' /\ ChartExact'
    <3>1. step' \in {"requests", "hours", "list", "statement", "audit"}
      BY <2>6 DEF Enter, FirstStep
    <3>2. out'.page # "chart"
      BY <2>6 DEF Enter, Judged
    <3>. QED  BY <2>1, <3>1, <3>2
  <2>7. CASE Tick
    <3>1. now \in Nat /\ now' \in Nat /\ now <= now' /\ Hour \in Nat \ {0} /\ Hours \in Nat
      BY <2>7, DashboardAssumption DEF Tick, TypeOK
    <3>2. HourOf(now) <= HourOf(now') /\ HourOf(now) \in Nat /\ HourOf(now') \in Nat
      BY <3>1, DivMono, DivBounds DEF HourOf
    <3>3. UNCHANGED <<step, got>> /\ out' = Nil
      BY <2>7 DEF Tick
    <3>. QED  BY <3>1, <3>2, <3>3 DEF ChartInv, ChartExact, HourOf
  <2>8. CASE OthersChange
    BY <2>2, <2>8 DEF OthersChange
  <2>9. ASSUME NEW failed, InsertLog(failed) PROVE ChartInv' /\ ChartExact'
    BY <2>2, <2>9 DEF InsertLog
  <2>10. CASE CountRequestsByHour
    <3>. DEFINE exact == ByHour(DOMAIN logs)
                windowed == {i \in DOMAIN logs : InWindow(logs[i].at)}
                counts == ByHour(windowed)
    <3>1. /\ step' = "chart" /\ got' = [counts |-> counts, exact |-> exact, failed |-> FALSE]
          /\ out' = Nil /\ now' = now
      BY <2>10 DEF CountRequestsByHour, ReadHours, Read
    <3>2. ASSUME NEW h \in 0..HourOf(now), h > HourOf(now) - Hours
          PROVE  CountIn(h, windowed) = CountIn(h, DOMAIN logs)
      <4>1. \A i \in DOMAIN logs : logs[i].at \in Nat
        BY LogTimes DEF TypeOK
      <4>2. now \in Nat
        BY DashboardAssumption DEF TypeOK
      <4>3. \A i \in DOMAIN logs : HourOf(logs[i].at) = h => i \in windowed
        BY <3>2, <4>1, <4>2, HourInWindow
      <4>4. {i \in windowed : HourOf(logs[i].at) = h} = {i \in DOMAIN logs : HourOf(logs[i].at) = h}
        BY <4>3
      <4>. QED  BY <4>4 DEF CountIn
    <3>3. /\ got'.counts = counts /\ got'.exact = exact
          /\ DOMAIN counts = 0..HourOf(now) /\ DOMAIN exact = 0..HourOf(now)
          /\ HourOf(now)' = HourOf(now)
      BY <3>1 DEF HourOf, ByHour
    <3>4. \A h \in 0..HourOf(now) : h > HourOf(now) - Hours => counts[h] = exact[h]
      BY <3>2 DEF ByHour
    <3>. HIDE DEF counts, exact
    <3>. QED  BY <3>1, <3>3, <3>4 DEF ChartInv, ChartExact
  <2>11. CASE handleChartData
    <3>. DEFINE hours == {h \in 0..HourOf(now) : h > HourOf(now) - Hours}
                Of(f) == [h \in hours |-> IF h \in DOMAIN f THEN f[h] ELSE 0]
    <3>1. /\ step = "chart"
          /\ Render([page |-> "chart", data |-> Of(got.counts), exact |-> Of(got.exact),
                     failed |-> got.failed])
      BY <2>11 DEF handleChartData
    <3>2. \/ Of(got.counts) = Of(got.exact)
          \/ got.failed /\ \A h \in DOMAIN Of(got.counts) : Of(got.counts)[h] = 0
      BY <3>1 DEF ChartInv
    <3>3. /\ out'.data = Of(got.counts) /\ out'.exact = Of(got.exact)
          /\ out'.failed = got.failed /\ step' = "idle"
      BY <3>1 DEF Render
    <3>. HIDE DEF Of
    <3>. QED  BY <3>2, <3>3 DEF ChartInv, ChartExact
  <2>14. CASE CountRequestsByHourFails
    <3>. DEFINE counts == ByHour({})  exact == ByHour(DOMAIN logs)
    <3>1. /\ step' = "chart" /\ out' = Nil /\ now' = now
          /\ got' = [counts |-> counts, exact |-> exact, failed |-> TRUE]
      BY <2>14 DEF CountRequestsByHourFails, ReadHours, Read
    <3>2. \A h : CountIn(h, {}) = 0
      BY FS_EmptySet DEF CountIn
    <3>3. /\ DOMAIN counts = 0..HourOf(now) /\ DOMAIN exact = 0..HourOf(now)
          /\ \A h \in DOMAIN counts : counts[h] = 0
      BY <3>2 DEF ByHour
    <3>4. /\ got'.counts = counts /\ got'.exact = exact /\ got'.failed
          /\ HourOf(now)' = HourOf(now)
      BY <3>1 DEF HourOf
    <3>. HIDE DEF counts, exact
    <3>5. ChartExact'
      BY <3>1 DEF ChartExact
    <3>6. ChartInv'
      BY <3>1, <3>3, <3>4 DEF ChartInv
    <3>. QED  BY <3>5, <3>6
  <2>12. CASE Handle /\ ~CountRequestsByHour /\ ~CountRequestsByHourFails /\ ~handleChartData
    <3>1. ASSUME NEW page, Render(page), page # Nil => page.page # "chart"
          PROVE  ChartInv' /\ ChartExact'
      BY <2>1, <3>1 DEF Render
    <3>2. ASSUME NEW next, NEW data, Read(next, data), next # "chart"
          PROVE  ChartInv' /\ ChartExact'
      BY <2>1, <3>2 DEF Read
    <3>3. CASE CountRequestsToday \/ CountActiveKeys \/ CountErrorsToday
      BY <3>1, <3>2, <3>3 DEF CountRequestsToday, CountActiveKeys, CountErrorsToday, StatsCards
    <3>4. CASE ChangeInvalid \/ queryAuditLogsFails \/ RolesList
      BY <3>1, <3>4 DEF ChangeInvalid, queryAuditLogsFails, RolesList
    <3>5. CASE ChangeRoles
      BY <2>1, <3>5 DEF ChangeRoles
    <3>6. CASE ListRoles
      BY <3>1, <3>2, <3>6 DEF ListRoles
    <3>7. ASSUME NEW r \in Roles, ListPermissionsByRole(r) PROVE ChartInv' /\ ChartExact'
      BY <3>2, <3>7 DEF ListPermissionsByRole
    <3>8. ASSUME NEW number, NEW wanted, queryAuditLogs(number, wanted)
          PROVE  ChartInv' /\ ChartExact'
      BY <3>1, <3>8 DEF queryAuditLogs, AuditResults
    <3>. QED  BY <2>12, <3>3, <3>4, <3>5, <3>6, <3>7, <3>8 DEF Handle
  <2>13. CASE UNCHANGED vars
    BY <2>13 DEF vars, ChartInv, ChartExact, HourOf
  <2>. QED
    BY <2>3, <2>4, <2>5, <2>6, <2>7, <2>8, <2>9, <2>10, <2>11, <2>12, <2>13, <2>14
    DEF Next
<1>. QED  BY <1>1, <1>2, DashboardTypeOK, PTL DEF Spec

---------------------------------------------------------------------------
(* The home page.  What was counted as of today covers the rows of the     *)
(* first query that are still today's.                                     *)

Since(n) == {i \in 1..n : logs[i].at >= (now \div Day) * Day}

StatsInv ==
    step \in {"keys", "errors"} =>
        /\ got.length \in 0..Len(logs)
        /\ ~got.failed => Cardinality(Since(got.length)) <= got.requests
        /\ got.failed => got.requests = 0

\* A step that keeps the first rows and does not turn back the clock.
LEMMA SinceShrinks ==
  ASSUME TypeOK, NEW n \in 0..Len(logs), now' \in Nat, now <= now',
         \A i \in 1..n : logs'[i] = logs[i]
  PROVE  /\ Cardinality(Since(n)') \in Nat /\ Cardinality(Since(n)) \in Nat
         /\ Cardinality(Since(n)') <= Cardinality(Since(n))
<1>1. now \in Nat /\ Day \in Nat \ {0}
  BY DashboardAssumption DEF TypeOK
<1>2. /\ (now \div Day) * Day <= (now' \div Day) * Day
      /\ (now \div Day) * Day \in Nat /\ (now' \div Day) * Day \in Nat
  BY <1>1, DivMono, DivBounds
<1>3. \A i \in 1..n : logs[i].at \in Nat
  <2>1. Len(logs) \in Nat /\ DOMAIN logs = 1..Len(logs)
    BY DEF TypeOK
  <2>2. \A i \in 1..n : i \in DOMAIN logs
    BY <2>1
  <2>. QED  BY <2>2, LogTimes DEF TypeOK
<1>4. Since(n)' \in SUBSET Since(n)
  BY <1>2, <1>3 DEF Since
<1>5. IsFiniteSet(1..n) /\ Since(n) \in SUBSET (1..n)
  <2>1. 1 \in Int /\ n \in Int
    OBVIOUS
  <2>2. IsFiniteSet(1..n)
    BY <2>1, FS_Interval
  <2>. QED  BY <2>2 DEF Since
<1>6. IsFiniteSet(Since(n))
  BY <1>5, FS_Subset
<1>7. IsFiniteSet(Since(n)') /\ Cardinality(Since(n)') <= Cardinality(Since(n))
  BY <1>4, <1>6, FS_Subset
<1>. QED  BY <1>6, <1>7, FS_CardinalityType

\* The rows with errors of today are among the ones counted and the new ones.
LEMMA ErrorsCovered ==
  ASSUME TypeOK, NEW n \in 0..Len(logs)
  PROVE  /\ ErrorsToday \in Nat /\ Cardinality(Since(n)) \in Nat
         /\ ErrorsToday <= Cardinality(Since(n)) + (Len(logs) - n)
<1>. DEFINE errors == {i \in Today : logs[i].failed}
            new == (n + 1)..Len(logs)
<1>1. Len(logs) \in Nat /\ n \in Nat /\ DOMAIN logs = 1..Len(logs)
  BY DEF TypeOK
<1>2. IsFiniteSet(Since(n)) /\ Cardinality(Since(n)) \in Nat
  <2>1. Since(n) \in SUBSET DOMAIN logs
    BY <1>1 DEF Since
  <2>. QED  BY <2>1, LogRows DEF TypeOK
<1>3. IsFiniteSet(new) /\ Cardinality(new) = Len(logs) - n
  <2>1. n + 1 \in Int /\ Len(logs) \in Int
    BY <1>1
  <2>2. IsFiniteSet(new) /\ Cardinality(new) = IF n + 1 > Len(logs) THEN 0 ELSE Len(logs) - (n + 1) + 1
    BY <2>1, FS_Interval
  <2>. QED  BY <1>1, <2>2
<1>4. errors \in SUBSET (Since(n) \cup new)
  BY <1>1 DEF Today, Since
<1>. HIDE DEF new
<1>5. /\ IsFiniteSet(Since(n) \cup new)
      /\ Cardinality(Since(n) \cup new)
            = Cardinality(Since(n)) + Cardinality(new) - Cardinality(Since(n) \cap new)
  BY <1>2, <1>3, FS_Union
<1>6. Cardinality(Since(n) \cap new) \in Nat
  <2>1. IsFiniteSet(Since(n) \cap new)
    BY <1>2, FS_Subset
  <2>. QED  BY <2>1, FS_CardinalityType
<1>7. IsFiniteSet(errors) /\ Cardinality(errors) <= Cardinality(Since(n) \cup new)
  BY <1>4, <1>5, FS_Subset
<1>8. Cardinality(errors) \in Nat
  BY <1>7, FS_CardinalityType
<1>9. Cardinality(errors) <= Cardinality(Since(n)) + (Len(logs) - n)
  BY <1>1, <1>2, <1>3, <1>5, <1>6, <1>7, <1>8
<1>. QED  BY <1>2, <1>8, <1>9 DEF ErrorsToday

\* With no more errors than requests the rate is at most 100%, rounded or not.
LEMMA RateBound ==
  ASSUME NEW requests \in Nat, NEW errors \in Nat, errors <= requests
  PROVE  ErrorRate(requests, errors) <= 1000
<1>1. CASE requests = 0
  BY <1>1 DEF ErrorRate
<1>2. CASE requests > 0
  <2>. DEFINE a == 2000 * errors + requests
              d == 2 * requests
              q == a \div d
  <2>1. a \in Nat /\ d \in Nat \ {0} /\ a < 1001 * d
    BY <1>2
  <2>2. q \in Nat /\ q * d <= a
    <3>. HIDE DEF a, d
    <3>. QED  BY <2>1, DivBounds
  <2>3. q <= 1000
    <3>. HIDE DEF a, d, q
    <3>1. ASSUME q >= 1001 PROVE FALSE
      <4>1. q * d >= 1001 * d
        BY <2>1, <2>2, <3>1
      <4>2. q * d \in Nat /\ 1001 * d \in Nat
        BY <2>1, <2>2
      <4>. QED  BY <2>1, <2>2, <4>1, <4>2
    <3>. QED  BY <2>2, <3>1
  <2>. QED  BY <1>2, <2>3 DEF ErrorRate
<1>. QED  BY <1>1, <1>2

\* Unless the first count failed, more errors than requests are shown only for
\* entries written between the two counts; and a rate over 100% only for them.
THEOREM DashboardStatsBounded == Spec => []StatsBounded
<1>1. Init => StatsInv /\ StatsBounded
  BY DEF Init, StatsInv, StatsBounded
<1>2. TypeOK /\ StatsInv /\ StatsBounded /\ [Next]_vars => StatsInv' /\ StatsBounded'
  <2>. SUFFICES ASSUME TypeOK, StatsInv, StatsBounded, [Next]_vars
                PROVE  StatsInv' /\ StatsBounded'
    OBVIOUS
  <2>0. now \in Nat /\ Len(logs) \in Nat /\ (step \in {"keys", "errors"} => got.requests \in Nat)
    BY DashboardAssumption DEF TypeOK
  <2>1. ASSUME step' \notin {"keys", "errors"}, out' # Nil => out'.page # "stats"
        PROVE  StatsInv' /\ StatsBounded'
    BY <2>1 DEF StatsInv, StatsBounded
  <2>2. ASSUME step' \in {"keys", "errors"} => step \in {"keys", "errors"} /\ got' = got,
               now' \in Nat, now <= now', Len(logs') \in Nat, Len(logs) <= Len(logs'),
               \A i \in 1..Len(logs) : logs'[i] = logs[i], out' = Nil
        PROVE  StatsInv' /\ StatsBounded'
    <3>. SUFFICES ASSUME step' \in {"keys", "errors"} PROVE StatsInv'
      BY <2>2 DEF StatsInv, StatsBounded
    <3>1. step \in {"keys", "errors"} /\ got' = got /\ got.length \in 0..Len(logs)
      BY <2>2 DEF StatsInv
    <3>2. PICK n \in 0..Len(logs) : n = got.length
      BY <3>1
    <3>3. \A i \in 1..n : logs'[i] = logs[i]
      BY <2>0, <2>2
    <3>4. /\ Cardinality(Since(n)') \in Nat /\ Cardinality(Since(n)) \in Nat
          /\ Cardinality(Since(n)') <= Cardinality(Since(n))
      BY <2>2, <3>3, SinceShrinks
    <3>5. Since(got.length)' = Since(n)' /\ Since(got.length) = Since(n)
      BY <3>1, <3>2 DEF Since
    <3>6. ~got.failed => Cardinality(Since(n)) <= got.requests
      BY <3>1, <3>5 DEF StatsInv
    <3>7. ~got'.failed => Cardinality(Since(got.length)') <= got'.requests
      BY <2>0, <3>1, <3>4, <3>5, <3>6
    <3>8. got'.length \in 0..Len(logs') /\ (got'.failed => got'.requests = 0)
      BY <2>0, <2>2, <3>1 DEF StatsInv
    <3>. QED  BY <3>7, <3>8 DEF StatsInv
  <2>3. ASSUME UNCHANGED <<now, logs>>, out' = Nil,
               step' \in {"keys", "errors"} => step \in {"keys", "errors"} /\ got' = got
        PROVE  StatsInv' /\ StatsBounded'
    BY <2>0, <2>2, <2>3
  <2>4. CASE Login \/ Logout
    BY <2>3, <2>4 DEF Login, Logout
  <2>5. CASE Refuse
    BY <2>1, <2>5 DEF Refuse, Judged
  <2>6. CASE Restart
    BY <2>1, <2>6 DEF Restart
  <2>7. ASSUME NEW page \in DOMAIN FirstStep, Enter(page) PROVE StatsInv' /\ StatsBounded'
    <3>1. step' \in {"requests", "hours", "list", "statement", "audit"}
      BY <2>7 DEF Enter, FirstStep
    <3>2. out'.page # "stats"
      BY <2>7 DEF Enter, Judged
    <3>. QED  BY <2>1, <3>1, <3>2
  <2>8. CASE Tick
    BY <2>0, <2>2, <2>8 DEF Tick
  <2>9. CASE OthersChange
    BY <2>3, <2>9 DEF OthersChange
  <2>10. ASSUME NEW failed \in BOOLEAN, InsertLog(failed) PROVE StatsInv' /\ StatsBounded'
    <3>1. logs \in Seq(Logs) /\ [at |-> now, failed |-> failed] \in Logs
      BY <2>0 DEF TypeOK, Logs
    <3>2. logs' = Append(logs, [at |-> now, failed |-> failed])
      BY <2>10 DEF InsertLog
    <3>3. /\ Len(logs') = Len(logs) + 1
          /\ \A i \in 1..Len(logs) : logs'[i] = logs[i]
      BY <3>1, <3>2
    <3>4. UNCHANGED <<now, step, got>> /\ out' = Nil
      BY <2>10 DEF InsertLog
    <3>. QED  BY <2>0, <2>2, <3>3, <3>4
  <2>11. CASE CountRequestsToday
    <3>1. PICK failed \in BOOLEAN :
             Read("keys", [requests |-> IF failed THEN 0 ELSE Cardinality(Today),
                           failed |-> failed, length |-> Len(logs)])
      BY <2>11 DEF CountRequestsToday
    <3>2. /\ got'.requests = (IF failed THEN 0 ELSE Cardinality(Today)) /\ got'.failed = failed
          /\ got'.length = Len(logs) /\ UNCHANGED <<now, logs>> /\ out' = Nil
      BY <3>1 DEF Read
    <3>3. DOMAIN logs = 1..Len(logs)
      BY DEF TypeOK
    <3>4. Since(got.length)' = Today
      BY <3>2, <3>3 DEF Since, Today
    <3>5. Cardinality(Today) \in Nat
      BY LogRows DEF Today, TypeOK
    <3>6. ~got'.failed => Cardinality(Since(got.length)') <= got'.requests
      BY <3>2, <3>4, <3>5
    <3>. QED  BY <2>0, <3>2, <3>6 DEF StatsInv, StatsBounded
  <2>12. CASE CountActiveKeys
    BY <2>3, <2>12 DEF CountActiveKeys, Read
  <2>13. CASE CountErrorsToday
    <3>1. step = "errors"
      BY <2>13 DEF CountErrorsToday, StatsCards
    <3>2. PICK n \in {0, ErrorsToday} : Render(StatsCards(n))
      BY <2>13 DEF CountErrorsToday
    <3>3. PICK m \in 0..Len(logs) : m = got.length
      BY <3>1 DEF StatsInv
    <3>4. /\ ErrorsToday \in Nat /\ Cardinality(Since(m)) \in Nat
          /\ ErrorsToday <= Cardinality(Since(m)) + (Len(logs) - m)
      BY ErrorsCovered
    <3>5. /\ ~got.failed => Cardinality(Since(m)) <= got.requests
          /\ got.failed => got.requests = 0
      BY <3>1, <3>3 DEF StatsInv
    <3>6. /\ out'.requests = got.requests /\ out'.errors = n /\ out'.grown = Len(logs) - m
          /\ out'.failed = got.failed /\ out'.rate = ErrorRate(got.requests, n)
          /\ step' = "idle"
      BY <3>2, <3>3 DEF Render, StatsCards
    <3>7. n \in Nat /\ got.requests \in Nat
      BY <2>0, <3>1, <3>4
    <3>8. ~got.failed => n <= got.requests + (Len(logs) - m)
      BY <2>0, <3>4, <3>5, <3>7
    <3>9. Len(logs) - m = 0 => ErrorRate(got.requests, n) <= 1000
      <4>1. CASE got.failed
        BY <3>5, <4>1 DEF ErrorRate
      <4>2. ASSUME ~got.failed, Len(logs) - m = 0 PROVE ErrorRate(got.requests, n) <= 1000
        BY <2>0, <3>7, <3>8, <4>2, RateBound
      <4>. QED  BY <4>1, <4>2
    <3>. QED  BY <3>6, <3>8, <3>9 DEF StatsInv, StatsBounded
  <2>14. CASE Handle /\ ~CountRequestsToday /\ ~CountActiveKeys /\ ~CountErrorsToday
    <3>1. ASSUME NEW page, Render(page), page # Nil => page.page # "stats"
          PROVE  StatsInv' /\ StatsBounded'
      BY <2>1, <3>1 DEF Render
    <3>2. ASSUME NEW next, NEW data, Read(next, data), next \notin {"keys", "errors"}
          PROVE  StatsInv' /\ StatsBounded'
      BY <2>1, <3>2 DEF Read
    <3>3. CASE CountRequestsByHour \/ CountRequestsByHourFails
      BY <3>2, <3>3 DEF CountRequestsByHour, CountRequestsByHourFails, ReadHours
    <3>4. CASE ChangeInvalid \/ queryAuditLogsFails \/ RolesList
      BY <3>1, <3>4 DEF ChangeInvalid, queryAuditLogsFails, RolesList
    <3>5. CASE ChangeRoles
      BY <2>1, <3>5 DEF ChangeRoles
    <3>6. CASE ListRoles
      BY <3>1, <3>2, <3>6 DEF ListRoles
    <3>7. ASSUME NEW r \in Roles, ListPermissionsByRole(r) PROVE StatsInv' /\ StatsBounded'
      BY <3>2, <3>7 DEF ListPermissionsByRole
    <3>8. ASSUME NEW number, NEW wanted, queryAuditLogs(number, wanted)
          PROVE  StatsInv' /\ StatsBounded'
      BY <3>1, <3>8 DEF queryAuditLogs, AuditResults
    <3>9. CASE handleChartData
      BY <3>1, <3>9 DEF handleChartData
    <3>. QED  BY <2>14, <3>3, <3>4, <3>5, <3>6, <3>7, <3>8, <3>9 DEF Handle
  <2>15. CASE UNCHANGED vars
    <3>1. UNCHANGED <<now, logs, step, got, out>>
      BY <2>15 DEF vars
    <3>. QED  BY <3>1 DEF StatsInv, StatsBounded, Since
  <2>. QED
    BY <2>4, <2>5, <2>6, <2>7, <2>8, <2>9, <2>10, <2>11, <2>12, <2>13, <2>14, <2>15 DEF Next
<1>. QED  BY <1>1, <1>2, DashboardTypeOK, PTL DEF Spec
=============================================================================
