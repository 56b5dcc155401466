---------------------------- MODULE AccessTables ----------------------------
(***************************************************************************)
(* The tables roles, permissions and api_key_roles                         *)
(* (migrations/001_initial.sql) and the statements of internal/store that  *)
(* change them.  The dashboard issues them one at a time; each is its own  *)
(* transaction.  A permission is the row (role, resource, action); what a  *)
(* (resource, action) pattern matches is given by Matches.                 *)
(***************************************************************************)
EXTENDS FiniteSets

CONSTANTS
    Keys,    \* api_keys.id
    Roles,   \* roles.id
    Rows,    \* (resource, action) patterns
    Tools,   \* names a tools/call may carry
    Matches  \* the tools each pattern matches

ASSUME MatchesAssumption == Matches \in [Rows -> SUBSET Tools]

VARIABLES
    apiKeys,    \* the rows of api_keys
    roles,      \* the rows of roles
    rolePerms,  \* the permissions of each role
    keyRoles    \* the roles assigned to each key

accessVars == <<apiKeys, roles, rolePerms, keyRoles>>

\* Foreign keys of 001_initial.sql: only existing roles have permissions or
\* are assigned, and only to existing keys.
ForeignKeys ==
    /\ \A r \in Roles \ roles : rolePerms[r] = {}
    /\ \A k \in Keys : keyRoles[k] \subseteq roles
    /\ \A k \in Keys \ apiKeys : keyRoles[k] = {}

AccessInit ==
    /\ apiKeys = Keys
    /\ roles \in SUBSET Roles
    /\ rolePerms \in [Roles -> SUBSET Rows]
    /\ keyRoles \in [Keys -> SUBSET Roles]
    /\ ForeignKeys

\* GetPermissionsByKeyID: every permission of every role of the key; a key
\* without any gets the nil slice.
DbPerms(k) == UNION {rolePerms[r] : r \in keyRoles[k]}

CreateRole(r) ==
    /\ r \notin roles
    /\ roles' = roles \cup {r}
    /\ UNCHANGED <<apiKeys, rolePerms, keyRoles>>

\* Deleting the role row without the cascade to permissions.
DeleteRoleNoCascade(r) ==
    /\ r \in roles
    /\ roles' = roles \ {r}
    /\ keyRoles' = [k \in Keys |-> keyRoles[k] \ {r}]
    /\ UNCHANGED <<apiKeys, rolePerms>>

\* ON DELETE CASCADE removes the role's permissions and assignments.
DeleteRole(r) ==
    /\ r \in roles
    /\ roles' = roles \ {r}
    /\ rolePerms' = [rolePerms EXCEPT ![r] = {}]
    /\ keyRoles' = [k \in Keys |-> keyRoles[k] \ {r}]
    /\ UNCHANGED apiKeys

\* A second copy of a permission violates UNIQUE (role_id, resource, action).
AddPermission(r, x) ==
    /\ r \in roles /\ x \notin rolePerms[r]
    /\ rolePerms' = [rolePerms EXCEPT ![r] = @ \cup {x}]
    /\ UNCHANGED <<apiKeys, roles, keyRoles>>

DeletePermission(r, x) ==
    /\ x \in rolePerms[r]
    /\ rolePerms' = [rolePerms EXCEPT ![r] = @ \ {x}]
    /\ UNCHANGED <<apiKeys, roles, keyRoles>>

AssignRoleToKey(k, r) ==
    /\ k \in apiKeys /\ r \in roles \ keyRoles[k]
    /\ keyRoles' = [keyRoles EXCEPT ![k] = @ \cup {r}]
    /\ UNCHANGED <<apiKeys, roles, rolePerms>>

RemoveRoleFromKey(k, r) ==
    /\ r \in keyRoles[k]
    /\ keyRoles' = [keyRoles EXCEPT ![k] = @ \ {r}]
    /\ UNCHANGED <<apiKeys, roles, rolePerms>>

\* DeleteAPIKey succeeds for a key without audit_logs rows; the cascade
\* empties its assignments.
DeleteAPIKey(k) ==
    /\ k \in apiKeys
    /\ apiKeys' = apiKeys \ {k}
    /\ keyRoles' = [keyRoles EXCEPT ![k] = {}]
    /\ UNCHANGED <<roles, rolePerms>>

AccessNext ==
    \/ \E r \in Roles : CreateRole(r) \/ DeleteRole(r)
    \/ \E r \in Roles, x \in Rows : AddPermission(r, x) \/ DeletePermission(r, x)
    \/ \E k \in Keys, r \in Roles : AssignRoleToKey(k, r) \/ RemoveRoleFromKey(k, r)
    \/ \E k \in Keys : DeleteAPIKey(k)

AccessTypeOK ==
    /\ apiKeys \subseteq Keys
    /\ roles \subseteq Roles
    /\ rolePerms \in [Roles -> SUBSET Rows]
    /\ keyRoles \in [Keys -> SUBSET Roles]
    /\ ForeignKeys
=============================================================================
