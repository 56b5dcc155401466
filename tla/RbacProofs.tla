----------------------------- MODULE RbacProofs -----------------------------
(***************************************************************************)
(* Theorems about the permission cache, for every set of keys, roles,      *)
(* patterns and concurrent requests.                                       *)
(***************************************************************************)
EXTENDS Rbac, TLAPS

USE DEF accessVars, request

---------------------------------------------------------------------------
(* The tables.                                                             *)

\* Every statement keeps the foreign keys.
LEMMA TablesKept ==
  ASSUME AccessTypeOK, AccessNext
  PROVE  AccessTypeOK'
<1>. USE DEF AccessTypeOK, ForeignKeys
<1>1. ASSUME NEW r \in Roles, CreateRole(r) PROVE AccessTypeOK'
  BY <1>1 DEF CreateRole
<1>2. ASSUME NEW r \in Roles, DeleteRole(r) PROVE AccessTypeOK'
  BY <1>2 DEF DeleteRole
<1>3. ASSUME NEW r \in Roles, NEW x \in Rows, AddPermission(r, x) PROVE AccessTypeOK'
  BY <1>3 DEF AddPermission
<1>4. ASSUME NEW r \in Roles, NEW x \in Rows, DeletePermission(r, x) PROVE AccessTypeOK'
  BY <1>4 DEF DeletePermission
<1>5. ASSUME NEW k \in Keys, NEW r \in Roles, AssignRoleToKey(k, r) PROVE AccessTypeOK'
  BY <1>5 DEF AssignRoleToKey
<1>6. ASSUME NEW k \in Keys, NEW r \in Roles, RemoveRoleFromKey(k, r) PROVE AccessTypeOK'
  BY <1>6 DEF RemoveRoleFromKey
<1>7. ASSUME NEW k \in Keys, DeleteAPIKey(k) PROVE AccessTypeOK'
  BY <1>7 DEF DeleteAPIKey
<1>. QED
  BY <1>1, <1>2, <1>3, <1>4, <1>5, <1>6, <1>7 DEF AccessNext

\* What the query returns is a set of patterns.
LEMMA DbPermsType ==
  ASSUME AccessTypeOK, NEW k \in Keys
  PROVE  DbPerms(k) \in SUBSET Rows
  BY DEF AccessTypeOK, DbPerms

---------------------------------------------------------------------------
(* Type correctness.                                                       *)

\* Every goroutine past its first look has a key and a set of patterns, and
\* the foreign keys of the tables hold.
THEOREM TypeCorrect == Spec => []TypeOK
<1>1. Init => TypeOK
  <2>. SUFFICES ASSUME Init PROVE TypeOK
    OBVIOUS
  <2>1. AccessTypeOK
    BY DEF Init, AccessInit, AccessTypeOK, ForeignKeys
  <2>2. \A k \in Keys : DbPerms(k) \in SUBSET Rows
    BY <2>1, DbPermsType
  <2>. QED  BY <2>1, <2>2 DEF Init, TypeOK
<1>2. TypeOK /\ [Next]_vars => TypeOK'
  <2>. SUFFICES ASSUME TypeOK, [Next]_vars PROVE TypeOK'
    OBVIOUS
  <2>1. CASE UNCHANGED accessVars
    <3>1. AccessTypeOK'
      BY <2>1 DEF TypeOK, AccessTypeOK, ForeignKeys
    <3>. USE DEF TypeOK
    <3>2. ASSUME NEW p \in Procs, NEW k \in Keys, NEW t \in Tools \cup {NoTool},
                 Check(p, k, t)
          PROVE  TypeOK'
      <4>1. CASE t # NoTool /\ cache[k] # Nil
        <5>1. cache[k] \in SUBSET Rows
          BY <4>1
        <5>2. /\ pc' = [pc EXCEPT ![p] = "done"]
              /\ perms' = [perms EXCEPT ![p] = cache[k]]
              /\ synced' = [synced EXCEPT ![p] = TRUE]
          BY <3>2, <4>1 DEF Check, Goto
        <5>. QED  BY <3>1, <3>2, <5>1, <5>2 DEF Check
      <4>2. CASE ~(t # NoTool /\ cache[k] # Nil)
        <5>1. /\ UNCHANGED <<perms, synced>>
              /\ \E to \in {"done", "query"} : pc' = [pc EXCEPT ![p] = to]
          BY <3>2, <4>2 DEF Check, Goto
        <5>. QED  BY <3>1, <3>2, <5>1 DEF Check
      <4>. QED  BY <4>1, <4>2
    <3>3. ASSUME NEW p \in Procs, Query(p) PROVE TypeOK'
      <4>1. DbPerms(key[p]) \in SUBSET Rows
        BY <3>3, DbPermsType DEF Query, Goto
      <4>. QED  BY <3>1, <3>3, <4>1 DEF Query, Goto
    <3>4. ASSUME NEW p \in Procs, QueryFails(p) PROVE TypeOK'
      BY <3>1, <3>4 DEF QueryFails, Goto
    <3>5. ASSUME NEW p \in Procs, Fill(p) PROVE TypeOK'
      BY <3>1, <3>5 DEF Fill, Goto
    <3>6. ASSUME NEW p \in Procs, Return(p) PROVE TypeOK'
      BY <3>1, <3>6 DEF Return, Goto
    <3>7. ASSUME NEW k \in Keys, InvalidateCache(k) PROVE TypeOK'
      <4>1. DbPerms(k) \in SUBSET Rows
        BY DbPermsType
      <4>. QED  BY <3>1, <3>7, <4>1 DEF InvalidateCache, ForgetHistory
    <3>8. CASE UNCHANGED vars
      BY <3>1, <3>8 DEF vars
    <3>9. CASE ChangeTables
      <4>1. \A k \in Keys : DbPerms(k)' \in SUBSET Rows
        BY <3>1 DEF DbPerms, AccessTypeOK
      <4>. QED  BY <3>1, <3>9, <4>1 DEF ChangeTables
    <3>. QED
      BY <3>2, <3>3, <3>4, <3>5, <3>6, <3>7, <3>8, <3>9 DEF Next, Step
  <2>2. CASE ChangeTables
    <3>1. AccessTypeOK'
      BY <2>2, TablesKept DEF TypeOK, ChangeTables
    <3>2. \A k \in Keys : DbPerms(k)' \in SUBSET Rows
      BY <3>1 DEF DbPerms, AccessTypeOK
    <3>. QED  BY <2>2, <3>1, <3>2 DEF ChangeTables, TypeOK
  <2>3. UNCHANGED accessVars \/ ChangeTables
    BY DEF Next, Step, Check, Query, QueryFails, Fill, Return, InvalidateCache, vars
  <2>. QED  BY <2>1, <2>2, <2>3
<1>. QED  BY <1>1, <1>2, PTL DEF Spec

---------------------------------------------------------------------------
(* Agreement of decisions.                                                 *)

\* Strengthened: the entry a decision was taken from is still there, so no
\* other fill can have replaced it.
AgreementInv ==
    \A p \in Procs : synced[p] =>
        /\ pc[p] = "done" /\ key[p] \in Keys
        /\ cache[key[p]] # Nil
        /\ perms[p] = cache[key[p]]

\* Between invalidations every request of a key is judged by one and the same
\* set of permissions.
THEOREM DecisionsAgree == Spec => []Agreement
<1>1. Init => AgreementInv
  BY DEF Init, AgreementInv
<1>2. TypeOK /\ AgreementInv /\ [Next]_vars => AgreementInv'
  <2>. SUFFICES ASSUME TypeOK, AgreementInv, [Next]_vars PROVE AgreementInv'
    OBVIOUS
  <2>. USE RbacAssumption DEF TypeOK, AgreementInv
  <2>1. ASSUME NEW p \in Procs, NEW k \in Keys, NEW t \in Tools \cup {NoTool},
               Check(p, k, t)
        PROVE  AgreementInv'
    BY <2>1 DEF Check, Goto
  <2>2. ASSUME NEW p \in Procs, Query(p) PROVE AgreementInv'
    BY <2>2 DEF Query, Goto
  <2>3. ASSUME NEW p \in Procs, QueryFails(p) PROVE AgreementInv'
    BY <2>3 DEF QueryFails, Goto
  <2>4. ASSUME NEW p \in Procs, Fill(p) PROVE AgreementInv'
    BY <2>4 DEF Fill, Goto
  <2>5. ASSUME NEW p \in Procs, Return(p) PROVE AgreementInv'
    BY <2>5 DEF Return, Goto
  <2>6. ASSUME NEW k \in Keys, InvalidateCache(k) PROVE AgreementInv'
    BY <2>6 DEF InvalidateCache, ForgetHistory
  <2>7. CASE ChangeTables
    BY <2>7 DEF ChangeTables
  <2>8. CASE UNCHANGED vars
    BY <2>8 DEF vars
  <2>. QED
    BY <2>1, <2>2, <2>3, <2>4, <2>5, <2>6, <2>7, <2>8 DEF Next, Step
<1>3. AgreementInv => Agreement
  BY DEF AgreementInv, Agreement
<1>. QED  BY <1>1, <1>2, <1>3, TypeCorrect, PTL DEF Spec

---------------------------------------------------------------------------
(* Freshness of the cache.                                                 *)

\* Strengthened: what the tables hold is always part of the history, and so is
\* what a request holds between its query and its store, unless it was there
\* when the key was invalidated.
RecentInv ==
    /\ \A k \in Keys : DbPerms(k) \in seen[k]
    /\ \A k \in Keys : cache[k] # Nil /\ ~raced[k] => cache[k] \in seen[k]
    /\ \A p \in Procs : pc[p] = "fill" /\ ~raced[key[p]] => perms[p] \in seen[key[p]]

\* A cache entry is not older than the last invalidation that met no request
\* between its query and its store.
THEOREM RecentCache == Spec => []RecentUnlessRaced
<1>1. Init => RecentInv
  <2>. SUFFICES ASSUME Init PROVE RecentInv
    OBVIOUS
  <2>1. \A k \in Keys : DbPerms(k) \in seen[k]
    BY DEF Init
  <2>. QED  BY <2>1 DEF Init, RecentInv
<1>2. TypeOK /\ RecentInv /\ [Next]_vars => RecentInv'
  <2>. SUFFICES ASSUME TypeOK, RecentInv, [Next]_vars PROVE RecentInv'
    OBVIOUS
  <2>0. ASSUME UNCHANGED accessVars
        PROVE  \A k \in Keys : DbPerms(k)' = DbPerms(k)
    BY <2>0 DEF DbPerms
  <2>. USE RbacAssumption DEF TypeOK, RecentInv
  <2>1. ASSUME NEW p \in Procs, NEW k \in Keys, NEW t \in Tools \cup {NoTool},
               Check(p, k, t)
        PROVE  RecentInv'
    BY <2>0, <2>1 DEF Check, Goto
  <2>2. ASSUME NEW p \in Procs, Query(p) PROVE RecentInv'
    BY <2>0, <2>2 DEF Query, Goto
  <2>3. ASSUME NEW p \in Procs, QueryFails(p) PROVE RecentInv'
    BY <2>0, <2>3 DEF QueryFails, Goto
  <2>4. ASSUME NEW p \in Procs, Fill(p) PROVE RecentInv'
    BY <2>0, <2>4 DEF Fill, Goto
  <2>5. ASSUME NEW p \in Procs, Return(p) PROVE RecentInv'
    BY <2>0, <2>5 DEF Return, Goto
  <2>6. ASSUME NEW k \in Keys, InvalidateCache(k) PROVE RecentInv'
    BY <2>0, <2>6 DEF InvalidateCache, ForgetHistory
  <2>7. CASE ChangeTables
    BY <2>7 DEF ChangeTables
  <2>8. CASE UNCHANGED vars
    BY <2>0, <2>8 DEF vars
  <2>. QED
    BY <2>1, <2>2, <2>3, <2>4, <2>5, <2>6, <2>7, <2>8 DEF Next, Step
<1>3. RecentInv => RecentUnlessRaced
  BY DEF RecentInv, RecentUnlessRaced
<1>. QED  BY <1>1, <1>2, <1>3, TypeCorrect, PTL DEF Spec
=============================================================================
