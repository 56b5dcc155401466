--------------------------- MODULE GatewayProofs ---------------------------
(***************************************************************************)
(* For any number of keys, requests and handlers of the key pages: what    *)
(* the pages show, which audit entries are lost, and that authentication   *)
(* implements Admission.                                                   *)
(***************************************************************************)
EXTENDS Gateway, TLAPS, SequenceTheorems

USE DEF auditVars, keyVars, requestVars, pageVars

---------------------------------------------------------------------------
(* The inductive invariant.                                                *)

\* A request past the middleware's first step has a key that was issued; the
\* row it works with was found before.
RequestInv ==
    \A r \in Requests :
        /\ stage[r] \in {"lookup", "expiry", "judge", "proxy"} => cred[r] \in issued
        /\ stage[r] = "expiry" => found[r] # Nil /\ found[r].at <= now

\* A request with an audit entry.
Logged(r) == r \in Requests /\ stage[r] = "done" /\ cred[r] \in issued

EntriesInv ==
    /\ \A i \in DOMAIN entries : Logged(entries[i])
    /\ hand # Nil => Logged(hand)
    /\ \A i \in DOMAIN attempts : Logged(attempts[i])
    /\ \A r \in rows : Logged(r)

\* A listed row may be old, but only in being still active; a key that the list
\* was to have and has not is gone.
PageInv ==
    /\ \A a \in Admins : \A x \in page[a] :
           /\ x.key \in issued
           /\ apiKeys[x.key] # Nil =>
                  /\ apiKeys[x.key].expires = x.row.expires
                  /\ apiKeys[x.key].active => x.row.active
    /\ \A a \in Admins :
           handler[a] = "render" /\ target[a] # Nil => apiKeys[target[a]] = Nil

EndedInv == ended \subseteq issued /\ ended \cap Valid = {}

LateInv ==
    \A r \in tooLate :
        /\ cred[r] \in ended
        /\ stage[r] = "expiry" => Expired(found[r].row)

IInv ==
    /\ TypeOK /\ RequestInv /\ EntriesInv /\ PageInv /\ EndedInv /\ LateInv
    /\ ShownRevokedIsFinal /\ LostOnlyWhenDeleted

---------------------------------------------------------------------------
(* Steps.                                                                  *)

\* A handler of the key pages before it lists, or keygen: no table is ready that
\* was not, and a key to delete is one that was issued.
HandlersOnly ==
    /\ UNCHANGED <<now, requestVars, page, ended, faulted, auditVars>>
    /\ handler' \in [Admins -> {"idle", "list", "render"}]
    /\ target' \in [Admins -> issued \cup {Nil}]
    /\ \A a \in Admins :
           handler'[a] = "render" => handler[a] = "render" /\ target'[a] = target[a]

\* What no statement on api_keys does: bring a row back, or make it active
\* again, or move its expiry.
KeysOnly ==
    /\ HandlersOnly
    /\ apiKeys' \in [Keys -> Row \cup {Nil}]
    /\ issued \subseteq issued' /\ issued' \subseteq Keys /\ known' \subseteq issued'
    /\ \A k \in Keys \ issued' : apiKeys'[k] = Nil
    /\ \A k \in issued :
           apiKeys'[k] # Nil => /\ apiKeys[k] # Nil
                                /\ apiKeys'[k].expires = apiKeys[k].expires
                                /\ apiKeys'[k].active => apiKeys[k].active

\* A new row.
LEMMA CreateKeySteps ==
    ASSUME IInv, NEW k \in Keys, NEW e \in Nat \cup {Never}, CreateKey(k, e), HandlersOnly
    PROVE  KeysOnly
  <1>1. [active |-> TRUE, expires |-> e] \in Row
    BY DEF Row
  <1>2. k \notin issued /\ issued' = issued \cup {k}
        /\ apiKeys' = [apiKeys EXCEPT ![k] = [active |-> TRUE, expires |-> e]]
        /\ known' \in {known, known \cup {k}}
    BY DEF CreateKey, CreateAPIKey
  <1>4. /\ apiKeys \in [Keys -> Row \cup {Nil}] /\ issued \subseteq Keys
        /\ known \subseteq issued /\ \A x \in Keys \ issued : apiKeys[x] = Nil
    BY DEF IInv, TypeOK
  <1>5. \A x \in Keys : x # k => apiKeys'[x] = apiKeys[x]
    BY <1>2, <1>4
  <1>6. apiKeys' \in [Keys -> Row \cup {Nil}]
    BY <1>1, <1>2, <1>4
  <1>7. \A x \in issued : x \in Keys /\ apiKeys'[x] = apiKeys[x]
    BY <1>2, <1>4, <1>5
  <1> QED BY <1>2, <1>4, <1>5, <1>6, <1>7 DEF KeysOnly

\* The handlers' statements and keygen.
LEMMA KeySteps ==
    ASSUME IInv,
           \/ \E a \in Admins : \E k \in Keys :
                  handleCreateKey(a, k) \/ handleRevokeKey(a, k) \/ handleDeleteKey(a, k)
           \/ \E a \in Admins : handleKeys(a)
           \/ \E k \in Keys : Keygen(k)
    PROVE  KeysOnly
  <1>0. /\ apiKeys \in [Keys -> Row \cup {Nil}] /\ issued \subseteq Keys
        /\ known \subseteq issued /\ \A x \in Keys \ issued : apiKeys[x] = Nil
        /\ handler \in [Admins -> {"idle", "list", "render"}]
        /\ target \in [Admins -> issued \cup {Nil}]
        /\ now \in Nat
    BY DEF IInv, TypeOK
  <1>1. ASSUME HandlersOnly, UNCHANGED keyVars PROVE KeysOnly
    BY <1>0, <1>1 DEF KeysOnly
  <1>2. FormExpiries \subseteq Nat \cup {Never} /\ KeygenExpiries \subseteq Nat \cup {Never}
    <2>1. now \in Nat /\ now - 1 \in Nat
      BY <1>0 DEF IInv, TypeOK
    <2>2. \A d \in Durations : now + d \in Nat
      BY <2>1, GatewayAssumption
    <2> QED BY <2>1, <2>2 DEF FormExpiries, KeygenExpiries
  <1>3. ASSUME NEW a \in Admins, NEW k \in Keys, handleCreateKey(a, k) PROVE KeysOnly
    <2>1. HandlersOnly
      BY <1>0, <1>3 DEF handleCreateKey, HandlersOnly
    <2>3. CASE UNCHANGED keyVars
      BY <1>1, <2>1, <2>3
    <2>4. CASE \E e \in FormExpiries : CreateKey(k, e)
      <3>1. PICK e \in FormExpiries : CreateKey(k, e)
        BY <2>4
      <3>2. e \in Nat \cup {Never}
        BY <1>2
      <3> QED BY <2>1, <2>4, <3>1, <3>2, CreateKeySteps
    <2> QED BY <1>3, <2>3, <2>4 DEF handleCreateKey
  <1>4. ASSUME NEW a \in Admins, NEW k \in Keys, handleRevokeKey(a, k) PROVE KeysOnly
    <2>1. HandlersOnly
      BY <1>0, <1>4 DEF handleRevokeKey, HandlersOnly
    <2>2. CASE RevokeAPIKey(k)
      <3>1. UNCHANGED <<issued, known>> /\ \A x \in Keys : x # k => apiKeys'[x] = apiKeys[x]
        BY <1>0, <2>2 DEF RevokeAPIKey
      <3>2. CASE apiKeys[k] = Nil
        <4>1. apiKeys'[k] = Nil /\ apiKeys' \in [Keys -> Row \cup {Nil}]
          BY <1>0, <2>2, <3>2 DEF RevokeAPIKey
        <4> QED BY <1>0, <2>1, <3>1, <3>2, <4>1 DEF KeysOnly
      <3>3. CASE apiKeys[k] # Nil
        <4>1. apiKeys[k] \in Row
          BY <1>0, <3>3
        <4>2. apiKeys' = [apiKeys EXCEPT ![k] = [apiKeys[k] EXCEPT !.active = FALSE]]
          BY <1>0, <2>2, <3>3 DEF RevokeAPIKey
        <4>3. [apiKeys[k] EXCEPT !.active = FALSE] \in Row
              /\ [apiKeys[k] EXCEPT !.active = FALSE].expires = apiKeys[k].expires
              /\ ~[apiKeys[k] EXCEPT !.active = FALSE].active
          BY <4>1 DEF Row
        <4>4. /\ apiKeys' \in [Keys -> Row \cup {Nil}] /\ apiKeys'[k] \in Row
              /\ apiKeys'[k].expires = apiKeys[k].expires /\ ~apiKeys'[k].active
          BY <1>0, <4>2, <4>3
        <4>5. apiKeys'[k] # Nil
          BY <4>4, GatewayAssumption DEF Row
        <4> QED BY <1>0, <2>1, <3>1, <3>3, <4>4, <4>5 DEF KeysOnly
      <3> QED BY <3>2, <3>3
    <2> QED BY <1>1, <1>4, <2>1, <2>2 DEF handleRevokeKey
  <1>5. ASSUME NEW a \in Admins, NEW k \in Keys, handleDeleteKey(a, k) PROVE KeysOnly
    <2>1. HandlersOnly
      BY <1>0, <1>5 DEF handleDeleteKey, HandlersOnly
    <2>2. CASE DeleteAPIKey(k)
      <3>1. /\ UNCHANGED <<issued, known>> /\ apiKeys'[k] = Nil
            /\ apiKeys' \in [Keys -> Row \cup {Nil}]
            /\ \A x \in Keys : x # k => apiKeys'[x] = apiKeys[x]
        BY <1>0, <2>2 DEF DeleteAPIKey
      <3> QED BY <1>0, <2>1, <3>1 DEF KeysOnly
    <2> QED BY <1>1, <1>5, <2>1, <2>2 DEF handleDeleteKey
  <1>6. ASSUME NEW a \in Admins, handleKeys(a) PROVE KeysOnly
    BY <1>0, <1>1, <1>6 DEF handleKeys, HandlersOnly
  <1>7. ASSUME NEW k \in Keys, Keygen(k) PROVE KeysOnly
    <2>1. PICK e \in KeygenExpiries : CreateKey(k, e)
      BY <1>7 DEF Keygen
    <2>2. e \in Nat \cup {Never}
      BY <1>2
    <2>3. HandlersOnly
      BY <1>0, <1>7 DEF Keygen, HandlersOnly
    <2> QED BY <2>1, <2>2, <2>3, CreateKeySteps
  <1> QED BY <1>3, <1>4, <1>5, <1>6, <1>7

\* Statements on api_keys keep the invariant.
LEMMA KeysKeep ==
    ASSUME IInv, KeysOnly
    PROVE  IInv'
  <1>0. UNCHANGED <<now, stage, cred, found, tooLate, page, ended, faulted, entries, closed,
                    dropped, writer, hand, rows, dbOpen, logged, attempts>>
    BY DEF KeysOnly, HandlersOnly
  <1>1. TypeOK'
    BY <1>0 DEF KeysOnly, HandlersOnly, IInv, TypeOK, AuditTypeOK
  <1>2. RequestInv' /\ EntriesInv' /\ ShownRevokedIsFinal'
    BY <1>0 DEF KeysOnly, IInv, RequestInv, EntriesInv, Logged, ShownRevokedIsFinal
  <1>3. PageInv'
    <2>1. \A a \in Admins : target[a] \in issued \cup {Nil}
      BY DEF IInv, TypeOK
    <2>2. \A k \in issued : apiKeys[k] = Nil => apiKeys'[k] = Nil
      BY DEF KeysOnly
    <2> QED BY <1>0, <2>1, <2>2 DEF KeysOnly, HandlersOnly, IInv, PageInv
  <1>4. EndedInv'
    BY <1>0 DEF KeysOnly, IInv, EndedInv, Valid, Expired
  <1>5. LateInv'
    BY <1>0 DEF IInv, LateInv, Expired
  <1>7. LostOnlyWhenDeleted'
    <2>. SUFFICES ASSUME NEW i \in DOMAIN attempts
                  PROVE \/ attempts[i] \in rows \/ attempts[i] \in faulted
                        \/ cred[attempts[i]] \in issued' /\ apiKeys'[cred[attempts[i]]] = Nil
      BY <1>0 DEF LostOnlyWhenDeleted
    <2> QED BY DEF KeysOnly, IInv, LostOnlyWhenDeleted
  <1> QED BY <1>1, <1>2, <1>3, <1>4, <1>5, <1>7 DEF IInv

\* The clock only lets keys expire.
LEMMA TickKeeps ==
    ASSUME IInv, Tick
    PROVE  IInv'
  <1>0. /\ now \in Nat /\ now' = now + 1
        /\ UNCHANGED <<apiKeys, issued, known, stage, cred, found, tooLate, handler, page,
                       target, ended, faulted, entries, closed, dropped, writer, hand, rows,
                       dbOpen, logged, attempts>>
    BY DEF Tick, IInv, TypeOK
  <1>1. \A row \in Row : Expired(row) => Expired(row)'
    BY <1>0 DEF Expired, Row
  <1>2. TypeOK'
    BY <1>0 DEF IInv, TypeOK, AuditTypeOK
  <1>3. RequestInv'
    <2>1. \A r \in Requests : found[r] # Nil => found[r].at \in Nat
      BY DEF IInv, TypeOK
    <2> QED BY <1>0, <2>1 DEF IInv, RequestInv
  <1>4. EndedInv'
    BY <1>0, <1>1 DEF IInv, TypeOK, EndedInv, Valid
  <1>5. LateInv'
    BY <1>0, <1>1 DEF IInv, TypeOK, RequestInv, LateInv
  <1>6. EntriesInv' /\ PageInv' /\ ShownRevokedIsFinal' /\ LostOnlyWhenDeleted'
    BY <1>0 DEF IInv, EntriesInv, Logged, PageInv, ShownRevokedIsFinal, LostOnlyWhenDeleted
  <1> QED BY <1>2, <1>3, <1>4, <1>5, <1>6 DEF IInv

\* Listing and rendering keep the invariant.
LEMMA PagesKeep ==
    ASSUME IInv, NEW a \in Admins, ListAPIKeys(a) \/ KeysTable(a)
    PROVE  IInv'
  <1>0. /\ UNCHANGED <<now, apiKeys, issued, known, stage, cred, found, tooLate, faulted, entries,
                       closed, dropped, writer, hand, rows, dbOpen, logged, attempts>>
        /\ handler' \in [Admins -> {"idle", "list", "render"}]
        /\ handler \in [Admins -> {"idle", "list", "render"}]
        /\ page \in [Admins -> SUBSET [key : Keys, row : Row]]
        /\ target \in [Admins -> issued \cup {Nil}] /\ issued \subseteq Keys
    BY DEF ListAPIKeys, Lists, KeysTable, IInv, TypeOK
  <1>1. /\ page' \in [Admins -> SUBSET [key : Keys, row : Row]]
        /\ target' \in [Admins -> issued \cup {Nil}]
        /\ PageInv'
    <2>1. CASE ListAPIKeys(a)
      <3> DEFINE table == {[key |-> k, row |-> apiKeys[k]] : k \in {x \in Keys : apiKeys[x] # Nil}}
      <3>1. PICK listed \in {table, {}} :
               /\ page' = [page EXCEPT ![a] = listed]
               /\ target' = [target EXCEPT ![a] = Missing(target[a], listed)]
        BY <1>0, <2>1 DEF ListAPIKeys, Lists
      <3>2. \A x \in table : /\ x \in [key : Keys, row : Row] /\ x.key \in issued
                              /\ apiKeys[x.key] = x.row
        BY DEF IInv, TypeOK
      <3>3. listed \subseteq [key : Keys, row : Row]
        BY <3>2
      <3>4. ASSUME NEW k \in Keys, apiKeys[k] # Nil PROVE \E x \in table : x.key = k
        <4>1. [key |-> k, row |-> apiKeys[k]] \in table
          BY <3>4
        <4> QED BY <4>1
      <3> HIDE DEF table
      <3>5. \A b \in Admins :
               /\ page'[b] = IF b = a THEN listed ELSE page[b]
               /\ target'[b] = IF b = a THEN Missing(target[a], listed) ELSE target[b]
               /\ b # a => handler'[b] = handler[b]
        BY <1>0, <2>1, <3>1 DEF ListAPIKeys, Lists
      <3>6. /\ Missing(target[a], listed) \in issued \cup {Nil}
            /\ Missing(target[a], listed) # Nil => apiKeys[Missing(target[a], listed)] = Nil
        BY <1>0, <3>4 DEF Missing
      <3>7. PageInv'
        <4>1. ASSUME NEW b \in Admins, NEW x \in page'[b]
              PROVE  /\ x.key \in issued
                     /\ apiKeys[x.key] # Nil =>
                            /\ apiKeys[x.key].expires = x.row.expires
                            /\ apiKeys[x.key].active => x.row.active
          BY <3>2, <3>5, <4>1 DEF PageInv, IInv
        <4>2. \A b \in Admins :
                 handler'[b] = "render" /\ target'[b] # Nil => apiKeys[target'[b]] = Nil
          BY <3>5, <3>6 DEF PageInv, IInv
        <4> QED BY <1>0, <4>1, <4>2 DEF PageInv
      <3> QED BY <1>0, <3>1, <3>3, <3>6, <3>7
    <2>2. CASE KeysTable(a)
      <3>1. /\ page' = [page EXCEPT ![a] = {}] /\ target' = [target EXCEPT ![a] = Nil]
            /\ handler' = [handler EXCEPT ![a] = "idle"]
        BY <2>2 DEF KeysTable
      <3> QED BY <1>0, <3>1 DEF PageInv, IInv
    <2> QED BY <2>1, <2>2
  <1>2. ended \subseteq ended' /\ ended' \subseteq Keys /\ EndedInv'
    <2>1. CASE ListAPIKeys(a)
      BY <1>0, <2>1 DEF ListAPIKeys, Lists, IInv, TypeOK, EndedInv, Valid, Expired
    <2>2. CASE KeysTable(a)
      <3>1. /\ ended' = ended \cup {x.key : x \in {y \in page[a] : Badge(y.row) # "Active"}}
                              \cup ({target[a]} \ {Nil})
            /\ handler[a] = "render"
        BY <2>2 DEF KeysTable
      <3>2. ASSUME NEW x \in page[a], Badge(x.row) # "Active"
            PROVE  x.key \in issued /\ x.key \in Keys /\ x.key \notin Valid
        <4>1. x \in [key : Keys, row : Row]
          BY <1>0
        <4> QED BY <3>2, <4>1 DEF IInv, PageInv, Badge, Valid, Expired
      <3>3. target[a] # Nil => /\ target[a] \in issued /\ target[a] \in Keys
                               /\ target[a] \notin Valid
        BY <1>0, <3>1 DEF IInv, PageInv, Valid
      <3>4. ended' \subseteq issued /\ ended' \cap Valid = {} /\ ended' \subseteq Keys
        BY <3>1, <3>2, <3>3 DEF IInv, TypeOK, EndedInv
      <3>5. Valid' = Valid
        BY <1>0 DEF Valid, Expired
      <3> QED BY <1>0, <3>1, <3>4, <3>5 DEF EndedInv
    <2> QED BY <2>1, <2>2
  <1>3. TypeOK'
    BY <1>0, <1>1, <1>2 DEF IInv, TypeOK, AuditTypeOK
  <1>4. LateInv'
    BY <1>0, <1>2 DEF IInv, LateInv, Expired
  <1>5. RequestInv' /\ EntriesInv' /\ ShownRevokedIsFinal' /\ LostOnlyWhenDeleted'
    BY <1>0 DEF IInv, RequestInv, EntriesInv, Logged, ShownRevokedIsFinal, LostOnlyWhenDeleted
  <1> QED BY <1>1, <1>2, <1>3, <1>4, <1>5 DEF IInv

\* A step of one request, which leaves the logger alone.
RequestOnly(r) ==
    /\ UNCHANGED <<now, keyVars, pageVars, faulted, auditVars>>
    /\ stage[r] \notin {"done", "denied"}
    /\ stage' \in [Requests -> {"new", "lookup", "expiry", "judge", "proxy", "done", "denied"}]
    /\ cred' \in [Requests -> Keys \cup {Nil}]
    /\ found' \in [Requests -> [row : Row, at : Nat] \cup {Nil}]
    /\ \A q \in Requests \ {r} :
           stage'[q] = stage[q] /\ cred'[q] = cred[q] /\ found'[q] = found[q]
    /\ tooLate \subseteq tooLate' /\ tooLate' \subseteq tooLate \cup {r}

\* The entries of other requests are where they were.
LEMMA RequestOnlyKeeps ==
    ASSUME IInv, NEW r \in Requests, RequestOnly(r)
    PROVE  /\ TypeOK' /\ PageInv' /\ EndedInv' /\ EntriesInv'
           /\ LostOnlyWhenDeleted'
           /\ Valid' = Valid
  <1>0. UNCHANGED <<now, apiKeys, issued, known, handler, page, target, ended, faulted, entries,
                    closed, dropped, writer, hand, rows, dbOpen, logged, attempts>>
    BY DEF RequestOnly
  <1>1. \A x : Logged(x) => Logged(x)' /\ cred'[x] = cred[x]
    BY <1>0 DEF Logged, RequestOnly
  <1>2. TypeOK'
    <2>1. tooLate' \subseteq Requests
      BY DEF RequestOnly, IInv, TypeOK
    <2> QED BY <1>0, <2>1 DEF RequestOnly, IInv, TypeOK, AuditTypeOK
  <1>3. Valid' = Valid
    BY <1>0 DEF Valid, Expired
  <1>4. PageInv' /\ EndedInv'
    BY <1>0, <1>3 DEF IInv, PageInv, EndedInv
  <1>5. EntriesInv'
    BY <1>0, <1>1 DEF IInv, EntriesInv
  <1>6. LostOnlyWhenDeleted'
    BY <1>0, <1>1 DEF IInv, EntriesInv, LostOnlyWhenDeleted
  <1> QED BY <1>2, <1>3, <1>4, <1>5, <1>6

\* Every step of a request but logging its entry.
LEMMA RequestSteps ==
    ASSUME IInv, NEW r \in Requests,
           \/ \E k \in known : Arrive(r, k)
           \/ ArriveUnknown(r) \/ Lookup(r) \/ LookupFails(r) \/ CheckExpiry(r)
           \/ Judge(r) \/ ProxyAborts(r)
    PROVE  RequestOnly(r) /\ RequestInv' /\ LateInv' /\ ShownRevokedIsFinal'
  <1>0. /\ stage \in [Requests -> {"new", "lookup", "expiry", "judge", "proxy", "done", "denied"}]
        /\ cred \in [Requests -> Keys \cup {Nil}]
        /\ found \in [Requests -> [row : Row, at : Nat] \cup {Nil}]
        /\ apiKeys \in [Keys -> Row \cup {Nil}]
        /\ known \subseteq issued /\ issued \subseteq Keys /\ tooLate \subseteq Requests
        /\ now \in Nat
    BY DEF IInv, TypeOK
  <1>1. ASSUME NEW to \in {"denied", "judge", "proxy", "done"},
               stage[r] \in {"new", "lookup", "expiry", "judge", "proxy"},
               to # "denied" => cred[r] \in issued /\ r \notin tooLate,
               stage' = [stage EXCEPT ![r] = to],
               UNCHANGED <<now, keyVars, cred, found, tooLate, pageVars, faulted, auditVars>>
        PROVE  RequestOnly(r) /\ RequestInv' /\ LateInv' /\ ShownRevokedIsFinal'
    <2>1. RequestOnly(r)
      BY <1>0, <1>1 DEF RequestOnly
    <2>2. RequestInv'
      BY <1>0, <1>1 DEF IInv, RequestInv
    <2>3. LateInv' /\ ShownRevokedIsFinal'
      BY <1>0, <1>1 DEF IInv, LateInv, ShownRevokedIsFinal, Expired
    <2> QED BY <2>1, <2>2, <2>3
  <1>2. ASSUME NEW k \in known, Arrive(r, k)
        PROVE  RequestOnly(r) /\ RequestInv' /\ LateInv' /\ ShownRevokedIsFinal'
    <2>1. /\ stage[r] = "new" /\ stage' = [stage EXCEPT ![r] = "lookup"]
          /\ cred' = [cred EXCEPT ![r] = k]
          /\ tooLate' = IF k \in ended THEN tooLate \cup {r} ELSE tooLate
          /\ UNCHANGED <<now, keyVars, found, pageVars, faulted, auditVars>>
      BY <1>2 DEF Arrive, Move
    <2>2. r \notin tooLate
      BY <2>1 DEF IInv, ShownRevokedIsFinal
    <2>3. RequestOnly(r)
      BY <1>0, <2>1 DEF RequestOnly
    <2>4. RequestInv'
      BY <1>0, <2>1 DEF IInv, RequestInv
    <2>5. LateInv' /\ ShownRevokedIsFinal'
      BY <1>0, <2>1, <2>2 DEF IInv, LateInv, ShownRevokedIsFinal, Expired
    <2> QED BY <2>3, <2>4, <2>5
  <1>3. ASSUME ArriveUnknown(r) \/ LookupFails(r)
        PROVE  RequestOnly(r) /\ RequestInv' /\ LateInv' /\ ShownRevokedIsFinal'
    BY <1>1, <1>3 DEF ArriveUnknown, LookupFails, Move
  <1>4. ASSUME Lookup(r)
        PROVE  RequestOnly(r) /\ RequestInv' /\ LateInv' /\ ShownRevokedIsFinal'
    <2> DEFINE row == apiKeys[cred[r]]
    <2>1. /\ stage[r] = "lookup" /\ stage' = [stage EXCEPT ![r] = "expiry"]
          /\ row # Nil /\ row.active
          /\ found' = [found EXCEPT ![r] = [row |-> row, at |-> now]]
          /\ UNCHANGED <<now, keyVars, cred, tooLate, pageVars, faulted, auditVars>>
      BY <1>4 DEF Lookup, Move
    <2>2. cred[r] \in issued /\ cred[r] \in Keys /\ row \in Row
      BY <1>0, <2>1 DEF IInv, RequestInv
    <2>3. r \in tooLate => Expired(row)
      BY <2>1, <2>2 DEF IInv, LateInv, EndedInv, Valid
    <2> HIDE DEF row
    <2>4. [row |-> row, at |-> now] \in [row : Row, at : Nat] /\ [row |-> row, at |-> now] # Nil
      BY <1>0, <2>2, GatewayAssumption DEF Row
    <2>5. /\ found'[r] = [row |-> row, at |-> now] /\ found'[r].row = row /\ found'[r].at = now
          /\ found' \in [Requests -> [row : Row, at : Nat] \cup {Nil}]
          /\ \A q \in Requests \ {r} : found'[q] = found[q] /\ stage'[q] = stage[q]
          /\ stage'[r] = "expiry"
      BY <1>0, <2>1, <2>4
    <2>6. RequestOnly(r)
      BY <1>0, <2>1, <2>5 DEF RequestOnly
    <2>7. RequestInv'
      BY <1>0, <2>1, <2>2, <2>4, <2>5 DEF IInv, RequestInv
    <2>8. LateInv'
      BY <1>0, <2>1, <2>3, <2>5 DEF IInv, LateInv, Expired
    <2>9. ShownRevokedIsFinal'
      BY <1>0, <2>1, <2>5 DEF IInv, ShownRevokedIsFinal
    <2> QED BY <2>6, <2>7, <2>8, <2>9
  <1>5. ASSUME CheckExpiry(r)
        PROVE  RequestOnly(r) /\ RequestInv' /\ LateInv' /\ ShownRevokedIsFinal'
    <2>1. /\ stage[r] = "expiry"
          /\ stage' = [stage EXCEPT ![r] = IF Expired(found[r].row) THEN "denied" ELSE "judge"]
          /\ UNCHANGED <<now, keyVars, cred, found, tooLate, pageVars, faulted, auditVars>>
      BY <1>5 DEF CheckExpiry, Move
    <2>2. cred[r] \in issued /\ (~Expired(found[r].row) => r \notin tooLate)
      BY <2>1 DEF IInv, RequestInv, LateInv
    <2> QED BY <1>1, <2>1, <2>2
  <1>6. ASSUME Judge(r) \/ ProxyAborts(r)
        PROVE  RequestOnly(r) /\ RequestInv' /\ LateInv' /\ ShownRevokedIsFinal'
    <2>1. PICK to \in {"denied", "proxy", "done"} :
             /\ stage[r] \in {"judge", "proxy"} /\ stage' = [stage EXCEPT ![r] = to]
             /\ UNCHANGED <<now, keyVars, cred, found, tooLate, pageVars, faulted, auditVars>>
      BY <1>6 DEF Judge, ProxyAborts, Move
    <2>2. cred[r] \in issued /\ r \notin tooLate
      BY <2>1 DEF IInv, RequestInv, ShownRevokedIsFinal
    <2> QED BY <1>1, <2>1, <2>2
  <1> QED BY <1>2, <1>3, <1>4, <1>5, <1>6

\* Logging the entry of a request.
LEMMA LogKeeps ==
    ASSUME IInv, NEW r \in Requests, LogEntry(r)
    PROVE  IInv'
  <1>0. /\ stage[r] = "proxy" /\ stage' = [stage EXCEPT ![r] = "done"]
        /\ UNCHANGED <<now, keyVars, cred, found, tooLate, pageVars, faulted>>
        /\ UNCHANGED <<closed, writer, hand, rows, dbOpen, attempts>>
    BY DEF LogEntry, Move, LogAccepts, LogDrops
  <1>1. /\ stage \in [Requests -> {"new", "lookup", "expiry", "judge", "proxy", "done", "denied"}]
        /\ AuditTypeOK
        /\ cred[r] \in issued /\ r \notin tooLate
    BY <1>0 DEF IInv, TypeOK, RequestInv, ShownRevokedIsFinal
  <1>2. \A q \in Requests : stage'[q] = IF q = r THEN "done" ELSE stage[q]
    BY <1>0, <1>1
  <1>3. Logged(r)' /\ \A x : Logged(x) => Logged(x)'
    BY <1>0, <1>1, <1>2 DEF Logged
  <1>4. AuditTypeOK' /\ (\A i \in DOMAIN entries : Logged(entries[i]))'
    <2>1. CASE LogAccepts(r)
      <3>1. /\ entries' = Append(entries, r) /\ logged' = Append(logged, r)
            /\ Len(entries) < BufferSize /\ dropped' = dropped
        BY <2>1 DEF LogAccepts
      <3>2. entries \in Seq(Requests) /\ logged \in Seq(Requests)
        BY <1>1 DEF AuditTypeOK
      <3>3. /\ entries' \in Seq(Requests) /\ logged' \in Seq(Requests)
            /\ Len(entries') <= BufferSize
        BY <3>1, <3>2, AuditAssumption
      <3>4. \A i \in DOMAIN entries' : entries'[i] = r \/ (i \in DOMAIN entries /\ entries'[i] = entries[i])
        BY <3>1, <3>2
      <3>5. (\A i \in DOMAIN entries : Logged(entries[i]))'
        BY <1>3, <3>4 DEF Logged, IInv, EntriesInv
      <3>6. AuditTypeOK'
        BY <1>0, <1>1, <3>1, <3>3 DEF AuditTypeOK
      <3> QED BY <3>5, <3>6
    <2>2. CASE LogDrops(r)
      <3>1. entries' = entries /\ logged' = logged /\ dropped' = dropped + 1
        BY <2>2 DEF LogDrops
      <3>2. (\A i \in DOMAIN entries : Logged(entries[i]))'
        BY <1>3, <3>1 DEF Logged, IInv, EntriesInv
      <3>3. AuditTypeOK'
        BY <1>0, <1>1, <3>1 DEF AuditTypeOK
      <3> QED BY <3>2, <3>3
    <2> QED BY <2>1, <2>2 DEF LogEntry
  <1>5. TypeOK'
    BY <1>0, <1>1, <1>4 DEF IInv, TypeOK
  <1>6. RequestInv' /\ LateInv' /\ ShownRevokedIsFinal'
    BY <1>0, <1>1, <1>2 DEF IInv, TypeOK, RequestInv, LateInv, ShownRevokedIsFinal, Expired
  <1>7. EntriesInv'
    BY <1>0, <1>3, <1>4 DEF IInv, EntriesInv, Logged
  <1>8. PageInv' /\ EndedInv' /\ LostOnlyWhenDeleted'
    BY <1>0 DEF IInv, PageInv, EndedInv, Valid, Expired, LostOnlyWhenDeleted
  <1> QED BY <1>5, <1>6, <1>7, <1>8 DEF IInv

\* The writer goroutine keeps the invariant: the foreign key lets in rows of
\* existing keys, and lets all of them in.
LEMMA WriterKeeps ==
    ASSUME IInv, Receives \/ Insert \/ InsertFaults
    PROVE  IInv'
  <1>0. UNCHANGED <<now, apiKeys, issued, known, stage, cred, found, tooLate, handler, page, target,
                    ended>>
    BY DEF Receives, Insert, InsertFaults
  <1>1. \A x : Logged(x)' <=> Logged(x)
    BY <1>0 DEF Logged
  <1>2. /\ RequestInv' /\ PageInv' /\ EndedInv' /\ LateInv' /\ ShownRevokedIsFinal'
    BY <1>0 DEF IInv, RequestInv, PageInv, EndedInv, LateInv, ShownRevokedIsFinal, Valid, Expired
  <1>3. CASE Receives
    <2>1. /\ entries # <<>> /\ writer' = "insert" /\ hand' = Head(entries)
          /\ entries' = Tail(entries) /\ entries \in Seq(Requests)
          /\ UNCHANGED <<faulted, closed, dropped, rows, dbOpen, logged, attempts>>
      BY <1>3 DEF Receives, Receive, IInv, TypeOK, AuditTypeOK
    <2>2. /\ entries' \in Seq(Requests) /\ Len(entries') <= Len(entries)
          /\ hand' \in Requests /\ hand' = entries[1] /\ 1 \in DOMAIN entries
          /\ \A i \in DOMAIN entries' : i + 1 \in DOMAIN entries /\ entries'[i] = entries[i + 1]
      BY <2>1
    <2>3. TypeOK'
      <3>1. Len(entries') <= BufferSize
        BY <2>1, <2>2, AuditAssumption DEF IInv, TypeOK, AuditTypeOK
      <3> QED BY <1>0, <2>1, <2>2, <3>1, AuditAssumption DEF IInv, TypeOK, AuditTypeOK
    <2>4. EntriesInv'
      BY <1>1, <2>1, <2>2 DEF IInv, EntriesInv
    <2>5. LostOnlyWhenDeleted'
      BY <1>0, <2>1 DEF IInv, LostOnlyWhenDeleted
    <2> QED BY <1>2, <2>3, <2>4, <2>5 DEF IInv
  <1>4. ASSUME NEW stored \in BOOLEAN, InsertReturns(stored),
               stored => HasKey(hand),
               \/ faulted' = faulted /\ stored = HasKey(hand)
               \/ faulted' = faulted \cup {hand}
        PROVE  IInv'
    <2>1. /\ writer = "insert" /\ writer' = "receive" /\ hand' = Nil
          /\ rows' = IF stored THEN rows \cup {hand} ELSE rows
          /\ attempts' = Append(attempts, hand)
          /\ UNCHANGED <<entries, closed, dropped, dbOpen, logged>>
      BY <1>4 DEF InsertReturns
    <2>2. hand \in Requests /\ Logged(hand) /\ attempts \in Seq(Requests)
      BY <2>1 DEF IInv, TypeOK, AuditTypeOK, EntriesInv
    <2>3. /\ attempts' \in Seq(Requests)
          /\ \A i \in DOMAIN attempts' :
                 attempts'[i] = hand \/ (i \in DOMAIN attempts /\ attempts'[i] = attempts[i])
      BY <2>1, <2>2
    <2>4. TypeOK'
      BY <1>0, <1>4, <2>1, <2>2, <2>3, AuditAssumption DEF IInv, TypeOK, AuditTypeOK
    <2>5. EntriesInv'
      BY <1>1, <2>1, <2>2, <2>3 DEF IInv, EntriesInv
    <2>7. LostOnlyWhenDeleted'
      <3>1. hand \in rows' \/ hand \in faulted' \/ (cred[hand] \in issued /\ apiKeys[cred[hand]] = Nil)
        BY <1>4, <2>1, <2>2, GatewayAssumption DEF HasKey, EntryKey, Logged, IInv, TypeOK
      <3>2. rows \subseteq rows' /\ faulted \subseteq faulted'
        BY <1>4, <2>1
      <3> QED BY <1>0, <2>3, <3>1, <3>2 DEF IInv, LostOnlyWhenDeleted
    <2> QED BY <1>2, <2>4, <2>5, <2>7 DEF IInv
  <1>5. HasKey(hand) \in BOOLEAN
    BY DEF HasKey
  <1>6. CASE Insert
    BY <1>4, <1>5, <1>6 DEF Insert
  <1>7. CASE InsertFaults
    <2>1. PICK stored \in {FALSE, HasKey(hand)} : InsertReturns(stored)
      BY <1>7 DEF InsertFaults
    <2>2. stored \in BOOLEAN /\ (stored => HasKey(hand)) /\ faulted' = faulted \cup {hand}
      BY <1>5, <1>7, <2>1 DEF InsertFaults
    <2> QED BY <1>4, <2>1, <2>2
  <1> QED BY <1>3, <1>6, <1>7

---------------------------------------------------------------------------
(* The theorems.                                                           *)

\* The inductive invariant holds in every state.
THEOREM GatewayInvariant == Spec => []IInv
  <1>1. Init => IInv
    <2>. SUFFICES ASSUME Init PROVE IInv
      OBVIOUS
    <2>1. /\ apiKeys = [k \in Keys |-> Nil] /\ rows = {} /\ attempts = <<>> /\ entries = <<>>
          /\ hand = Nil /\ tooLate = {} /\ ended = {} /\ page = [a \in Admins |-> {}]
          /\ target = [a \in Admins |-> Nil]
          /\ stage = [r \in Requests |-> "new"]
      BY DEF Init, AuditInit
    <2>2. AuditTypeOK
      <3>1. <<>> \in Seq(Requests) /\ Len(<<>>) <= BufferSize
        BY AuditAssumption
      <3>2. (writer = "insert") <=> (hand # Nil)
        BY DEF Init, AuditInit
      <3> QED BY <3>1, <3>2 DEF Init, AuditInit, AuditTypeOK
    <2>3. TypeOK
      BY <2>1, <2>2 DEF Init, TypeOK
    <2>4. RequestInv /\ EntriesInv /\ PageInv /\ EndedInv /\ LateInv
      BY <2>1 DEF RequestInv, EntriesInv, PageInv, EndedInv, LateInv, Init
    <2>5. ShownRevokedIsFinal /\ LostOnlyWhenDeleted
      BY <2>1 DEF ShownRevokedIsFinal, LostOnlyWhenDeleted
    <2> QED BY <2>3, <2>4, <2>5 DEF IInv
  <1>2. IInv /\ [Next]_vars => IInv'
    <2>. SUFFICES ASSUME IInv, [Next]_vars PROVE IInv'
      OBVIOUS
    <2>1. CASE UNCHANGED vars
      BY <2>1 DEF vars, IInv, TypeOK, AuditTypeOK, RequestInv, EntriesInv, Logged, PageInv,
                  EndedInv, LateInv, ShownRevokedIsFinal, LostOnlyWhenDeleted,
                  Valid, Expired
    <2>2. CASE Tick
      BY <2>2, TickKeeps
    <2>3. ASSUME NEW r \in Requests, Serve(r) PROVE IInv'
      <3>1. CASE LogEntry(r)
        BY <3>1, LogKeeps
      <3>2. CASE ~LogEntry(r)
        <4>1. RequestOnly(r) /\ RequestInv' /\ LateInv' /\ ShownRevokedIsFinal'
          BY <2>3, <3>2, RequestSteps DEF Serve
        <4> QED BY <4>1, RequestOnlyKeeps DEF IInv
      <3> QED BY <3>1, <3>2
    <2>4. CASE Receives \/ Insert \/ InsertFaults
      BY <2>4, WriterKeeps
    <2>5. ASSUME NEW a \in Admins, Manage(a) PROVE IInv'
      BY <2>5, PagesKeep, KeySteps, KeysKeep DEF Manage
    <2>6. CASE \E k \in Keys : Keygen(k)
      BY <2>6, KeySteps, KeysKeep
    <2> QED BY <2>1, <2>2, <2>3, <2>4, <2>5, <2>6 DEF Next
  <1> QED BY <1>1, <1>2, PTL DEF Spec

\* Every variable keeps its type.
THEOREM GatewayTypeOK == Spec => []TypeOK
  <1>1. IInv => TypeOK
    BY DEF IInv
  <1> QED BY <1>1, GatewayInvariant, PTL

\* A key that a page showed as Revoked or Expired, or left out when it was to be
\* deleted, opens nothing to requests that begin later (keyStatusBadge,
\* handleDeleteKey, ValidateKey).
THEOREM GatewayShownRevokedIsFinal == Spec => []ShownRevokedIsFinal
  <1>1. IInv => ShownRevokedIsFinal
    BY DEF IInv
  <1> QED BY <1>1, GatewayInvariant, PTL

\* An attempted entry is stored but for a database fault or a deleted key
\* (process).
THEOREM GatewayLostOnlyWhenDeleted == Spec => []LostOnlyWhenDeleted
  <1>1. IInv => LostOnlyWhenDeleted
    BY DEF IInv
  <1> QED BY <1>1, GatewayInvariant, PTL

---------------------------------------------------------------------------
(* Refinement.                                                             *)

\* A step of one request moves its status only.
LEMMA OneStatus ==
    ASSUME NEW r \in Requests,
           \A q \in Requests \ {r} : stage'[q] = stage[q] /\ found'[q] = found[q]
    PROVE  Statuses' = [Statuses EXCEPT ![r] = Status(r)']
  BY DEF Statuses, Status

\* A statement that makes no key makes none valid.
LEMMA WithdrawSteps ==
    ASSUME IInv, KeysOnly, issued' = issued
    PROVE  Promise!Withdraw
  <1>1. UNCHANGED <<now, stage, cred, found>>
    BY DEF KeysOnly, HandlersOnly
  <1>2. Statuses' = Statuses
    BY <1>1 DEF Statuses, Status
  <1>3. Valid' \subseteq issued
    BY DEF KeysOnly, Valid
  <1>4. Valid' \subseteq Valid
    BY <1>1, <1>3 DEF KeysOnly, Valid, Expired
  <1> QED BY <1>1, <1>2, <1>4 DEF Promise!Withdraw

\* A new row makes its key valid, or has expired already.
LEMMA IssueSteps ==
    ASSUME IInv, NEW k \in Keys, NEW e, CreateKey(k, e), UNCHANGED <<now, stage, cred, found>>
    PROVE  Promise!Issue(k)
  <1>1. /\ k \notin issued /\ issued' = issued \cup {k}
        /\ apiKeys' = [apiKeys EXCEPT ![k] = [active |-> TRUE, expires |-> e]]
        /\ apiKeys \in [Keys -> Row \cup {Nil}] /\ apiKeys[k] = Nil
    BY DEF CreateKey, CreateAPIKey, IInv, TypeOK
  <1>2. \A x \in Keys : x # k => apiKeys'[x] = apiKeys[x]
    BY <1>1
  <1>3. \A x \in Keys : x # k => (x \in Valid' <=> x \in Valid)
    BY <1>2 DEF Valid, Expired
  <1>4. k \notin Valid /\ Valid \subseteq Keys /\ Valid' \subseteq Keys
    BY <1>1 DEF Valid
  <1>5. Valid' \in {Valid, Valid \cup {k}}
    <2>1. CASE k \in Valid'
      BY <1>3, <1>4, <2>1
    <2>2. CASE k \notin Valid'
      BY <1>3, <1>4, <2>2
    <2> QED BY <2>1, <2>2
  <1>6. Statuses' = Statuses
    BY DEF Statuses, Status
  <1> QED BY <1>1, <1>5, <1>6 DEF Promise!Issue

\* ValidateKey and the stages behind it.
LEMMA RequestPromise ==
    ASSUME IInv, NEW r \in Requests, Serve(r)
    PROVE  [Promise!Next]_(Promise!vars)
  <1>0. /\ stage \in [Requests -> {"new", "lookup", "expiry", "judge", "proxy", "done", "denied"}]
        /\ cred \in [Requests -> Keys \cup {Nil}]
        /\ found \in [Requests -> [row : Row, at : Nat] \cup {Nil}]
        /\ now \in Nat /\ known \subseteq issued /\ issued \subseteq Keys
        /\ Statuses[r] = Status(r)
    BY DEF IInv, TypeOK, Statuses
  <1>1. /\ UNCHANGED <<now, apiKeys, issued>>
        /\ \A q \in Requests \ {r} : stage'[q] = stage[q] /\ found'[q] = found[q]
    BY <1>0 DEF Serve, Arrive, ArriveUnknown, Lookup, LookupFails, CheckExpiry, Judge,
                LogEntry, ProxyAborts, Move
  <1>2. Valid' = Valid /\ Statuses' = [Statuses EXCEPT ![r] = Status(r)']
    BY <1>1, OneStatus DEF Valid, Expired
  <1>3. ASSUME UNCHANGED cred, Status(r)' = Status(r) PROVE UNCHANGED Promise!vars
    <2>1. Statuses' = Statuses
      BY <1>0, <1>2, <1>3 DEF Statuses
    <2> QED BY <1>1, <1>2, <1>3, <2>1 DEF Promise!vars
  <1>4. ASSUME NEW k \in known, Arrive(r, k) PROVE Promise!Begin(r, k)
    <2>1. stage[r] = "new" /\ stage'[r] = "lookup" /\ cred' = [cred EXCEPT ![r] = k]
      BY <1>0, <1>4 DEF Arrive, Move
    <2>2. Status(r) = "new" /\ Status(r)' = "pending"
      BY <2>1 DEF Status
    <2> QED BY <1>0, <1>1, <1>2, <2>1, <2>2 DEF Promise!Begin
  <1>5. ASSUME UNCHANGED cred, Status(r) \in {"new", "pending", "checked"}, Status(r)' = "denied"
        PROVE  Promise!Deny(r)
    BY <1>0, <1>1, <1>2, <1>5 DEF Promise!Deny
  <1>6. CASE ArriveUnknown(r) \/ LookupFails(r)
    <2>1. stage[r] \in {"new", "lookup"} /\ stage'[r] = "denied" /\ UNCHANGED cred
      BY <1>0, <1>6 DEF ArriveUnknown, LookupFails, Move
    <2>2. Status(r) \in {"new", "pending"} /\ Status(r)' = "denied"
      BY <2>1 DEF Status
    <2> QED BY <1>5, <2>1, <2>2 DEF Promise!Next
  <1>7. CASE Lookup(r)
    <2> DEFINE row == apiKeys[cred[r]]
    <2>1. /\ stage[r] = "lookup" /\ stage'[r] = "expiry" /\ UNCHANGED cred
          /\ row # Nil /\ row.active /\ cred[r] \in Keys
          /\ found'[r].row = row /\ found'[r].at = now
      BY <1>0, <1>7 DEF Lookup, Move, IInv, RequestInv
    <2>2. Status(r) = "pending" /\ Status(r)' = IF Expired(row) THEN "denied" ELSE "checked"
      BY <2>1 DEF Status, Expired
    <2>3. CASE Expired(row)
      BY <1>5, <2>1, <2>2, <2>3 DEF Promise!Next
    <2>4. CASE ~Expired(row)
      <3>1. cred[r] \in Valid
        BY <2>1, <2>4 DEF Valid
      <3>2. Promise!Check(r)
        BY <1>0, <1>1, <1>2, <2>1, <2>2, <2>4, <3>1 DEF Promise!Check
      <3> QED BY <3>2 DEF Promise!Next
    <2> QED BY <2>3, <2>4
  <1>8. CASE CheckExpiry(r)
    <2>1. /\ stage[r] = "expiry" /\ UNCHANGED <<cred, found>>
          /\ stage'[r] = IF Expired(found[r].row) THEN "denied" ELSE "judge"
      BY <1>0, <1>8 DEF CheckExpiry, Move
    <2>2. found[r] # Nil /\ found[r].at <= now /\ found[r] \in [row : Row, at : Nat]
      BY <1>0, <2>1 DEF IInv, RequestInv
    <2>3. found[r].row.expires \in Nat \cup {Never} /\ found[r].at \in Nat
      BY <2>2 DEF Row
    <2>4. CASE ~Expired(found[r].row)
      <3>1. Status(r) = "checked" /\ Status(r)' = "checked"
        BY <1>0, <2>1, <2>2, <2>3, <2>4 DEF Status, Expired
      <3> QED BY <1>3, <2>1, <3>1
    <2>5. CASE Expired(found[r].row)
      <3>1. Status(r) \in {"checked", "denied"} /\ Status(r)' = "denied"
        BY <2>1, <2>5 DEF Status
      <3> QED BY <1>3, <1>5, <2>1, <3>1 DEF Promise!Next
    <2> QED BY <2>4, <2>5
  <1>9. CASE Judge(r)
    <2>1. stage[r] = "judge" /\ stage'[r] \in {"proxy", "denied"} /\ UNCHANGED cred
      BY <1>0, <1>9 DEF Judge, Move
    <2>2. Status(r) = "checked" /\ Status(r)' \in {"admitted", "denied"}
      BY <2>1 DEF Status
    <2>3. Promise!Admit(r) \/ Promise!Deny(r)
      BY <1>0, <1>1, <1>2, <1>5, <2>1, <2>2 DEF Promise!Admit
    <2> QED BY <2>3 DEF Promise!Next
  <1>10. CASE LogEntry(r) \/ ProxyAborts(r)
    <2>1. stage[r] = "proxy" /\ stage'[r] = "done" /\ UNCHANGED cred
      BY <1>0, <1>10 DEF LogEntry, ProxyAborts, Move
    <2>2. Status(r) = "admitted" /\ Status(r)' = "done"
      BY <2>1 DEF Status
    <2>3. Promise!Finish(r)
      BY <1>0, <1>1, <1>2, <2>1, <2>2 DEF Promise!Finish
    <2> QED BY <2>3 DEF Promise!Next
  <1>11. \A k \in known : Arrive(r, k) => Promise!Next
    BY <1>0, <1>4 DEF Promise!Next
  <1> QED BY <1>6, <1>7, <1>8, <1>9, <1>10, <1>11 DEF Serve

\* Authentication by a row and a clock read at different moments, together with
\* every operation on keys, implements Admission (ValidateKey).
THEOREM GatewayImplementsAdmission == Spec => AdmissionSpec
  <1>1. Init => Promise!Init
    <2>. SUFFICES ASSUME Init PROVE Promise!Init
      OBVIOUS
    <2>1. Valid = {} /\ Statuses = [r \in Requests |-> "new"]
      BY DEF Init, Valid, Statuses, Status
    <2> QED BY <2>1 DEF Init, Promise!Init
  <1>2. IInv /\ [Next]_vars => [Promise!Next]_(Promise!vars)
    <2>. SUFFICES ASSUME IInv, [Next]_vars PROVE [Promise!Next]_(Promise!vars)
      OBVIOUS
    <2>1. ASSUME UNCHANGED <<now, apiKeys, issued, stage, cred, found>>
          PROVE  UNCHANGED Promise!vars
      BY <2>1 DEF Promise!vars, Valid, Expired, Statuses, Status
    <2>2. CASE Tick
      <3>1. /\ now' = now + 1 /\ now \in Nat /\ apiKeys \in [Keys -> Row \cup {Nil}]
            /\ UNCHANGED <<apiKeys, issued, stage, cred, found>>
        BY <2>2 DEF Tick, IInv, TypeOK
      <3>2. Statuses' = Statuses
        BY <3>1 DEF Statuses, Status
      <3>3. Valid' \subseteq Valid
        BY <3>1 DEF Valid, Expired, Row
      <3>4. Promise!Withdraw
        BY <3>1, <3>2, <3>3 DEF Promise!Withdraw
      <3> QED BY <3>4 DEF Promise!Next
    <2>3. ASSUME NEW k \in Keys, NEW a \in Admins, handleCreateKey(a, k)
          PROVE  [Promise!Next]_(Promise!vars)
      <3>1. UNCHANGED <<now, stage, cred, found>>
        BY <2>3 DEF handleCreateKey
      <3>2. CASE \E e \in FormExpiries : CreateKey(k, e)
        BY <3>1, <3>2, IssueSteps DEF Promise!Next
      <3>3. CASE UNCHANGED keyVars
        BY <2>1, <3>1, <3>3
      <3> QED BY <2>3, <3>2, <3>3 DEF handleCreateKey
    <2>4. ASSUME NEW k \in Keys, Keygen(k) PROVE [Promise!Next]_(Promise!vars)
      <3>1. UNCHANGED <<now, stage, cred, found>>
        BY <2>4 DEF Keygen
      <3> QED BY <2>4, <3>1, IssueSteps DEF Keygen, Promise!Next
    <2>5. ASSUME NEW k \in Keys, NEW a \in Admins, handleRevokeKey(a, k) \/ handleDeleteKey(a, k)
          PROVE  [Promise!Next]_(Promise!vars)
      <3>1. issued' = issued
        BY <2>5 DEF handleRevokeKey, handleDeleteKey, RevokeAPIKey, DeleteAPIKey
      <3>2. KeysOnly
        BY <2>5, KeySteps
      <3> QED BY <3>1, <3>2, WithdrawSteps DEF Promise!Next
    <2>6. ASSUME NEW a \in Admins, handleKeys(a) \/ ListAPIKeys(a) \/ KeysTable(a)
          PROVE  UNCHANGED Promise!vars
      BY <2>1, <2>6 DEF handleKeys, ListAPIKeys, Lists, KeysTable
    <2>7. CASE Receives \/ Insert \/ InsertFaults
      BY <2>1, <2>7 DEF Receives, Insert, InsertFaults
    <2>8. CASE UNCHANGED vars
      BY <2>1, <2>8 DEF vars
    <2>9. ASSUME NEW r \in Requests, Serve(r) PROVE [Promise!Next]_(Promise!vars)
      BY <2>9, RequestPromise
    <2> QED BY <2>2, <2>3, <2>4, <2>5, <2>6, <2>7, <2>8, <2>9 DEF Next, Manage
  <1> QED BY <1>1, <1>2, GatewayInvariant, PTL DEF Spec, AdmissionSpec, Promise!Spec
=============================================================================
