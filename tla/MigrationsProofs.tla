-------------------------- MODULE MigrationsProofs --------------------------
(***************************************************************************)
(* Theorems about Migrate, for any number of processes and files.          *)
(***************************************************************************)
EXTENDS Migrations, TLAPS

USE MigrationsAssumption DEF Files, tables, history, Goto

InTx(p) == pc[p] \in {"record", "commit"}

\* Every process has left only recorded files behind it.
Behind == \A p \in Procs : \A f \in Files : f < file[p] => f \in versions

\* At most one open transaction has executed a file, and none a file that is
\* applied: what the locks of the database and its unique names ensure.
Exclusive ==
    \A p \in Procs : InTx(p) =>
        /\ file[p] \notin applied
        /\ \A q \in Procs : q # p /\ InTx(q) => file[q] # file[p]

\* A process that acts on a look at the tables that is out of date has been
\* overtaken.
StaleMeansOvertaken ==
    \A p \in Procs :
        /\ pc[p] = "create" /\ created => overtaken[p]
        /\ pc[p] = "exec" /\ file[p] \in versions => overtaken[p]

MigrateInv ==
    /\ TypeOK
    /\ RecordedInOrder
    /\ Behind
    /\ Exclusive
    /\ StaleMeansOvertaken
    /\ DoneMeansMigrated
    /\ OnlyRacesFail

\* A database that earlier releases have migrated, and processes that start.
LEMMA InitInv == Init => MigrateInv
<1>. SUFFICES ASSUME Init PROVE MigrateInv
  OBVIOUS
<1>1. PICK n \in 0..N : versions = 1..n
  BY DEF Init
<1>2. versions \in SUBSET Files /\ applied = versions
      /\ \A f \in versions : 1..f \subseteq versions
  BY <1>1 DEF Init
<1>3. faulted \in [Procs -> BOOLEAN] /\ overtaken \in [Procs -> BOOLEAN]
  BY Zenon DEF Init
<1>4. pc = [p \in Procs |-> "ensure"] /\ file = [p \in Procs |-> 1] /\ created \in BOOLEAN
  BY DEF Init
<1>5. TypeOK
  BY <1>2, <1>3, <1>4 DEF TypeOK
<1>. QED
  BY <1>2, <1>4, <1>5 DEF MigrateInv, RecordedInOrder, Behind, Exclusive, InTx,
     StaleMeansOvertaken, DoneMeansMigrated, OnlyRacesFail

\* A step that leaves the tables alone and moves one process.
LEMMA LocalStep ==
  ASSUME MigrateInv, NEW p \in Procs, UNCHANGED tables, TypeOK',
         \A q \in Procs \ {p} : /\ pc'[q] = pc[q] /\ file'[q] = file[q]
                                /\ faulted'[q] = faulted[q] /\ overtaken'[q] = overtaken[q],
         \A f \in Files : f < file'[p] => f \in versions,
         InTx(p)' => /\ file'[p] \notin applied
                     /\ \A q \in Procs \ {p} : InTx(q) => file[q] # file'[p],
         pc'[p] = "create" /\ created => overtaken'[p],
         pc'[p] = "exec" /\ file'[p] \in versions => overtaken'[p],
         pc'[p] = "done" => versions = Files,
         pc'[p] = "failed" => faulted'[p] \/ overtaken'[p]
  PROVE  MigrateInv'
<1>. USE DEF MigrateInv, TypeOK
<1>1. RecordedInOrder'
  BY DEF RecordedInOrder
<1>2. Behind'
  BY DEF Behind
<1>3. Exclusive'
  <2>. SUFFICES ASSUME NEW q \in Procs, InTx(q)'
                PROVE  /\ file'[q] \notin applied
                       /\ \A o \in Procs : o # q /\ InTx(o)' => file'[o] # file'[q]
    BY DEF Exclusive
  <2>1. \A o \in Procs \ {p} : InTx(o)' <=> InTx(o)
    BY DEF InTx
  <2>2. CASE q = p
    BY <2>1, <2>2
  <2>3. CASE q # p
    <3>1. InTx(q) /\ file'[q] = file[q] /\ file[q] \notin applied
      BY <2>1, <2>3 DEF Exclusive
    <3>2. ASSUME NEW o \in Procs, o # q, InTx(o)' PROVE file'[o] # file'[q]
      <4>1. CASE o = p
        BY <3>1, <3>2, <4>1, <2>3
      <4>2. CASE o # p
        BY <3>1, <3>2, <4>2, <2>1 DEF Exclusive
      <4>. QED  BY <4>1, <4>2
    <3>. QED  BY <3>1, <3>2
  <2>. QED  BY <2>2, <2>3
<1>4. StaleMeansOvertaken'
  BY DEF StaleMeansOvertaken
<1>5. DoneMeansMigrated'
  BY DEF DoneMeansMigrated
<1>6. OnlyRacesFail'
  BY DEF OnlyRacesFail
<1>. QED  BY <1>1, <1>2, <1>3, <1>4, <1>5, <1>6

\* The commit of a transaction extends the prefix of applied files by one.
LEMMA CommittedInv ==
  ASSUME MigrateInv, NEW p \in Procs, pc[p] = "commit", Committed(p), TypeOK',
         \A q \in Procs \ {p} : /\ pc'[q] = pc[q] /\ file'[q] = file[q]
                                /\ faulted'[q] = faulted[q],
         \/ pc'[p] = "check" /\ file'[p] = file[p] + 1
         \/ pc'[p] = "failed" /\ file'[p] = file[p] /\ faulted'[p]
  PROVE  MigrateInv'
<1>. USE DEF MigrateInv, TypeOK, Committed
<1>1. file[p] \in Files /\ versions' = versions \cup {file[p]}
  OBVIOUS
<1>2. RecordedInOrder'
  BY <1>1 DEF RecordedInOrder, Behind
<1>3. Behind'
  <2>. SUFFICES ASSUME NEW q \in Procs, NEW f \in Files, f < file'[q] PROVE f \in versions'
    BY DEF Behind
  <2>1. CASE q = p
    <3>1. f < file[p] \/ f = file[p]
      BY <2>1
    <3>. QED  BY <3>1, <1>1 DEF Behind
  <2>2. CASE q # p
    BY <2>2, <1>1 DEF Behind
  <2>. QED  BY <2>1, <2>2
<1>4. Exclusive'
  BY <1>1 DEF Exclusive, InTx
<1>5. \A q \in Procs \ {p} : overtaken'[q]
  BY DEF Overtake
<1>6. StaleMeansOvertaken'
  BY <1>5 DEF StaleMeansOvertaken
<1>7. DoneMeansMigrated'
  BY <1>1 DEF DoneMeansMigrated
<1>8. OnlyRacesFail'
  BY <1>5 DEF OnlyRacesFail
<1>. QED  BY <1>2, <1>3, <1>4, <1>6, <1>7, <1>8

\* Every action keeps the types.
LEMMA TypeKept ==
  ASSUME TypeOK, NEW p \in Procs, Migrate(p) \/ CommitLost(p) \/ Fault(p) \/ Restart(p)
  PROVE  TypeOK'
<1>. USE DEF TypeOK
<1>1. CASE Look(p)  BY <1>1 DEF Look
<1>2. CASE Create(p)  BY <1>2 DEF Create, Overtake
<1>3. CASE Check(p)  BY <1>3 DEF Check
<1>4. CASE Exec(p)  BY <1>4 DEF Exec
<1>5. CASE Record(p)  BY <1>5 DEF Record
<1>6. CASE Commit(p)
  <2>1. file[p] \in Files /\ file[p] + 1 \in 1..(N + 1)
    BY <1>6 DEF Commit
  <2>2. /\ file' \in [Procs -> 1..(N + 1)] /\ \A q \in Procs \ {p} : file'[q] = file[q]
        /\ pc' = [pc EXCEPT ![p] = "check"]
        /\ versions' \in SUBSET Files /\ applied' \in SUBSET Files
        /\ UNCHANGED <<created, faulted>>
    BY <1>6, <2>1 DEF Commit, Committed
  <2>3. overtaken' \in [Procs -> BOOLEAN]
    BY <1>6 DEF Commit, Committed, Overtake
  <2>. QED  BY <2>2, <2>3
<1>7. CASE CommitLost(p)  BY <1>7 DEF CommitLost, Committed, Overtake
<1>8. CASE Fault(p)  BY <1>8 DEF Fault
<1>9. CASE Restart(p)  BY <1>9 DEF Restart
<1>. QED
  BY <1>1, <1>2, <1>3, <1>4, <1>5, <1>6, <1>7, <1>8, <1>9 DEF Migrate

\* MigrateInv is inductive.
LEMMA MigrateInductive == MigrateInv /\ [Next]_vars => MigrateInv'
<1>. SUFFICES ASSUME MigrateInv, [Next]_vars PROVE MigrateInv'
  OBVIOUS
<1>1. CASE UNCHANGED vars
  BY <1>1 DEF vars, MigrateInv, TypeOK, RecordedInOrder, Behind, Exclusive, InTx,
     StaleMeansOvertaken, DoneMeansMigrated, OnlyRacesFail
<1>2. ASSUME NEW p \in Procs, Migrate(p) \/ CommitLost(p) \/ Fault(p) \/ Restart(p)
      PROVE  MigrateInv'
  <2>. TypeOK'
    BY <1>2, TypeKept DEF MigrateInv
  <2>. USE DEF MigrateInv
  <2>1. CASE Look(p)
    BY <2>1, LocalStep DEF Look, TypeOK, Behind, InTx
  <2>2. CASE Create(p)
    <3>1. CASE created
      BY <3>1, <2>2, LocalStep DEF Create, TypeOK, Behind, InTx, StaleMeansOvertaken
    <3>2. CASE ~created
      <4>1. /\ created' /\ UNCHANGED <<versions, applied, file, faulted>>
            /\ pc' = [pc EXCEPT ![p] = "check"]
            /\ \A q \in Procs : overtaken[q] => overtaken'[q]
            /\ \A q \in Procs \ {p} : overtaken'[q]
        BY <2>2, <3>2 DEF Create, Overtake
      <4>2. RecordedInOrder' /\ Behind' /\ Exclusive'
        BY <4>1 DEF TypeOK, RecordedInOrder, Behind, Exclusive, InTx
      <4>3. StaleMeansOvertaken' /\ DoneMeansMigrated' /\ OnlyRacesFail'
        BY <4>1 DEF TypeOK, StaleMeansOvertaken, DoneMeansMigrated, OnlyRacesFail
      <4>. QED  BY <4>2, <4>3
    <3>. QED  BY <3>1, <3>2
  <2>3. CASE Check(p)
    <3>1. CASE file[p] \in versions
      <4>1. \A f \in Files : f < file[p] + 1 => f \in versions
        BY <3>1 DEF TypeOK, Behind
      <4>. QED
        BY <3>1, <4>1, <2>3, LocalStep DEF Check, TypeOK, InTx
    <3>2. CASE file[p] \notin versions
      <4>1. ASSUME file[p] > N PROVE versions = Files
        <5>1. file[p] = N + 1 /\ \A f \in Files : f < N + 1
          BY <4>1 DEF TypeOK
        <5>2. \A f \in Files : f \in versions
          BY <5>1 DEF Behind
        <5>. QED  BY <5>2 DEF TypeOK
      <4>. QED
        BY <3>2, <4>1, <2>3, LocalStep DEF Check, TypeOK, Behind, InTx
    <3>. QED  BY <3>1, <3>2
  <2>4. CASE Exec(p)
    <3>1. \A q \in Procs \ {p} : InTx(q) => file[q] # file[p]
      BY <2>4 DEF Exec, Blocks, InTx
    <3>. QED
      BY <3>1, <2>4, LocalStep DEF Exec, TypeOK, Behind, InTx, RecordedInOrder,
         StaleMeansOvertaken
  <2>5. CASE Record(p)
    BY <2>5, LocalStep DEF Record, TypeOK, Behind, Exclusive, InTx, RecordedInOrder
  <2>6. CASE Commit(p)
    BY <2>6, CommittedInv DEF Commit, TypeOK
  <2>7. CASE CommitLost(p)
    BY <2>7, CommittedInv DEF CommitLost, TypeOK
  <2>8. CASE Fault(p)
    BY <2>8, LocalStep DEF Fault, TypeOK, Behind, InTx
  <2>9. CASE Restart(p)
    <3>1. /\ pc' = [pc EXCEPT ![p] = "ensure"] /\ file' = [file EXCEPT ![p] = 1]
          /\ UNCHANGED tables
          /\ \A q \in Procs \ {p} : faulted'[q] = faulted[q] /\ overtaken'[q] = overtaken[q]
      BY <2>9 DEF Restart, TypeOK
    <3>2. pc'[p] = "ensure" /\ file'[p] = 1
          /\ \A q \in Procs \ {p} : pc'[q] = pc[q] /\ file'[q] = file[q]
      BY <3>1 DEF TypeOK
    <3>3. ~InTx(p)' /\ \A f \in Files : ~(f < file'[p])
      BY <3>2 DEF InTx
    <3>. QED
      BY <3>1, <3>2, <3>3, LocalStep
  <2>. QED
    BY <1>2, <2>1, <2>2, <2>3, <2>4, <2>5, <2>6, <2>7, <2>8, <2>9 DEF Migrate
<1>. QED
  BY <1>1, <1>2 DEF Next

\* MigrateInv is an invariant.
LEMMA MigrateInvariant == Spec => []MigrateInv
  BY InitInv, MigrateInductive, PTL DEF Spec

-----------------------------------------------------------------------------

\* Type correctness: a process past the head of Migrate's loop is at a file.
THEOREM TypeCorrect == Spec => []TypeOK
  BY MigrateInvariant, PTL DEF MigrateInv

\* What schema_migrations records is what has been applied, and is the first
\* so many files, whatever processes crash or race in Migrate.
THEOREM MigratedInOrder == Spec => []RecordedInOrder
  BY MigrateInvariant, PTL DEF MigrateInv

\* When Migrate returns nil every file is applied, and stays so.
THEOREM StartsMigrated == Spec => []DoneMeansMigrated
  BY MigrateInvariant, PTL DEF MigrateInv

\* Migrate fails only for a fault of its own or because another process changed
\* the schema after it started.
THEOREM FailsOnlyOvertaken == Spec => []OnlyRacesFail
  BY MigrateInvariant, PTL DEF MigrateInv
=============================================================================
