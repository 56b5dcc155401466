----------------------------- MODULE Migrations -----------------------------
(***************************************************************************)
(* Migrate of internal/database/database.go, which the gateway and the     *)
(* dashboard each run on the same database when they start.  Nothing but   *)
(* the database keeps them apart: a version is looked up outside of the    *)
(* transaction that applies it.                                            *)
(*                                                                         *)
(* PostgreSQL is external, modelled from how Migrate and migrations/*.sql  *)
(* use it: the effects of a transaction appear at its commit or not at     *)
(* all, a second execution of the same DDL waits for the transaction of    *)
(* the first, and fails if that committed, since no migration is written   *)
(* to be run twice.                                                        *)
(***************************************************************************)
EXTENDS Integers

CONSTANTS
    Procs,  \* processes that migrate
    N       \* number of migration files, 1..N in their sorted order

ASSUME MigrationsAssumption == N \in Nat

VARIABLES
    created,   \* schema_migrations exists
    versions,  \* its rows
    applied,   \* migrations whose content has been committed
    pc,        \* where each process is in Migrate
    file,      \* the migration it is at
    faulted,   \* history: a statement failed, or it crashed
    overtaken  \* history: another process changed the schema since it started

vars == <<created, versions, applied, pc, file, faulted, overtaken>>
tables == <<created, versions, applied>>
history == <<faulted, overtaken>>

Files == 1..N

\* A new database, or one that an earlier release has migrated so far.
Init ==
    /\ \E n \in 0..N : versions = 1..n
    /\ applied = versions
    /\ created \in BOOLEAN
    /\ versions # {} => created
    /\ pc = [p \in Procs |-> "ensure"]
    /\ file = [p \in Procs |-> 1]
    /\ faulted = [p \in Procs |-> FALSE]
    /\ overtaken = [p \in Procs |-> FALSE]

Goto(p, from, to) ==
    /\ pc[p] = from
    /\ pc' = [pc EXCEPT ![p] = to]

\* p's change of the schema, as the others meet it.
Overtake(p) == overtaken' = [q \in Procs |-> overtaken[q] \/ q # p]

-----------------------------------------------------------------------------

\* CREATE TABLE IF NOT EXISTS looks for the table.
Look(p) ==
    /\ Goto(p, "ensure", IF created THEN "check" ELSE "create")
    /\ UNCHANGED <<tables, file, history>>

\* ... and creates it, which fails if another process has done so since.
Create(p) ==
    /\ IF created
         THEN Goto(p, "create", "failed") /\ UNCHANGED <<created, overtaken>>
         ELSE Goto(p, "create", "check") /\ created' = TRUE /\ Overtake(p)
    /\ UNCHANGED <<versions, applied, file, faulted>>

\* Applying every file again, recorded or not.
CheckAlways(p) ==
    /\ Goto(p, "check", IF file[p] > N THEN "done" ELSE "exec")
    /\ UNCHANGED <<tables, file, history>>

\* A loop that leaves out the last file.
CheckButLast(p) ==
    /\ IF file[p] < N /\ file[p] \in versions
         THEN Goto(p, "check", "check") /\ file' = [file EXCEPT ![p] = @ + 1]
         ELSE /\ Goto(p, "check", IF file[p] >= N THEN "done" ELSE "exec")
              /\ UNCHANGED file
    /\ UNCHANGED <<tables, history>>

\* A loop that runs over the end of the files.
CheckOneMore(p) ==
    /\ IF file[p] <= N + 1 /\ file[p] \notin Files \ versions
         THEN Goto(p, "check", "check") /\ file' = [file EXCEPT ![p] = @ + 1]
         ELSE /\ Goto(p, "check", IF file[p] > N THEN "done" ELSE "exec")
              /\ UNCHANGED file
    /\ UNCHANGED <<tables, history>>

\* The head of the loop: Migrate returns nil after the last file, and skips a
\* file whose version is recorded.
Check(p) ==
    /\ IF file[p] \in versions
         THEN Goto(p, "check", "check") /\ file' = [file EXCEPT ![p] = @ + 1]
         ELSE /\ Goto(p, "check", IF file[p] > N THEN "done" ELSE "exec")
              /\ UNCHANGED file
    /\ UNCHANGED <<tables, history>>

\* q's transaction has executed the file p is at.
Blocks(q, p) == q # p /\ pc[q] \in {"record", "commit"} /\ file[q] = file[p]

\* The content executed on the pool instead of in the transaction.
ExecOutsideTx(p) ==
    /\ ~\E q \in Procs : Blocks(q, p)
    /\ Goto(p, "exec", IF file[p] \in applied THEN "failed" ELSE "record")
    /\ applied' = applied \cup {file[p]}
    /\ UNCHANGED <<created, versions, file, history>>

\* tx.Exec of the content, in a new transaction.  It waits for another one's
\* execution of the same file, and fails on objects that exist.
Exec(p) ==
    /\ ~\E q \in Procs : Blocks(q, p)
    /\ Goto(p, "exec", IF file[p] \in applied THEN "failed" ELSE "record")
    /\ UNCHANGED <<tables, file, history>>

\* The version is inserted in the same transaction; version is a primary key.
Record(p) ==
    /\ Goto(p, "record", IF file[p] \in versions THEN "failed" ELSE "commit")
    /\ UNCHANGED <<tables, file, history>>

\* The effect of p's transaction becomes visible.
Committed(p) ==
    /\ versions' = versions \cup {file[p]}
    /\ applied' = applied \cup {file[p]}
    /\ Overtake(p)
    /\ UNCHANGED created

Commit(p) ==
    /\ Goto(p, "commit", "check")
    /\ Committed(p)
    /\ file' = [file EXCEPT ![p] = @ + 1]
    /\ UNCHANGED faulted

\* The commit takes effect but its answer is lost.
CommitLost(p) ==
    /\ Goto(p, "commit", "failed")
    /\ Committed(p)
    /\ faulted' = [faulted EXCEPT ![p] = TRUE]
    /\ UNCHANGED file

\* A statement or the reading of a file fails, or the process crashes; an open
\* transaction is rolled back.
Fault(p) ==
    /\ pc[p] \notin {"done", "failed"}
    /\ pc' = [pc EXCEPT ![p] = "failed"]
    /\ faulted' = [faulted EXCEPT ![p] = TRUE]
    /\ UNCHANGED <<tables, file, overtaken>>

\* The process, exited after an error or for any other reason, starts again.
Restart(p) ==
    /\ pc[p] \in {"done", "failed"}
    /\ pc' = [pc EXCEPT ![p] = "ensure"]
    /\ file' = [file EXCEPT ![p] = 1]
    /\ faulted' = [faulted EXCEPT ![p] = FALSE]
    /\ overtaken' = [overtaken EXCEPT ![p] = FALSE]
    /\ UNCHANGED tables

Migrate(p) ==
    Look(p) \/ Create(p) \/ Check(p) \/ Exec(p) \/ Record(p) \/ Commit(p)

Next == \E p \in Procs : Migrate(p) \/ CommitLost(p) \/ Fault(p) \/ Restart(p)

Spec == Init /\ [][Next]_vars

-----------------------------------------------------------------------------
(* Properties *)

\* Every variable has its type; a process past the head of the loop is at a
\* migration file.
TypeOK ==
    /\ created \in BOOLEAN
    /\ versions \in SUBSET Files
    /\ applied \in SUBSET Files
    /\ pc \in [Procs -> {"ensure", "create", "check", "exec", "record", "commit",
                         "done", "failed"}]
    /\ file \in [Procs -> 1..(N + 1)]
    /\ faulted \in [Procs -> BOOLEAN]
    /\ overtaken \in [Procs -> BOOLEAN]
    /\ \A p \in Procs : pc[p] \in {"exec", "record", "commit"} => file[p] \in Files

\* Whatever crashes and however the processes race, what is recorded is what is
\* applied, and that is the first so many files: no gap, no half migration.
RecordedInOrder ==
    /\ versions = applied
    /\ \A f \in versions : 1..f \subseteq versions

\* A process that starts to serve has the whole schema, also when another
\* process applied part of it.
DoneMeansMigrated ==
    \A p \in Procs : pc[p] = "done" => versions = Files

\* Two processes never fail each other: without a fault of its own one fails
\* only if another one changed the schema after it started, so that each failed
\* start is paid for by progress.
OnlyRacesFail ==
    \A p \in Procs : pc[p] = "failed" => faulted[p] \/ overtaken[p]
=============================================================================
