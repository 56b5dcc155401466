---------------------------- MODULE AuditLogger ----------------------------
(***************************************************************************)
(* The audit logger of internal/audit/logger.go: a buffered channel that   *)
(* request handlers send to without blocking, and one goroutine, process,  *)
(* that takes entries off it and inserts them into audit_logs.  An entry   *)
(* is named by the request it records.                                     *)
(***************************************************************************)
EXTENDS Naturals, Sequences, FiniteSets

CONSTANTS
    Requests,    \* proxied requests, one audit entry each
    BufferSize,  \* NewLogger's bufferSize
    Nil          \* no entry

ASSUME AuditAssumption ==
    /\ IsFiniteSet(Requests)
    /\ BufferSize \in Nat \ {0}
    /\ Nil \notin Requests

VARIABLES
    entries,   \* the channel's buffer
    closed,    \* whether close(l.entries) has run
    dropped,   \* Logger.dropped
    writer,    \* process: "none" (not started), "receive", "insert" or "exited"
    hand,      \* the entry process is inserting, or Nil
    rows,      \* the entries with a row in audit_logs
    dbOpen,    \* the database pool is open
    logged,    \* history: entries accepted by the channel, in order
    attempts   \* history: entries whose insert returned, in order

auditVars == <<entries, closed, dropped, writer, hand, rows, dbOpen, logged, attempts>>

\* With the state of process and of the database pool.
AuditInit(w, open) ==
    /\ entries = <<>>
    /\ closed = FALSE
    /\ dropped = 0
    /\ writer = w
    /\ hand = Nil
    /\ rows = {}
    /\ dbOpen = open
    /\ logged = <<>>
    /\ attempts = <<>>

(***************************************************************************)
(* Log, called by a handler.  A send on the closed channel panics in the   *)
(* handler (LogPanics), whether or not there is room.                      *)
(***************************************************************************)

\* One entry too many.
LogAcceptsOverfull(r) ==
    /\ ~closed
    /\ Len(entries) <= BufferSize
    /\ entries' = Append(entries, r)
    /\ logged' = Append(logged, r)
    /\ UNCHANGED <<closed, dropped, writer, hand, rows, dbOpen, attempts>>

LogAccepts(r) ==
    /\ ~closed
    /\ Len(entries) < BufferSize
    /\ entries' = Append(entries, r)
    /\ logged' = Append(logged, r)
    /\ UNCHANGED <<closed, dropped, writer, hand, rows, dbOpen, attempts>>

\* Dropping without counting.
LogDropsUncounted(r) ==
    /\ ~closed
    /\ Len(entries) >= BufferSize
    /\ UNCHANGED auditVars

LogDrops(r) ==
    /\ ~closed
    /\ Len(entries) >= BufferSize
    /\ dropped' = dropped + 1
    /\ UNCHANGED <<entries, closed, writer, hand, rows, dbOpen, logged, attempts>>

LogPanics(r) ==
    /\ closed
    /\ UNCHANGED auditVars

(***************************************************************************)
(* process: the writer goroutine.                                          *)
(***************************************************************************)

\* Taking the newest entry instead of the oldest.
ReceiveNewest ==
    /\ writer = "receive" /\ entries # <<>>
    /\ writer' = "insert"
    /\ hand' = entries[Len(entries)]
    /\ entries' = SubSeq(entries, 1, Len(entries) - 1)
    /\ UNCHANGED <<closed, dropped, rows, dbOpen, logged, attempts>>

Receive ==
    /\ writer = "receive" /\ entries # <<>>
    /\ writer' = "insert"
    /\ hand' = Head(entries)
    /\ entries' = Tail(entries)
    /\ UNCHANGED <<closed, dropped, rows, dbOpen, logged, attempts>>

\* A writer that leaves when the channel is closed, full or not.
ExitAtClose ==
    /\ writer = "receive" /\ closed
    /\ writer' = "exited"
    /\ UNCHANGED <<entries, closed, dropped, hand, rows, dbOpen, logged, attempts>>

\* The range loop ends when the channel is closed and empty.
Exit ==
    /\ writer = "receive" /\ entries = <<>> /\ closed
    /\ writer' = "exited"
    /\ UNCHANGED <<entries, closed, dropped, hand, rows, dbOpen, logged, attempts>>

\* InsertAuditLog returns within its five seconds.
InsertReturns(stored) ==
    /\ writer = "insert"
    /\ rows' = IF stored THEN rows \cup {hand} ELSE rows
    /\ attempts' = Append(attempts, hand)
    /\ writer' = "receive"
    /\ hand' = Nil
    /\ UNCHANGED <<entries, closed, dropped, dbOpen, logged>>

InsertOk == dbOpen /\ InsertReturns(TRUE)

\* A writer that gives up at the first failed insert.
InsertFailsForGood ==
    /\ writer = "insert"
    /\ attempts' = Append(attempts, hand)
    /\ writer' = "exited"
    /\ hand' = Nil
    /\ UNCHANGED <<entries, closed, dropped, rows, dbOpen, logged>>

\* An error or a timeout is only logged; the row may be there nevertheless
\* when the statement committed but its answer came too late.
InsertFails == \E stored \in {FALSE, dbOpen} : InsertReturns(stored)

ProcessStep == Receive \/ InsertOk \/ InsertFails \/ Exit

(***************************************************************************)
(* Close, in two steps: close the channel, then wait for process.          *)
(***************************************************************************)

\* Waiting for process without closing its channel.
CloseEntriesForgotten == ~closed /\ UNCHANGED auditVars

CloseEntries ==
    /\ ~closed
    /\ closed' = TRUE
    /\ UNCHANGED <<entries, dropped, writer, hand, rows, dbOpen, logged, attempts>>

CloseReturns ==
    /\ writer = "exited"
    /\ UNCHANGED auditVars

AuditTypeOK ==
    /\ entries \in Seq(Requests) /\ Len(entries) <= BufferSize
    /\ closed \in BOOLEAN
    /\ dropped \in Nat
    /\ writer \in {"none", "receive", "insert", "exited"}
    /\ hand \in Requests \cup {Nil}
    /\ (writer = "insert") <=> (hand # Nil)
    /\ rows \subseteq Requests
    /\ dbOpen \in BOOLEAN
    /\ logged \in Seq(Requests)
    /\ attempts \in Seq(Requests)
=============================================================================
