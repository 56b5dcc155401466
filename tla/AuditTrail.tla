----------------------------- MODULE AuditTrail -----------------------------
(***************************************************************************)
(* What the audit logger promises: entries are accepted while there is     *)
(* room, lost and counted only when there is none, and delivered in the    *)
(* order of acceptance, each once, until nothing waits, unless the process *)
(* is killed.                                                              *)
(***************************************************************************)
EXTENDS Naturals, Sequences

CONSTANTS Requests, BufferSize

VARIABLES
    accepted,   \* the entries taken, in order
    delivered,  \* the ones that were tried at the database, in order
    lost,       \* how many were turned away
    up          \* whether the process has not been killed

vars == <<accepted, delivered, lost, up>>

Waiting == Len(accepted) - Len(delivered)

Init == accepted = <<>> /\ delivered = <<>> /\ lost = 0 /\ up = TRUE

\* One entry may be on its way besides those in the buffer.
Accept(r) ==
    /\ up /\ Waiting <= BufferSize
    /\ \A i \in DOMAIN accepted : accepted[i] # r
    /\ accepted' = Append(accepted, r)
    /\ UNCHANGED <<delivered, lost, up>>

Lose ==
    /\ up /\ Waiting >= BufferSize
    /\ lost' = lost + 1
    /\ UNCHANGED <<accepted, delivered, up>>

Deliver ==
    /\ up /\ Waiting > 0
    /\ delivered' = Append(delivered, accepted[Len(delivered) + 1])
    /\ UNCHANGED <<accepted, lost, up>>

Kill ==
    /\ up
    /\ up' = FALSE
    /\ UNCHANGED <<accepted, delivered, lost>>

Next == (\E r \in Requests : Accept(r)) \/ Lose \/ Deliver \/ Kill

Safety == Init /\ [][Next]_vars

Spec == Safety /\ WF_vars(Deliver)
=============================================================================
