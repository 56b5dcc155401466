----------------------------- MODULE Admission -----------------------------
(***************************************************************************)
(* What the gateway promises about API keys, whatever tables, handlers and *)
(* clocks it uses: a key becomes valid at most once, when it is issued,    *)
(* and never again after it was withdrawn; a request is admitted only if   *)
(* its key was valid at one moment of the request.                         *)
(***************************************************************************)
CONSTANTS Keys, Requests, None

VARIABLES
    issued,  \* the keys that were ever made
    valid,   \* the keys that are valid now
    cred,    \* the key of each request
    status   \* "new", "pending", "checked", "admitted", "denied" or "done"

vars == <<issued, valid, cred, status>>

Init ==
    /\ issued = {}
    /\ valid = {}
    /\ cred = [r \in Requests |-> None]
    /\ status = [r \in Requests |-> "new"]

\* A new key; it may have expired before it is first seen.
Issue(k) ==
    /\ k \notin issued
    /\ issued' = issued \cup {k}
    /\ valid' \in {valid, valid \cup {k}}
    /\ UNCHANGED <<cred, status>>

\* Revocation, deletion, or the clock, which withdraws any number at a time.
Withdraw ==
    /\ valid' \subseteq valid
    /\ UNCHANGED <<issued, cred, status>>

Begin(r, k) ==
    /\ status[r] = "new"
    /\ cred' = [cred EXCEPT ![r] = k]
    /\ status' = [status EXCEPT ![r] = "pending"]
    /\ UNCHANGED <<issued, valid>>

Check(r) ==
    /\ status[r] = "pending"
    /\ cred[r] \in valid
    /\ status' = [status EXCEPT ![r] = "checked"]
    /\ UNCHANGED <<issued, valid, cred>>

Admit(r) ==
    /\ status[r] = "checked"
    /\ status' = [status EXCEPT ![r] = "admitted"]
    /\ UNCHANGED <<issued, valid, cred>>

Deny(r) ==
    /\ status[r] \in {"new", "pending", "checked"}
    /\ status' = [status EXCEPT ![r] = "denied"]
    /\ UNCHANGED <<issued, valid, cred>>

Finish(r) ==
    /\ status[r] = "admitted"
    /\ status' = [status EXCEPT ![r] = "done"]
    /\ UNCHANGED <<issued, valid, cred>>

Next ==
    \/ \E k \in Keys : Issue(k)
    \/ Withdraw
    \/ \E r \in Requests, k \in Keys : Begin(r, k)
    \/ \E r \in Requests : Check(r) \/ Admit(r) \/ Deny(r) \/ Finish(r)

Spec == Init /\ [][Next]_vars
=============================================================================
