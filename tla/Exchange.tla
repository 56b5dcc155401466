------------------------------ MODULE Exchange ------------------------------
(***************************************************************************)
(* One POST /mcp on its way through the gateway: how much of its body each *)
(* stage reads and the upstream receives, and what each of the nested      *)
(* ResponseWriters records of the answer.  From the outside in they are    *)
(* those of middleware.Logger, metrics.Middleware and audit.Middleware;    *)
(* Recoverer stands between the first two.  What a stage decides by the    *)
(* body is the subject of Rbac and PolicyRules; here it denies or not.     *)
(* When the audit channel is closed is that of Lifecycle; here it may be.  *)
(*                                                                         *)
(* net/http is external: the first final header goes out and later ones    *)
(* are ignored; 1xx headers go out at once; a request body that ends       *)
(* before its declared length is an error of the transport.  What it was   *)
(* given to send counts as sent: whether a client that is gone gets it,    *)
(* nobody on this side learns, and http.Error does not ask.                *)
(***************************************************************************)
EXTENDS Naturals

CONSTANTS
    Sizes,    \* lengths of request bodies
    Cap,      \* maxBodyRead and maxBodyCapture
    MaxBody,  \* proxy.maxRequestBody
    MaxSent,  \* bound on the length of an answer
    Nil       \* nothing (yet)

ASSUME ExchangeAssumption ==
    /\ Sizes \subseteq Nat /\ Cap \in Nat /\ MaxBody \in Nat /\ MaxSent \in Nat
    /\ Nil \notin Nat

VARIABLES
    req,       \* the request, and how run wired the chain
    pc,        \* the stage that has it
    source,    \* what r.Body reads: the "network", a "buffer", or it is "closed"
    left,      \* how much r.Body still has
    views,     \* how much of the body each stage was given
    received,  \* the length of the complete request the upstream got
    status,    \* the status field of each ResponseWriter
    wrote,     \* statusCapture.wroteHeader
    captured,  \* the length of responseCapture.body
    wire,      \* the status net/http was given to send
    sent,      \* the length of the body it was given to send
    cut,       \* history: the handler panicked: the answer breaks off, or is
               \* followed by Recoverer's text
    entry,     \* the status and body length handed to Logger.Log
    counted,   \* the status label of RequestsTotal
    printed    \* the status in the request log

bodyVars == <<source, left, views, received>>
headVars == <<status, wrote, wire>>
answerVars == <<headVars, captured, sent, cut>>
records == <<entry, counted, printed>>
vars == <<req, pc, bodyVars, answerVars, records>>

Stages == {"rbac", "policy", "audit"}
Layers == {"logger", "metrics", "audit"}
Informational == 103
Denials == {401, 403, 429}
Answers == {200, 500}
Statuses == {Informational, 502} \cup Denials \cup Answers

Least(a, b) == IF a <= b THEN a ELSE b

\* The chain of run: without a database only the proxy, policies and audit
\* where there are any, metrics if they are enabled.
Wirings == {w \in [db : BOOLEAN, policies : BOOLEAN, audit : BOOLEAN, metrics : BOOLEAN] :
                w.policies \/ w.audit => w.db}

Init ==
    /\ \E n \in Sizes, d \in BOOLEAN, w \in Wirings :
           req = [size |-> n, declared |-> d, db |-> w.db, policies |-> w.policies,
                  audit |-> w.audit, metrics |-> w.metrics]
    /\ pc = IF req.db THEN "rbac" ELSE "proxy"
    /\ source = "network"
    /\ left = req.size
    /\ views = [s \in Stages |-> Nil]
    /\ received = Nil
    /\ status = [l \in Layers |-> 200]
    /\ wrote = FALSE
    /\ captured = 0
    /\ wire = Nil
    /\ sent = 0
    /\ cut = FALSE
    /\ entry = Nil
    /\ counted = Nil
    /\ printed = Nil

-----------------------------------------------------------------------------
(* The ResponseWriters *)

\* A WriteHeader of which every layer keeps the first.
WriteHeaderFirst(layers, code) ==
    /\ status' = [l \in Layers |->
                     IF l \in layers /\ ~wrote THEN code ELSE status[l]]
    /\ wrote' = (wrote \/ "metrics" \in layers)
    /\ wire' = IF wire = Nil /\ code >= 200 THEN code ELSE wire

\* WriteHeader reaching these layers.  metrics keeps the first, the others
\* the last.
WriteHeader(layers, code) ==
    /\ status' = [l \in Layers |->
                     IF l \in layers /\ (l = "metrics" => ~wrote) THEN code ELSE status[l]]
    /\ wrote' = (wrote \/ "metrics" \in layers)
    /\ wire' = IF wire = Nil /\ code >= 200 THEN code ELSE wire

\* A Write that captures whole chunks until the limit is passed.
WriteUncut(n) ==
    /\ captured' = IF captured < Cap THEN captured + n ELSE captured
    /\ sent' = sent + n

\* responseCapture.Write.
Write(n) ==
    /\ captured' = IF captured < Cap THEN captured + Least(n, Cap - captured)
                                     ELSE captured
    /\ sent' = sent + n

\* The ResponseWriters around every handler, and those around the proxy.
ChainLayers == {"logger"} \cup (IF req.metrics THEN {"metrics"} ELSE {})
ProxyLayers == ChainLayers \cup (IF req.audit THEN {"audit"} ELSE {})

-----------------------------------------------------------------------------
(* The stages before the proxy *)

After(stage) ==
    CASE stage = "rbac" /\ req.policies -> "policy"
      [] stage # "audit" /\ req.audit   -> "audit"
      [] OTHER                          -> "proxy"

\* Reading to the limit, but leaving the rest of the body in place.
RestoreRest(n) == left

\* What readAndRestore puts back: what it has read.
Restore(n) == n

\* readAndRestore: up to Cap bytes, which replace the body.
ReadAndRestore(stage) ==
    LET n == Least(left, Cap) IN
    /\ pc = stage
    /\ source # "closed"
    /\ views' = [views EXCEPT ![stage] = n]
    /\ left' = Restore(n)
    /\ source' = "buffer"
    /\ pc' = After(stage)
    /\ UNCHANGED <<req, received, answerVars, records>>

\* A body that is not read to its end because the client is gone; a body
\* known to be empty cannot fail.
MayBreak == source = "network" /\ (req.size > 0 \/ ~req.declared)

\* readAndRestore fails: the stage gets "", and the body stays closed.
ReadFails(stage) ==
    /\ pc = stage
    /\ source = "closed" \/ MayBreak
    /\ views' = [views EXCEPT ![stage] = 0]
    /\ source' = "closed"
    /\ pc' = After(stage)
    /\ UNCHANGED <<req, left, received, answerVars, records>>

\* auth, the rate limiter, rbac or a policy answers itself, outside of the
\* audit middleware.
Deny(code) ==
    /\ req.db
    /\ pc \in Stages \cup {"proxy"} /\ views["audit"] = Nil
    /\ WriteHeader(ChainLayers, code)
    /\ sent' = 1
    /\ pc' = "return"
    /\ UNCHANGED <<req, bodyVars, captured, cut, records>>

-----------------------------------------------------------------------------
(* The proxy *)

\* Under MaxBytesReader the transport finds a body of the declared length.
ReadsWhole ==
    /\ source # "closed"
    /\ left <= MaxBody
    /\ req.declared => left = req.size

\* ReverseProxy forwards the request; the upstream gets all of it or a part.
Forward ==
    /\ pc = "proxy"
    /\ \/ ReadsWhole /\ received' = left
       \/ (~ReadsWhole \/ MayBreak) /\ UNCHANGED received
    /\ pc' = "upstream"
    /\ UNCHANGED <<req, source, left, views, answerVars, records>>

\* A 1xx answer is passed on.
PassInformational ==
    /\ pc = "upstream"
    /\ WriteHeader(ProxyLayers, Informational)
    /\ UNCHANGED <<req, pc, bodyVars, captured, sent, cut, records>>

\* The round trip fails, also because of the body: ErrorHandler's 502.
BadGateway ==
    /\ pc = "upstream"
    /\ WriteHeader(ProxyLayers, 502)
    /\ Write(1)
    /\ pc' = "return"
    /\ UNCHANGED <<req, bodyVars, cut, records>>

\* The upstream answers, possibly before it has read the request.
Respond(code) ==
    /\ pc = "upstream"
    /\ WriteHeader(ProxyLayers, code)
    /\ pc' = "relay"
    /\ UNCHANGED <<req, bodyVars, captured, sent, cut, records>>

Relay(n) ==
    /\ pc = "relay"
    /\ sent + n <= MaxSent
    /\ Write(n)
    /\ UNCHANGED <<req, pc, bodyVars, headVars, cut, records>>

RelayEnds ==
    /\ pc = "relay"
    /\ pc' = "return"
    /\ UNCHANGED <<req, bodyVars, answerVars, records>>

\* Copying fails on either side: panic(http.ErrAbortHandler).
RelayAborts ==
    /\ pc = "relay"
    /\ pc' = "panic"
    /\ cut' = TRUE
    /\ UNCHANGED <<req, bodyVars, headVars, captured, sent, records>>

-----------------------------------------------------------------------------
(* The way back *)

\* The audit middleware's Log sends on the channel that Close has closed: the
\* answer has been handed over, but for its end.
LogPanics ==
    /\ pc = "return" /\ views["audit"] # Nil
    /\ pc' = "panic"
    /\ cut' = TRUE
    /\ UNCHANGED <<req, bodyVars, headVars, captured, sent, records>>

\* The handlers return: the audit middleware, if the request came so far,
\* then metrics, if they are enabled, then the request log.
Return ==
    /\ pc = "return"
    /\ entry' = IF views["audit"] = Nil THEN Nil
                ELSE [status |-> status["audit"], body |-> captured]
    /\ counted' = IF req.metrics THEN status["metrics"] ELSE Nil
    /\ printed' = status["logger"]
    /\ pc' = "done"
    /\ UNCHANGED <<req, bodyVars, answerVars>>

\* Metrics counted by a deferred function.
RecoverCounted ==
    /\ pc = "panic"
    /\ WriteHeader({"logger"}, 500)
    /\ sent' \in {sent, sent + 1}
    /\ counted' = IF req.metrics THEN status["metrics"] ELSE Nil
    /\ printed' = 500
    /\ pc' = "done"
    /\ UNCHANGED <<req, bodyVars, captured, cut, entry>>

\* The panic passes the audit and metrics code after next; Recoverer writes a
\* 500, which net/http ignores as the header is out, and a text, which follows
\* the answer unless a declared length leaves no room for it.
Recover ==
    /\ pc = "panic"
    /\ WriteHeader({"logger"}, 500)
    /\ sent' \in {sent, sent + 1}
    /\ printed' = 500
    /\ pc' = "done"
    /\ UNCHANGED <<req, bodyVars, captured, cut, entry, counted>>

Next ==
    \/ \E s \in Stages : ReadAndRestore(s) \/ ReadFails(s)
    \/ \E code \in Denials : Deny(code)
    \/ Forward \/ PassInformational \/ BadGateway
    \/ \E code \in Answers : Respond(code)
    \/ \E n \in 1..MaxSent : Relay(n)
    \/ RelayEnds \/ RelayAborts \/ LogPanics \/ Return \/ Recover

Spec == Init /\ [][Next]_vars

-----------------------------------------------------------------------------
(* Properties *)

Requests == [size : Sizes, declared : BOOLEAN, db : BOOLEAN,
             policies : BOOLEAN, audit : BOOLEAN, metrics : BOOLEAN]

\* Every variable has its type, and no more than the limit is captured.
TypeOK ==
    /\ req \in Requests
    /\ pc \in Stages \cup {"proxy", "upstream", "relay", "return", "panic", "done"}
    /\ source \in {"network", "buffer", "closed"}
    /\ left \in Nat
    /\ views \in [Stages -> Nat \cup {Nil}]
    /\ received \in Nat \cup {Nil}
    /\ status \in [Layers -> Statuses]
    /\ wrote \in BOOLEAN
    /\ captured \in 0..Cap
    /\ wire \in Statuses \cup {Nil}
    /\ sent \in Nat
    /\ cut \in BOOLEAN
    /\ entry \in [status : Statuses, body : 0..Cap] \cup {Nil}
    /\ counted \in Statuses \cup {Nil}
    /\ printed \in Statuses \cup {Nil}

\* A request the upstream gets as complete is, byte for byte, what rbac and
\* the policies judged and the audit log recorded, although each of them cuts
\* the body and puts back what it read; and when the client declared a length
\* it has that length (readAndRestore of rbac, policy and audit; proxy).
BodyIntegrity ==
    received # Nil =>
        /\ req.declared => received = req.size
        /\ \A s \in Stages : views[s] # Nil => views[s] = received

\* The audit entry tells what the client was sent: the final status, also after
\* 1xx answers, and the beginning of the body up to the limit, however it was
\* cut into chunks (responseCapture).
AuditRecordsWire ==
    entry # Nil => entry.status = wire /\ entry.body = Least(sent, Cap)

\* No record calls an answer good that was not: one that broke off, or that the
\* closed audit channel spoiled after its end, is an error in the request log
\* and neither counted nor audited, whichever status its client was sent; and
\* any other status on record is the one sent, but for a 1xx that metrics keep
\* (statusCapture, statusWriter, audit.Middleware, Recoverer).
NoFalseSuccess ==
    pc = "done" =>
        /\ cut => printed = 500 /\ counted = Nil /\ entry = Nil
        /\ ~cut => printed = wire
        /\ counted \in {Nil, Informational, wire}

\* ARCHITECTURE.md:38-39: "each reads it into a buffer and replaces `r.Body`
\* with a new reader over that buffer": the upstream gets the body the client
\* sent.
WholeBodyForwarded == received # Nil => received = req.size
=============================================================================
