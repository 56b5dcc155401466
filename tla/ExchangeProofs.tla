--------------------------- MODULE ExchangeProofs ---------------------------
(***************************************************************************)
(* For all body lengths and limits: the upstream gets what was judged and  *)
(* recorded, and the records of an answer tell what the client was sent.   *)
(***************************************************************************)
EXTENDS Exchange, TLAPS

Before == Stages \cup {"proxy"}
Answered == {"relay", "return", "panic"}

\* r.Body is the client's, or the buffer from which every stage so far read,
\* or it cannot be read any more.
BodyInv ==
    /\ source = "network" => left = req.size /\ \A s \in Stages : views[s] = Nil
    /\ source = "buffer" => left <= Cap /\ \A s \in Stages : views[s] \in {Nil, left}
    /\ received # Nil => /\ pc \notin Before
                         /\ source # "closed"
                         /\ received = left
                         /\ req.declared => left = req.size

\* What the ResponseWriters hold before and after the final header.
HeadInv ==
    /\ pc \in Before => ~wrote
    /\ pc \in Before \cup {"upstream"} => wire = Nil /\ sent = 0 /\ captured = 0
    /\ pc = "upstream" /\ wrote /\ req.metrics => status["metrics"] = Informational
    /\ pc = "audit" => req.audit
    /\ views["audit"] # Nil => req.audit /\ pc \notin Stages
    /\ pc \in Answered =>
           /\ wire \in Statuses /\ wire >= 200
           /\ status["logger"] = wire
           /\ req.metrics => status["metrics"] \in {wire, Informational}
           /\ views["audit"] # Nil =>
                  status["audit"] = wire /\ captured = Least(sent, Cap)
    /\ pc # "done" => (cut <=> pc = "panic")
    /\ pc # "done" => entry = Nil /\ counted = Nil

IInv == TypeOK /\ BodyInv /\ HeadInv /\ AuditRecordsWire /\ NoFalseSuccess

\* The limit of what is captured is met however an answer is cut.
LEMMA LeastFacts ==
    ASSUME NEW a \in Nat, NEW n \in Nat
    PROVE  /\ Least(a, Cap) \in 0..Cap
           /\ Least(a, Cap) <= a
           /\ Least(a, Cap) < Cap =>
                  Least(a, Cap) + Least(n, Cap - Least(a, Cap)) = Least(a + n, Cap)
           /\ ~(Least(a, Cap) < Cap) => Least(a + n, Cap) = Least(a, Cap)
  BY ExchangeAssumption DEF Least

LEMMA InitIInv == Init => IInv
  <1>. SUFFICES ASSUME Init PROVE IInv
    OBVIOUS
  <1>. USE ExchangeAssumption
  <1>0. PICK n \in Sizes, d \in BOOLEAN, w \in Wirings :
           req = [size |-> n, declared |-> d, db |-> w.db, policies |-> w.policies,
                  audit |-> w.audit, metrics |-> w.metrics]
    BY DEF Init
  <1>1. req \in Requests
    BY <1>0 DEF Requests, Wirings
  <1>2. TypeOK
    <2>1. req.size \in Nat
      BY <1>1 DEF Requests
    <2>2. pc \in {"rbac", "proxy"} /\ 200 \in Statuses
      BY DEF Init, Statuses, Answers
    <2>3. views \in [Stages -> Nat \cup {Nil}] /\ status \in [Layers -> Statuses]
      BY <2>2 DEF Init
    <2>4. 0 \in 0..Cap
      OBVIOUS
    <2> QED BY <1>1, <2>1, <2>2, <2>3, <2>4 DEF Init, TypeOK, Stages
  <1>3. BodyInv
    BY DEF Init, BodyInv
  <1>4. HeadInv
    <2>1. pc \in {"rbac", "proxy"} /\ views["audit"] = Nil
      BY DEF Init, Stages
    <2> QED BY <2>1 DEF Init, HeadInv, Before, Stages, Answered
  <1>5. AuditRecordsWire /\ NoFalseSuccess
    BY DEF Init, AuditRecordsWire, NoFalseSuccess
  <1> QED BY <1>2, <1>3, <1>4, <1>5 DEF IInv

\* The stages before the proxy keep the invariant.
LEMMA StagesKeep ==
    ASSUME IInv, NEW s \in Stages, ReadAndRestore(s) \/ ReadFails(s)
    PROVE  IInv'
  <1>. USE ExchangeAssumption
  <1>1. After(s) \in Before /\ (s = "audit" => After(s) = "proxy")
        /\ (After(s) = "audit" => req.audit)
    BY DEF After, Before, Stages
  <1>2. /\ pc = s /\ pc' = After(s) /\ s # "done"
        /\ UNCHANGED <<req, received, status, wrote, wire, captured, sent, cut, entry, counted,
                       printed>>
    BY DEF ReadAndRestore, ReadFails, answerVars, headVars, records, Stages
  <1>3. received = Nil
    BY <1>2 DEF IInv, BodyInv, Before
  <1>4. BodyInv' /\ left' \in Nat /\ views' \in [Stages -> Nat \cup {Nil}]
        /\ source' \in {"network", "buffer", "closed"}
    <2>1. CASE ReadAndRestore(s)
      <3>1. left \in Nat /\ left' = Least(left, Cap) /\ left' \in 0..Cap /\ source' = "buffer"
            /\ views' = [views EXCEPT ![s] = left'] /\ source # "closed"
        BY <2>1, LeastFacts DEF ReadAndRestore, Restore, IInv, TypeOK
      <3>2. \A t \in Stages : views'[t] \in {Nil, left'}
        <4>1. CASE source = "network"
          BY <3>1, <4>1 DEF IInv, TypeOK, BodyInv
        <4>2. CASE source = "buffer"
          <5>1. left' = left
            BY <3>1, <4>2 DEF IInv, BodyInv, Least
          <5> QED BY <3>1, <4>2, <5>1 DEF IInv, TypeOK, BodyInv
        <4> QED BY <3>1, <4>1, <4>2 DEF IInv, TypeOK
      <3> QED BY <1>2, <1>3, <3>1, <3>2 DEF BodyInv, IInv, TypeOK
    <2>2. CASE ReadFails(s)
      BY <1>2, <1>3, <2>2 DEF ReadFails, BodyInv, IInv, TypeOK
    <2> QED BY <2>1, <2>2
  <1>5. TypeOK'
    BY <1>1, <1>2, <1>4 DEF IInv, TypeOK, Before
  <1>6. HeadInv'
    <2>1. views'["audit"] # Nil => req.audit /\ After(s) \notin Stages
      <3>1. views["audit"] = Nil
        BY <1>2 DEF IInv, HeadInv
      <3>2. views \in [Stages -> Nat \cup {Nil}]
        BY DEF IInv, TypeOK
      <3>3. s # "audit" => views'["audit"] = Nil
        BY <3>1, <3>2 DEF ReadAndRestore, ReadFails, Stages
      <3>4. s = "audit" => req.audit
        BY <1>2 DEF IInv, HeadInv
      <3> QED BY <1>1, <3>3, <3>4 DEF Stages
    <2> QED BY <1>1, <1>2, <2>1 DEF IInv, HeadInv, Before, Answered, Stages
  <1>7. AuditRecordsWire' /\ NoFalseSuccess'
    BY <1>1, <1>2 DEF IInv, HeadInv, AuditRecordsWire, NoFalseSuccess, Before, Stages
  <1> QED BY <1>4, <1>5, <1>6, <1>7 DEF IInv

\* What the proxy does keeps the invariant.
LEMMA ProxyKeeps ==
    ASSUME IInv,
           \/ \E code \in Denials : Deny(code)
           \/ Forward \/ PassInformational \/ BadGateway
           \/ \E code \in Answers : Respond(code)
    PROVE  IInv'
  <1>. USE ExchangeAssumption
  <1>0. TypeOK /\ BodyInv /\ HeadInv /\ entry = Nil /\ counted = Nil /\ pc # "done"
    <2>1. pc # "done"
      BY DEF Deny, Forward, PassInformational, BadGateway, Respond, Stages
    <2> QED BY <2>1 DEF IInv, HeadInv
  <1>1. CASE \E code \in Denials : Deny(code)
    <2>1. PICK code \in Denials : Deny(code)
      BY <1>1
    <2>2. /\ code \in Statuses /\ code >= 200
          /\ pc \in Before /\ ~wrote /\ wire = Nil /\ views["audit"] = Nil
      BY <1>0, <2>1 DEF Deny, Denials, Statuses, Before, HeadInv
    <2>3. /\ status' \in [Layers -> Statuses] /\ status'["logger"] = code
          /\ (req.metrics => status'["metrics"] = code) /\ wrote' \in BOOLEAN /\ wire' = code
      BY <1>0, <2>1, <2>2 DEF Deny, WriteHeader, ChainLayers, TypeOK, Layers
    <2>4. /\ sent' = 1 /\ pc' = "return"
          /\ UNCHANGED <<req, source, left, views, received, captured, cut, entry, counted, printed>>
      BY <2>1 DEF Deny, bodyVars, records
    <2>5. TypeOK'
      BY <1>0, <2>2, <2>3, <2>4 DEF TypeOK
    <2>6. BodyInv'
      BY <1>0, <2>4 DEF BodyInv, Before, Stages
    <2>7. HeadInv'
      BY <1>0, <2>2, <2>3, <2>4 DEF HeadInv, Before, Answered, Stages
    <2>8. AuditRecordsWire' /\ NoFalseSuccess'
      BY <1>0, <2>4 DEF AuditRecordsWire, NoFalseSuccess
    <2> QED BY <2>5, <2>6, <2>7, <2>8 DEF IInv
  <1>2. CASE Forward
    <2>1. /\ pc = "proxy" /\ pc' = "upstream" /\ ~wrote
          /\ UNCHANGED <<req, source, left, views, status, wrote, wire, captured, sent,
                         cut, entry, counted, printed>>
      BY <1>0, <1>2 DEF Forward, answerVars, headVars, records, HeadInv, Before
    <2>2. \/ received' = left /\ source # "closed" /\ (req.declared => left = req.size)
          \/ received' = received
      BY <1>2 DEF Forward, ReadsWhole
    <2>3. TypeOK'
      BY <1>0, <2>1, <2>2 DEF TypeOK
    <2>4. BodyInv'
      BY <1>0, <2>1, <2>2 DEF BodyInv, Before, Stages
    <2>5. HeadInv'
      BY <1>0, <2>1 DEF HeadInv, Before, Answered, Stages
    <2>6. AuditRecordsWire' /\ NoFalseSuccess'
      BY <1>0, <2>1 DEF AuditRecordsWire, NoFalseSuccess
    <2> QED BY <2>3, <2>4, <2>5, <2>6 DEF IInv
  <1>3. ASSUME NEW code \in Statuses, pc = "upstream", WriteHeader(ProxyLayers, code)
        PROVE  /\ status' \in [Layers -> Statuses] /\ wrote' = (wrote \/ req.metrics)
               /\ status'["logger"] = code
               /\ req.metrics => status'["metrics"] \in {code, Informational}
               /\ req.audit => status'["audit"] = code
               /\ wire' = IF code >= 200 THEN code ELSE Nil
    <2>1. /\ "logger" \in ProxyLayers
          /\ "metrics" \in ProxyLayers <=> req.metrics
          /\ req.audit => "audit" \in ProxyLayers
      BY DEF ProxyLayers, ChainLayers
    <2>2. wire = Nil /\ (wrote /\ req.metrics => status["metrics"] = Informational)
      BY <1>0, <1>3 DEF HeadInv
    <2>3. wrote' = (wrote \/ req.metrics)
      BY <1>3, <2>1 DEF WriteHeader
    <2> QED BY <1>0, <1>3, <2>1, <2>2, <2>3 DEF WriteHeader, TypeOK, Layers
  <1>4. CASE PassInformational
    <2>1. Informational \in Statuses /\ ~(Informational >= 200)
      BY DEF Statuses, Informational
    <2>2. /\ pc = "upstream" /\ WriteHeader(ProxyLayers, Informational)
          /\ UNCHANGED <<req, pc, source, left, views, received, captured, sent, cut,
                         entry, counted, printed>>
      BY <1>4 DEF PassInformational, bodyVars, records
    <2>3. /\ status' \in [Layers -> Statuses] /\ wrote' = (wrote \/ req.metrics) /\ wire' = Nil
          /\ req.metrics => status'["metrics"] = Informational
      BY <1>3, <2>1, <2>2
    <2>4. TypeOK'
      BY <1>0, <2>2, <2>3 DEF TypeOK
    <2>5. BodyInv'
      BY <1>0, <2>2 DEF BodyInv
    <2>6. HeadInv'
      BY <1>0, <2>2, <2>3 DEF HeadInv, Before, Answered, Stages
    <2>7. AuditRecordsWire' /\ NoFalseSuccess'
      BY <1>0, <2>2 DEF AuditRecordsWire, NoFalseSuccess
    <2> QED BY <2>4, <2>5, <2>6, <2>7 DEF IInv
  <1>5. CASE BadGateway
    <2>1. /\ pc = "upstream" /\ WriteHeader(ProxyLayers, 502) /\ Write(1) /\ pc' = "return"
          /\ UNCHANGED <<req, source, left, views, received, cut, entry, counted, printed>>
      BY <1>5 DEF BadGateway, bodyVars, records
    <2>2. 502 \in Statuses /\ 502 >= 200
      BY DEF Statuses
    <2>3. /\ status' \in [Layers -> Statuses] /\ wrote' = (wrote \/ req.metrics) /\ wire' = 502
          /\ status'["logger"] = 502
          /\ req.metrics => status'["metrics"] \in {502, Informational}
          /\ req.audit => status'["audit"] = 502
      <3>1. PICK code \in Statuses : code = 502
        BY <2>2
      <3>2. pc = "upstream" /\ WriteHeader(ProxyLayers, code)
        BY <2>1, <3>1
      <3>3. /\ status' \in [Layers -> Statuses] /\ wrote' = (wrote \/ req.metrics)
            /\ status'["logger"] = code
            /\ req.metrics => status'["metrics"] \in {code, Informational}
            /\ req.audit => status'["audit"] = code
            /\ wire' = IF code >= 200 THEN code ELSE Nil
        BY <1>3, <3>2
      <3>4. wire' = 502
        BY <2>2, <3>1, <3>3
      <3> QED BY <3>1, <3>3, <3>4
    <2>4. sent' = 1 /\ captured' = Least(1, Cap) /\ captured' \in 0..Cap
      <3>1. sent = 0 /\ captured = 0
        BY <1>0, <2>1 DEF HeadInv
      <3>2. CASE Cap = 0
        BY <2>1, <3>1, <3>2 DEF Write, Least
      <3>3. CASE Cap > 0
        BY <2>1, <3>1, <3>3 DEF Write, Least
      <3> QED BY <3>2, <3>3
    <2>5. TypeOK'
      BY <1>0, <2>1, <2>2, <2>3, <2>4 DEF TypeOK
    <2>6. BodyInv'
      BY <1>0, <2>1 DEF BodyInv, Before, Stages
    <2>7. HeadInv'
      BY <1>0, <2>1, <2>2, <2>3, <2>4 DEF HeadInv, Before, Answered, Stages
    <2>8. AuditRecordsWire' /\ NoFalseSuccess'
      BY <1>0, <2>1 DEF AuditRecordsWire, NoFalseSuccess
    <2> QED BY <2>5, <2>6, <2>7, <2>8 DEF IInv
  <1>6. CASE \E code \in Answers : Respond(code)
    <2>0. PICK code \in Answers : Respond(code)
      BY <1>6
    <2>1. /\ pc = "upstream" /\ WriteHeader(ProxyLayers, code) /\ pc' = "relay"
          /\ UNCHANGED <<req, source, left, views, received, captured, sent,
                         cut, entry, counted, printed>>
      BY <2>0 DEF Respond, bodyVars, records
    <2>2. code \in Statuses /\ code >= 200
      BY DEF Statuses, Answers
    <2>3. /\ status' \in [Layers -> Statuses] /\ wrote' = (wrote \/ req.metrics) /\ wire' = code
          /\ status'["logger"] = code
          /\ req.metrics => status'["metrics"] \in {code, Informational}
          /\ req.audit => status'["audit"] = code
      BY <1>3, <2>1, <2>2
    <2>4. captured = 0 /\ sent = 0 /\ Least(0, Cap) = 0
      BY <1>0, <2>1 DEF HeadInv, Least
    <2>5. TypeOK'
      BY <1>0, <2>1, <2>2, <2>3 DEF TypeOK
    <2>6. BodyInv'
      BY <1>0, <2>1 DEF BodyInv, Before, Stages
    <2>7. HeadInv'
      BY <1>0, <2>1, <2>2, <2>3, <2>4 DEF HeadInv, Before, Answered, Stages
    <2>8. AuditRecordsWire' /\ NoFalseSuccess'
      BY <1>0, <2>1 DEF AuditRecordsWire, NoFalseSuccess
    <2> QED BY <2>5, <2>6, <2>7, <2>8 DEF IInv
  <1> QED BY <1>1, <1>2, <1>4, <1>5, <1>6

\* Relaying the answer and the way back keep the invariant.
LEMMA ReturnKeeps ==
    ASSUME IInv,
           \/ \E n \in 1..MaxSent : Relay(n)
           \/ RelayEnds \/ RelayAborts \/ LogPanics \/ Return \/ Recover
    PROVE  IInv'
  <1>. USE ExchangeAssumption
  <1>0. /\ TypeOK /\ BodyInv /\ HeadInv /\ entry = Nil /\ counted = Nil /\ pc \in Answered
        /\ wire \in Statuses /\ wire # Nil
    <2>1. pc \in Answered
      BY DEF Relay, RelayEnds, RelayAborts, LogPanics, Return, Recover, Answered
    <2>2. \A c \in Statuses : c # Nil
      BY DEF Statuses, Denials, Answers, Informational
    <2> QED BY <2>1, <2>2 DEF IInv, HeadInv, Answered
  <1>1. CASE \E n \in 1..MaxSent : Relay(n)
    <2>0. PICK n \in 1..MaxSent : Relay(n)
      BY <1>1
    <2>1. /\ pc = "relay" /\ Write(n) /\ sent' = sent + n /\ sent' \in Nat
          /\ UNCHANGED <<req, pc, source, left, views, received, status, wrote, wire,
                         cut, entry, counted, printed>>
      BY <1>0, <2>0 DEF Relay, Write, bodyVars, headVars, records, TypeOK
    <2>2. captured' \in 0..Cap
      BY <1>0, <2>1 DEF Write, Least, TypeOK
    <2>3. views["audit"] # Nil => captured' = Least(sent', Cap)
      BY <1>0, <2>1, LeastFacts DEF Write, HeadInv, TypeOK, Answered
    <2>4. TypeOK'
      BY <1>0, <2>1, <2>2 DEF TypeOK
    <2>5. BodyInv'
      BY <1>0, <2>1 DEF BodyInv
    <2>6. HeadInv'
      BY <1>0, <2>1, <2>3 DEF HeadInv, Before, Answered, Stages
    <2>7. AuditRecordsWire' /\ NoFalseSuccess'
      BY <1>0, <2>1 DEF AuditRecordsWire, NoFalseSuccess
    <2> QED BY <2>4, <2>5, <2>6, <2>7 DEF IInv
  <1>2. CASE RelayEnds \/ RelayAborts \/ LogPanics
    <2>1. /\ pc \in {"relay", "return"}
          /\ (pc' = "return" /\ cut' = cut) \/ (pc' = "panic" /\ cut' = TRUE)
          /\ UNCHANGED <<req, source, left, views, received, status, wrote, wire,
                         captured, sent, entry, counted, printed>>
      BY <1>2 DEF RelayEnds, RelayAborts, LogPanics, bodyVars, answerVars, headVars, records
    <2>2. TypeOK'
      BY <1>0, <2>1 DEF TypeOK
    <2>3. BodyInv'
      BY <1>0, <2>1 DEF BodyInv, Before, Stages
    <2>4. HeadInv'
      BY <1>0, <2>1 DEF HeadInv, Before, Answered, Stages
    <2>5. AuditRecordsWire' /\ NoFalseSuccess'
      BY <1>0, <2>1 DEF AuditRecordsWire, NoFalseSuccess
    <2> QED BY <2>2, <2>3, <2>4, <2>5 DEF IInv
  <1>3. CASE Return
    <2>1. /\ pc = "return" /\ pc' = "done"
          /\ counted' = (IF req.metrics THEN status["metrics"] ELSE Nil)
          /\ printed' = status["logger"]
          /\ entry' = IF views["audit"] = Nil THEN Nil
                      ELSE [status |-> status["audit"], body |-> captured]
          /\ UNCHANGED <<req, source, left, views, received, status, wrote, wire, captured, sent,
                         cut>>
      BY <1>3 DEF Return, bodyVars, answerVars, headVars
    <2>2. status["metrics"] \in Statuses /\ status["logger"] = wire /\ status["audit"] \in Statuses
          /\ (req.metrics => status["metrics"] \in {wire, Informational}) /\ ~cut
      BY <1>0, <2>1 DEF TypeOK, HeadInv, Layers
    <2>3. TypeOK'
      BY <1>0, <2>1, <2>2 DEF TypeOK
    <2>4. BodyInv'
      BY <1>0, <2>1 DEF BodyInv, Before, Stages
    <2>5. HeadInv'
      BY <1>0, <2>1 DEF HeadInv, Before, Answered, Stages
    <2>6. AuditRecordsWire'
      BY <1>0, <2>1 DEF HeadInv, AuditRecordsWire, Answered, Least
    <2>7. NoFalseSuccess'
      BY <2>1, <2>2 DEF NoFalseSuccess
    <2> QED BY <2>3, <2>4, <2>5, <2>6, <2>7 DEF IInv
  <1>4. CASE Recover
    <2>1. /\ pc = "panic" /\ pc' = "done" /\ printed' = 500 /\ sent' \in {sent, sent + 1}
          /\ WriteHeader({"logger"}, 500)
          /\ UNCHANGED <<req, source, left, views, received, captured, cut, entry, counted>>
      BY <1>4 DEF Recover, bodyVars
    <2>2. 500 \in Statuses
      BY DEF Statuses, Answers
    <2>3. wire' = wire /\ wrote' \in BOOLEAN /\ status' \in [Layers -> Statuses] /\ cut
      BY <1>0, <2>1, <2>2 DEF WriteHeader, TypeOK, HeadInv
    <2>4. TypeOK'
      BY <1>0, <2>1, <2>2, <2>3 DEF TypeOK
    <2>5. BodyInv'
      BY <1>0, <2>1 DEF BodyInv, Before, Stages
    <2>6. HeadInv'
      BY <1>0, <2>1, <2>3 DEF HeadInv, Before, Answered, Stages
    <2>7. AuditRecordsWire' /\ NoFalseSuccess'
      BY <1>0, <2>1, <2>3 DEF AuditRecordsWire, NoFalseSuccess
    <2> QED BY <2>4, <2>5, <2>6, <2>7 DEF IInv
  <1> QED BY <1>1, <1>2, <1>3, <1>4

\* The inductive invariant holds in every state of a request.
THEOREM ExchangeInvariant == Spec => []IInv
  <1>1. IInv /\ [Next]_vars => IInv'
    <2>. SUFFICES ASSUME IInv, [Next]_vars PROVE IInv'
      OBVIOUS
    <2>1. CASE UNCHANGED vars
      BY <2>1 DEF vars, bodyVars, answerVars, headVars, records, IInv, TypeOK, BodyInv, HeadInv,
                  AuditRecordsWire, NoFalseSuccess
    <2>2. CASE Next
      BY <2>2, StagesKeep, ProxyKeeps, ReturnKeeps DEF Next
    <2> QED BY <2>1, <2>2
  <1> QED BY <1>1, InitIInv, PTL DEF Spec

\* Every variable keeps its type, and responseCapture its limit.
THEOREM ExchangeTypeOK == Spec => []TypeOK
  <1>1. IInv => TypeOK
    BY DEF IInv
  <1> QED BY <1>1, ExchangeInvariant, PTL

\* What the upstream gets as a complete request is what every stage saw, and
\* as long as declared (readAndRestore three times, then the proxy).
THEOREM ExchangeBodyIntegrity == Spec => []BodyIntegrity
  <1>1. IInv => BodyIntegrity
    BY ExchangeAssumption DEF IInv, TypeOK, BodyInv, BodyIntegrity
  <1> QED BY <1>1, ExchangeInvariant, PTL

\* An audit entry tells the status and the beginning of the body the client was
\* sent (responseCapture, audit.Middleware).
THEOREM ExchangeAuditRecordsWire == Spec => []AuditRecordsWire
  <1>1. IInv => AuditRecordsWire
    BY DEF IInv
  <1> QED BY <1>1, ExchangeInvariant, PTL

\* No record calls an answer good that broke off or was spoiled by a panic, and
\* every other status on record is the one sent, but for a 1xx that metrics keep
\* (statusCapture, statusWriter, audit.Middleware, Recoverer).
THEOREM ExchangeNoFalseSuccess == Spec => []NoFalseSuccess
  <1>1. IInv => NoFalseSuccess
    BY DEF IInv
  <1> QED BY <1>1, ExchangeInvariant, PTL
=============================================================================
