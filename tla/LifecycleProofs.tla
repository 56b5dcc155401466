-------------------------- MODULE LifecycleProofs --------------------------
(***************************************************************************)
(* Safety theorems about the gateway process and its audit logger, for     *)
(* every number of requests and every buffer size.                         *)
(***************************************************************************)
EXTENDS Lifecycle, TLAPS, SequenceTheorems, FiniteSetTheorems

USE DEF auditVars, flags, requestVars

---------------------------------------------------------------------------
(* Sequences.                                                              *)

\* Appending to the last part appends to the whole.
LEMMA ConcatAppend ==
  ASSUME NEW S, NEW s \in Seq(S), NEW t \in Seq(S), NEW x \in S
  PROVE  s \o Append(t, x) = Append(s \o t, x)
  OBVIOUS

\* The head in hand and the tail behind it are the queue.
LEMMA HeadTail ==
  ASSUME NEW S, NEW s \in Seq(S), NEW t \in Seq(S), t # <<>>
  PROVE  s \o t = (s \o <<Head(t)>>) \o Tail(t)
  OBVIOUS

\* Finishing the entry in hand appends it.
LEMMA AppendHand ==
  ASSUME NEW S, NEW s \in Seq(S), NEW x \in S
  PROVE  Append(s, x) = s \o <<x>>
  OBVIOUS

\* The empty sequence is neutral.
LEMMA ConcatEmpty ==
  ASSUME NEW S, NEW s \in Seq(S)
  PROVE  s \o <<>> = s
  OBVIOUS

---------------------------------------------------------------------------
(* Type correctness.                                                       *)

\* Before the logger is made there is nothing of it, and before the server is
\* started there are no handlers.
StartInv ==
    /\ main \in {"config", "connect", "migrate"} => writer = "none"
    /\ main \in {"config", "connect", "migrate", "listen"} =>
           listener = "none" /\ \A r \in Requests : handler[r] = "new"
    /\ writer = "none" =>
           entries = <<>> /\ logged = <<>> /\ attempts = <<>> /\ dropped = 0 /\ ~closed

\* The buffer never holds more than its size, and the writer has an entry in
\* hand exactly while it inserts; it starts with nothing in hand.
LEMMA TypeInvariant == Spec => [](TypeOK /\ StartInv)
<1>1. Init => TypeOK
  <2>. SUFFICES ASSUME Init PROVE TypeOK
    OBVIOUS
  <2>1. AuditTypeOK
    <3>1. <<>> \in Seq(Requests) /\ Len(<<>>) <= BufferSize
      BY AuditAssumption
    <3>2. (writer = "insert") <=> (hand # Nil)
      BY DEF Init, AuditInit
    <3>. QED  BY <3>1, <3>2 DEF Init, AuditInit, AuditTypeOK
  <2>2. /\ handler \in [Requests -> {"new", "proxying", "done", "aborted", "panicked"}]
        /\ probe \in [Probes -> {"new", "ping", "ready", "not_ready"}]
    BY DEF Init
  <2>. QED  BY <2>1, <2>2 DEF Init, TypeOK, StartUp
<1>2. TypeOK /\ StartInv /\ [Next]_vars => TypeOK'
  <2>. SUFFICES ASSUME TypeOK, StartInv, [Next]_vars PROVE TypeOK'
    OBVIOUS
  <2>. USE AuditAssumption DEF TypeOK, AuditTypeOK, StartUp
  <2>0. (UNCHANGED auditVars) => AuditTypeOK'
    OBVIOUS
  <2>1. ASSUME NEW r \in Requests, Accept(r) \/ ProxyAborts(r) PROVE TypeOK'
    BY <2>1 DEF Accept, Served, ProxyAborts, HandlerGoes
  <2>2. ASSUME NEW r \in Requests, LogEntry(r) PROVE TypeOK'
    <3>1. /\ UNCHANGED <<main, flags, probe>>
          /\ handler' \in [Requests -> {"new", "proxying", "done", "aborted", "panicked"}]
      BY <2>2 DEF LogEntry, HandlerGoes
    <3>2. CASE LogAccepts(r)
      <4>1. Append(entries, r) \in Seq(Requests) /\ Append(logged, r) \in Seq(Requests)
        OBVIOUS
      <4>2. Len(Append(entries, r)) <= BufferSize
        BY <3>2 DEF LogAccepts
      <4>. QED  BY <3>1, <3>2, <4>1, <4>2 DEF LogAccepts
    <3>3. CASE LogDrops(r)
      BY <3>1, <3>3 DEF LogDrops
    <3>4. CASE UNCHANGED auditVars
      BY <3>1, <3>4
    <3>. QED  BY <2>2, <3>2, <3>3, <3>4 DEF LogEntry, LogPanics
  <2>3. ASSUME NEW p \in Probes, Readyz(p) \/ Ping(p) PROVE TypeOK'
    <3>1. probe' \in [Probes -> {"new", "ping", "ready", "not_ready"}]
      BY <2>3 DEF Readyz, Ping
    <3>. QED  BY <2>3, <3>1 DEF Readyz, Ping
  <2>4. CASE Signal \/ ServeFails \/ Deadline \/ Kill \/ ListenerUp \/ ListenerFails
    <3>. HIDE DEF AuditTypeOK
    <3>1. CASE Signal \/ ServeFails \/ Deadline
      BY <2>0, <3>1 DEF Signal, ServeFails, Deadline, MainGoes
    <3>2. CASE Kill \/ ListenerUp \/ ListenerFails
      BY <2>0, <3>2 DEF Kill, ListenerUp, ListenerFails, MainGoes
    <3>. QED  BY <2>4, <3>1, <3>2
  <2>5. CASE ClearReady \/ MetricsShutdown \/ Shutdown \/ ShutdownDone \/ ShutdownForced
    <3>. HIDE DEF AuditTypeOK
    <3>1. CASE ClearReady \/ MetricsShutdown \/ ShutdownForced
      BY <2>0, <3>1 DEF ClearReady, MetricsShutdown, ShutdownForced, MainGoes
    <3>2. CASE Shutdown \/ ShutdownDone
      BY <2>0, <3>2 DEF Shutdown, ShutdownDone, MainGoes
    <3>. QED  BY <2>5, <3>1, <3>2
  <2>6. CASE CloseLogger \/ NoLogger \/ LoggerClosed \/ CloseDB \/ ExitProcess
    <3>1. AuditTypeOK'
      BY <2>6 DEF CloseLogger, NoLogger, LoggerClosed, CloseDB, ExitProcess, CloseEntries,
                  CloseReturns
    <3>. HIDE DEF AuditTypeOK
    <3>. QED  BY <2>6, <3>1 DEF CloseLogger, NoLogger, LoggerClosed, CloseDB, ExitProcess, MainGoes
  <2>7. CASE WriterStep
    <3>1. CASE Receive
      BY <2>7, <3>1 DEF WriterStep, Receive
    <3>2. ASSUME NEW stored \in BOOLEAN, InsertReturns(stored) PROVE TypeOK'
      BY <2>7, <3>2 DEF WriterStep, InsertReturns
    <3>3. CASE Exit
      BY <2>7, <3>3 DEF WriterStep, Exit
    <3>. QED
      BY <2>7, <3>1, <3>2, <3>3 DEF WriterStep, ProcessStep, InsertOk, InsertFails
  <2>8. CASE LoadConfig
    <3>1. main' \in {"exit", "connect", "listen"} /\ config' \in [db : BOOLEAN, audit : BOOLEAN]
      BY <2>8 DEF LoadConfig, MainGoes
    <3>2. UNCHANGED <<auditVars, ready, listener, expired, graceful, requestVars>>
      BY <2>8 DEF LoadConfig, MainGoes
    <3>. QED  BY <3>1, <3>2
  <2>9. CASE Connect \/ ConnectFails \/ MigrateFails \/ Listen \/ SetReady
    <3>1. AuditTypeOK'
      BY <2>9 DEF Connect, ConnectFails, MigrateFails, Listen, SetReady
    <3>. HIDE DEF AuditTypeOK
    <3>. QED  BY <2>9, <3>1 DEF Connect, ConnectFails, MigrateFails, Listen, SetReady, MainGoes
  <2>10. CASE Migrate
    <3>1. main = "migrate" /\ writer' \in {"none", "receive"}
      BY <2>10 DEF Migrate, MainGoes
    <3>2. writer = "none" /\ hand = Nil
      BY <3>1 DEF StartInv
    <3>. QED  BY <2>10, <3>1, <3>2 DEF Migrate, MainGoes
  <2>11. CASE UNCHANGED vars
    BY <2>11 DEF vars
  <2>. QED
    BY <2>1, <2>2, <2>3, <2>4, <2>5, <2>6, <2>7, <2>8, <2>9, <2>10, <2>11
    DEF Next, Start, MainStep
<1>3. Init => StartInv
  BY DEF Init, AuditInit, StartInv
<1>4. TypeOK /\ StartInv /\ [Next]_vars => StartInv'
  <2>. SUFFICES ASSUME TypeOK, StartInv, [Next]_vars PROVE StartInv'
    OBVIOUS
  <2>. USE DEF StartInv
  <2>1. ASSUME NEW r \in Requests, Accept(r) \/ LogEntry(r) \/ ProxyAborts(r) PROVE StartInv'
    <3>1. main \notin {"config", "connect", "migrate", "listen"} /\ main' = main /\ writer' = writer
      BY <2>1 DEF Accept, Served, LogEntry, ProxyAborts, HandlerGoes, LogAccepts, LogDrops, LogPanics
    <3>2. writer = "none" => UNCHANGED auditVars
      BY <2>1 DEF Accept, LogEntry, ProxyAborts, HandlerGoes
    <3>. QED  BY <3>1, <3>2
  <2>2. ASSUME NEW p \in Probes, Readyz(p) \/ Ping(p) PROVE StartInv'
    BY <2>2 DEF Readyz, Ping
  <2>3. CASE Signal \/ ServeFails \/ Deadline \/ Kill \/ ListenerUp \/ ListenerFails
    BY <2>3 DEF Signal, ServeFails, Deadline, Kill, ListenerUp, ListenerFails, MainGoes
  <2>4. CASE MainStep
    BY <2>4 DEF MainStep, ClearReady, MetricsShutdown, Shutdown, ShutdownDone, ShutdownForced, CloseLogger,
                NoLogger, LoggerClosed, CloseDB, ExitProcess, MainGoes, CloseEntries, CloseReturns
  <2>5. CASE WriterStep
    BY <2>5 DEF WriterStep, ProcessStep, Receive, InsertOk, InsertFails, InsertReturns, Exit
  <2>6. CASE LoadConfig
    <3>1. /\ main = "config" /\ main' \in {"exit", "connect", "listen"}
          /\ UNCHANGED <<auditVars, listener, handler>>
      BY <2>6 DEF LoadConfig, MainGoes
    <3>. QED  BY <3>1
  <2>7. CASE Connect \/ ConnectFails \/ Migrate \/ MigrateFails \/ Listen \/ SetReady
    BY <2>7 DEF Connect, ConnectFails, Migrate, MigrateFails, Listen, SetReady, MainGoes
  <2>8. CASE UNCHANGED vars
    BY <2>8 DEF vars
  <2>. QED
    BY <2>1, <2>2, <2>3, <2>4, <2>5, <2>6, <2>7, <2>8 DEF Next, Start
<1>. QED  BY <1>1, <1>2, <1>3, <1>4, PTL DEF Spec

\* Every variable keeps its type.
THEOREM TypeCorrect == Spec => []TypeOK
  BY TypeInvariant, PTL

---------------------------------------------------------------------------
(* Delivery.                                                               *)

\* Steps that leave the queue alone.
QueueUnchanged == UNCHANGED <<entries, hand, logged, attempts>>

\* Only Log, Receive and the inserts touch the queue.
LEMMA QueueSteps ==
  ASSUME TypeOK, [Next]_vars
  PROVE  \/ QueueUnchanged
         \/ \E r \in Requests : LogAccepts(r)
         \/ Receive
         \/ \E stored \in BOOLEAN : InsertReturns(stored)
<1>1. ASSUME NEW r \in Requests, Accept(r) \/ ProxyAborts(r) PROVE QueueUnchanged
  BY <1>1 DEF QueueUnchanged, Accept, ProxyAborts
<1>2. ASSUME NEW r \in Requests, LogEntry(r) PROVE QueueUnchanged \/ LogAccepts(r)
  BY <1>2 DEF QueueUnchanged, LogEntry, LogDrops, LogPanics
<1>3. CASE Signal \/ ServeFails \/ Deadline \/ Kill \/ ListenerUp \/ ListenerFails \/ MainStep
  <2>1. QueueUnchanged
    BY <1>3 DEF QueueUnchanged, Signal, ServeFails, Deadline, Kill, ListenerUp, ListenerFails,
                MainStep, ClearReady, MetricsShutdown, Shutdown, ShutdownDone, ShutdownForced,
                CloseLogger, NoLogger, LoggerClosed, CloseDB, ExitProcess, CloseEntries,
                CloseReturns
  <2>. QED  BY <2>1
<1>4. CASE WriterStep
  <2>1. ASSUME Exit PROVE QueueUnchanged
    BY <2>1 DEF Exit, QueueUnchanged
  <2>2. ASSUME InsertOk \/ InsertFails
        PROVE  \E stored \in BOOLEAN : InsertReturns(stored)
    <3>1. CASE InsertOk
      BY <3>1 DEF InsertOk
    <3>2. CASE InsertFails
      <4>1. PICK stored \in {FALSE, dbOpen} : InsertReturns(stored)
        BY <3>2 DEF InsertFails
      <4>2. stored \in BOOLEAN
        BY DEF TypeOK, AuditTypeOK
      <4>. QED  BY <4>1, <4>2
    <3>. QED  BY <2>2, <3>1, <3>2
  <2>. QED  BY <1>4, <2>1, <2>2 DEF WriterStep, ProcessStep
<1>5. CASE UNCHANGED vars
  BY <1>5 DEF vars, QueueUnchanged
<1>6. CASE Start \/ \E p \in Probes : Readyz(p) \/ Ping(p)
  <2>1. QueueUnchanged
    BY <1>6 DEF QueueUnchanged, Start, LoadConfig, Connect, ConnectFails, Migrate, MigrateFails,
                Listen, SetReady, Readyz, Ping
  <2>. QED  BY <2>1
<1>. QED  BY <1>1, <1>2, <1>3, <1>4, <1>5, <1>6 DEF Next

\* Nothing Log accepted is lost, repeated or overtaken on its way to the
\* database.
THEOREM FifoDelivered == Spec => []FifoDelivery
<1>1. Init => FifoDelivery
  BY DEF Init, AuditInit, FifoDelivery
<1>2. TypeOK /\ FifoDelivery /\ [Next]_vars => FifoDelivery'
  <2>. SUFFICES ASSUME TypeOK, FifoDelivery, [Next]_vars PROVE FifoDelivery'
    OBVIOUS
  <2>. DEFINE held == IF hand = Nil THEN <<>> ELSE <<hand>>
  <2>1. /\ entries \in Seq(Requests) /\ attempts \in Seq(Requests)
        /\ logged \in Seq(Requests) /\ held \in Seq(Requests)
        /\ logged = (attempts \o held) \o entries
        /\ Nil \notin Requests
        /\ hand \in Requests \cup {Nil} /\ ((writer = "insert") <=> (hand # Nil))
    BY AuditAssumption DEF TypeOK, AuditTypeOK, FifoDelivery
  <2>2. attempts \o held \in Seq(Requests)
    BY <2>1
  <2>3. CASE QueueUnchanged
    BY <2>3 DEF QueueUnchanged, FifoDelivery
  <2>4. ASSUME NEW r \in Requests, LogAccepts(r) PROVE FifoDelivery'
    <3>1. (attempts \o held) \o Append(entries, r)
            = Append((attempts \o held) \o entries, r)
      <4>. HIDE DEF held
      <4>. QED  BY <2>1, <2>2, ConcatAppend
    <3>. QED  BY <2>1, <2>4, <3>1 DEF LogAccepts, FifoDelivery
  <2>5. CASE Receive
    <3>1. hand = Nil /\ held = <<>> /\ attempts \o held = attempts
      BY <2>1, <2>5, ConcatEmpty DEF Receive
    <3>2. logged = (attempts \o <<Head(entries)>>) \o Tail(entries)
      BY <2>1, <2>5, <3>1, HeadTail DEF Receive
    <3>3. Head(entries) # Nil
      BY <2>1, <2>5 DEF Receive
    <3>. QED  BY <2>5, <3>2, <3>3 DEF Receive, FifoDelivery
  <2>6. ASSUME NEW stored \in BOOLEAN, InsertReturns(stored) PROVE FifoDelivery'
    <3>1. hand \in Requests /\ held = <<hand>>
      BY <2>1, <2>6 DEF InsertReturns
    <3>2. Append(attempts, hand) = attempts \o held /\ Append(attempts, hand) \in Seq(Requests)
      BY <2>1, <3>1, AppendHand
    <3>3. Append(attempts, hand) \o <<>> = Append(attempts, hand)
      BY <3>2, ConcatEmpty
    <3>4. /\ attempts' = Append(attempts, hand) /\ hand' = Nil
          /\ entries' = entries /\ logged' = logged
      BY <2>6 DEF InsertReturns
    <3>5. logged' = (attempts' \o <<>>) \o entries'
      BY <2>1, <3>2, <3>3, <3>4
    <3>. QED  BY <3>4, <3>5 DEF FifoDelivery
  <2>. QED  BY <2>3, <2>4, <2>5, <2>6, QueueSteps
<1>. QED  BY <1>1, <1>2, TypeCorrect, PTL DEF Spec

---------------------------------------------------------------------------
(* Shutdown.  Neither property is inductive: the order of run's last steps *)
(* must be told, and that a handler panics only on a closed channel.       *)

ShutdownInv ==
    /\ closed => main \in {"wait", "dbclose", "exit", "exited", "killed"}
    /\ main \in {"wait", "dbclose", "exit", "exited"} => closed \/ writer = "none"
    /\ main \in {"dbclose", "exit", "exited"} => writer \in {"none", "exited"}
    /\ ~dbOpen => writer \in {"none", "exited"}
    /\ main = "migrate" => dbOpen
    /\ main \in {"listen", "spawned", "serving", "unready", "metrics", "drain", "poll", "close", "wait"}
           /\ writer # "none" => dbOpen
    /\ writer = "exited" => closed /\ entries = <<>>
    /\ main = "poll" => listener = "down"
    /\ \A r \in Requests : handler[r] = "panicked" => closed
    /\ graceful => /\ listener = "down"
                   /\ main \in {"close", "wait", "dbclose", "exit", "exited", "killed"}
                   /\ \A r \in Requests : handler[r] \notin {"proxying", "panicked"}
                   /\ \A p \in Probes : probe[p] # "ping"

\* The steps of run, the handlers and the writer keep their order.
LEMMA ShutdownInvariant == Spec => []ShutdownInv
<1>1. Init => ShutdownInv
  BY DEF Init, AuditInit, ShutdownInv
<1>2. TypeOK /\ StartInv /\ ShutdownInv /\ [Next]_vars => ShutdownInv'
  <2>. SUFFICES ASSUME TypeOK, StartInv, ShutdownInv, [Next]_vars PROVE ShutdownInv'
    OBVIOUS
  <2>. USE DEF TypeOK, AuditTypeOK, ShutdownInv, StartUp
  <2>1. ASSUME NEW r \in Requests, Accept(r) PROVE ShutdownInv'
    BY <2>1 DEF Accept, Served, HandlerGoes
  <2>2. ASSUME NEW r \in Requests, LogEntry(r) PROVE ShutdownInv'
    <3>1. CASE LogPanics(r)
      BY <2>2, <3>1 DEF LogEntry, HandlerGoes, LogPanics, LogAccepts, LogDrops
    <3>2. CASE LogAccepts(r)
      BY <2>2, <3>2 DEF LogEntry, HandlerGoes, LogPanics, LogAccepts, LogDrops
    <3>3. CASE LogDrops(r)
      BY <2>2, <3>3 DEF LogEntry, HandlerGoes, LogPanics, LogAccepts, LogDrops
    <3>4. CASE HandlerGoes(r, "proxying", "done") /\ UNCHANGED auditVars
      BY <3>4 DEF HandlerGoes
    <3>. QED  BY <2>2, <3>1, <3>2, <3>3, <3>4 DEF LogEntry
  <2>3. ASSUME NEW r \in Requests, ProxyAborts(r) PROVE ShutdownInv'
    BY <2>3 DEF ProxyAborts, HandlerGoes
  <2>4. CASE Signal \/ ServeFails \/ Deadline \/ Kill \/ ListenerUp \/ ListenerFails
    BY <2>4 DEF Signal, ServeFails, Deadline, Kill, ListenerUp, ListenerFails, MainGoes
  <2>5. CASE ClearReady \/ MetricsShutdown \/ ShutdownForced \/ ExitProcess
    BY <2>5 DEF ClearReady, MetricsShutdown, ShutdownForced, ExitProcess, MainGoes
  <2>6. CASE Shutdown \/ ShutdownDone
    BY <2>6 DEF Shutdown, ShutdownDone, MainGoes, InFlight
  <2>7. CASE CloseLogger \/ NoLogger
    BY <2>7 DEF CloseLogger, NoLogger, CloseEntries, MainGoes
  <2>8. CASE LoggerClosed
    BY <2>8 DEF LoggerClosed, CloseReturns, MainGoes
  <2>9. CASE CloseDB
    BY <2>9 DEF CloseDB, MainGoes
  <2>10. CASE WriterStep
    BY <2>10 DEF WriterStep, ProcessStep, Receive, InsertOk, InsertFails,
                 InsertReturns, Exit
  <2>11. ASSUME NEW p \in Probes, Readyz(p) \/ Ping(p) PROVE ShutdownInv'
    <3>1. CASE Readyz(p)
      BY <3>1 DEF Readyz, Served
    <3>2. CASE Ping(p)
      BY <3>2 DEF Ping
    <3>. QED  BY <2>11, <3>1, <3>2
  <2>12. CASE LoadConfig
    <3>1. /\ main = "config" /\ main' \in {"exit", "connect", "listen"}
          /\ UNCHANGED <<auditVars, listener, graceful, handler, probe>> /\ writer = "none"
      BY <2>12 DEF LoadConfig, MainGoes, StartInv
    <3>. QED  BY <3>1
  <2>13. CASE Connect \/ ConnectFails \/ Migrate \/ MigrateFails \/ Listen \/ SetReady
    <3>1. CASE Connect \/ Migrate
      BY <3>1 DEF Connect, Migrate, MainGoes, StartInv
    <3>2. CASE ConnectFails \/ MigrateFails
      BY <3>2 DEF ConnectFails, MigrateFails, MainGoes, StartInv
    <3>3. CASE Listen \/ SetReady
      BY <3>3 DEF Listen, SetReady, MainGoes, StartInv
    <3>. QED  BY <2>13, <3>1, <3>2, <3>3
  <2>14. CASE UNCHANGED vars
    BY <2>14 DEF vars
  <2>. QED
    BY <2>1, <2>2, <2>3, <2>4, <2>5, <2>6, <2>7, <2>8, <2>9, <2>10, <2>11, <2>12, <2>13, <2>14
    DEF Next, Start, MainStep
<1>. QED  BY <1>1, <1>2, TypeInvariant, PTL DEF Spec

\* The database pool outlives the last insert, however the process ends.
THEOREM LoggerDrained == Spec => []WrittenBeforeDbClose
<1>1. TypeOK /\ StartInv /\ ShutdownInv /\ FifoDelivery => WrittenBeforeDbClose
  <2>. SUFFICES ASSUME TypeOK, StartInv, ShutdownInv, FifoDelivery, ~dbOpen
               PROVE  attempts = logged /\ writer \in {"none", "exited"}
    BY DEF WrittenBeforeDbClose
  <2>1. writer \in {"none", "exited"} /\ entries = <<>> /\ hand = Nil
    BY DEF TypeOK, AuditTypeOK, ShutdownInv, StartInv
  <2>2. logged = (attempts \o <<>>) \o <<>>
    BY <2>1 DEF FifoDelivery
  <2>3. attempts \in Seq(Requests)
    BY DEF TypeOK, AuditTypeOK
  <2>. QED  BY <2>1, <2>2, <2>3, ConcatEmpty
<1>. QED  BY <1>1, TypeInvariant, ShutdownInvariant, FifoDelivered, PTL

\* After a graceful shutdown no handler and no probe is running, and no handler
\* has met the closed channel.
THEOREM GracefulQuiet == Spec => []GracefulMeansQuiet
<1>1. ShutdownInv => GracefulMeansQuiet
  BY DEF ShutdownInv, GracefulMeansQuiet, InFlight
<1>. QED  BY <1>1, ShutdownInvariant, PTL

---------------------------------------------------------------------------
(* Accounting.                                                             *)

Done == {r \in Requests : handler[r] = "done"}

\* Every request whose handler returned has been accepted or counted.
THEOREM DropsAccounted == Spec => []DropsCounted
<1>1. Init => DropsCounted
  BY DEF Init, AuditInit, DropsCounted
<1>2. TypeOK /\ StartInv /\ DropsCounted /\ [Next]_vars => DropsCounted'
  <2>. SUFFICES ASSUME TypeOK, StartInv, DropsCounted, [Next]_vars, writer' # "none"
               PROVE  Cardinality(Done') = Len(logged') + dropped'
    BY DEF DropsCounted, Done
  <2>0. writer # "none" => Cardinality(Done) = Len(logged) + dropped
    BY DEF DropsCounted, Done
  <2>1. CASE writer # "none" /\ Done' = Done /\ UNCHANGED <<logged, dropped>>
    BY <2>0, <2>1
  <2>2. ASSUME NEW r \in Requests, LogEntry(r)
        PROVE  Cardinality(Done') = Len(logged') + dropped'
    <3>0. handler[r] = "proxying" /\ writer # "none"
      BY <2>2 DEF LogEntry, HandlerGoes
    <3>1. CASE handler' = [handler EXCEPT ![r] = "panicked"] /\ LogPanics(r)
      <4>1. Done' = Done
        BY <3>0, <3>1 DEF Done, TypeOK
      <4>. QED  BY <2>1, <3>0, <3>1, <4>1 DEF LogPanics
    <3>2. CASE /\ handler' = [handler EXCEPT ![r] = "done"]
               /\ LogAccepts(r) \/ LogDrops(r)
      <4>2. Done' = Done \cup {r} /\ r \notin Done
        BY <3>0, <3>2 DEF Done, TypeOK
      <4>3. IsFiniteSet(Done)
        BY FS_Subset, AuditAssumption DEF Done
      <4>4. Cardinality(Done') = Cardinality(Done) + 1
        BY <4>2, <4>3, FS_AddElement, Zenon
      <4>5. Len(logged') + dropped' = Len(logged) + dropped + 1
        <5>1. logged \in Seq(Requests) /\ Len(logged) \in Nat /\ dropped \in Nat
          BY DEF TypeOK, AuditTypeOK
        <5>2. Len(Append(logged, r)) = Len(logged) + 1
          BY <5>1
        <5>. QED  BY <3>2, <5>1, <5>2 DEF LogAccepts, LogDrops
      <4>. QED  BY <2>0, <3>0, <4>4, <4>5
    <3>. QED  BY <2>2, <3>0, <3>1, <3>2 DEF LogEntry, HandlerGoes
  <2>3. ASSUME NEW r \in Requests, Accept(r) \/ ProxyAborts(r)
        PROVE  Cardinality(Done') = Len(logged') + dropped'
    <3>1. Done' = Done
      BY <2>3 DEF Accept, Served, ProxyAborts, HandlerGoes, Done, TypeOK
    <3>. QED  BY <2>1, <2>3, <3>1 DEF Accept, ProxyAborts
  <2>4. CASE \/ Signal \/ ServeFails \/ Deadline \/ Kill \/ ListenerUp \/ ListenerFails
             \/ \E p \in Probes : Readyz(p) \/ Ping(p)
    <3>1. UNCHANGED <<handler, logged, dropped, writer>>
      BY <2>4 DEF Signal, ServeFails, Deadline, Kill, ListenerUp, ListenerFails, MainGoes,
                  Readyz, Ping
    <3>. QED  BY <2>1, <3>1 DEF Done
  <2>5. CASE MainStep
    <3>1. UNCHANGED <<handler, logged, dropped, writer>>
      BY <2>5 DEF MainStep, ClearReady, MetricsShutdown, Shutdown, ShutdownDone, ShutdownForced, CloseLogger,
                  NoLogger, LoggerClosed, CloseDB, ExitProcess, CloseEntries, CloseReturns, MainGoes
    <3>. QED  BY <2>1, <3>1 DEF Done
  <2>6. CASE WriterStep
    <3>1. UNCHANGED <<handler, logged, dropped>> /\ writer # "none"
      BY <2>6 DEF WriterStep, ProcessStep, Receive, InsertOk, InsertFails, InsertReturns, Exit
    <3>. QED  BY <2>1, <3>1 DEF Done
  <2>7. CASE Migrate
    <3>1. /\ UNCHANGED <<handler, logged, dropped>> /\ main = "migrate"
      BY <2>7 DEF Migrate, MainGoes
    <3>2. Done' = {} /\ logged' = <<>> /\ dropped' = 0
      BY <3>1 DEF StartInv, Done
    <3>. QED  BY <3>2, FS_EmptySet
  <2>8. CASE LoadConfig \/ Connect \/ ConnectFails \/ MigrateFails \/ Listen \/ SetReady
    <3>1. UNCHANGED <<handler, logged, dropped, writer>>
      BY <2>8 DEF LoadConfig, Connect, ConnectFails, MigrateFails, Listen, SetReady, MainGoes
    <3>. QED  BY <2>1, <3>1 DEF Done
  <2>9. CASE UNCHANGED vars
    BY <2>1, <2>9 DEF vars, Done
  <2>. QED  BY <2>2, <2>3, <2>4, <2>5, <2>6, <2>7, <2>8, <2>9 DEF Next, Start
<1>. QED  BY <1>1, <1>2, TypeInvariant, PTL DEF Spec

---------------------------------------------------------------------------
(* Refinement.  Every step of the process is a step of AuditTrail or none  *)
(* of its business.                                                        *)

\* An entry in the log has a handler that returned.
LoggedInv == \A i \in DOMAIN logged : handler[logged[i]] = "done"

\* Handlers that have returned stay so, and entries are logged on return.
LEMMA LoggedInvariant == Spec => []LoggedInv
<1>1. Init => LoggedInv
  BY DEF Init, AuditInit, LoggedInv
<1>2. TypeOK /\ LoggedInv /\ [Next]_vars => LoggedInv'
  <2>. SUFFICES ASSUME TypeOK, LoggedInv, [Next]_vars PROVE LoggedInv'
    OBVIOUS
  <2>0. /\ logged \in Seq(Requests) /\ \A i \in DOMAIN logged : logged[i] \in Requests
        /\ DOMAIN handler = Requests
    BY DEF TypeOK, AuditTypeOK
  <2>1. ASSUME NEW r \in Requests, NEW to, HandlerGoes(r, "new", to) \/ HandlerGoes(r, "proxying", to),
               logged' = logged
        PROVE  LoggedInv'
    BY <2>0, <2>1 DEF HandlerGoes, LoggedInv
  <2>2. ASSUME NEW r \in Requests, LogEntry(r) PROVE LoggedInv'
    <3>1. CASE LogAccepts(r)
      <4>1. /\ logged' = Append(logged, r)
            /\ handler' = [handler EXCEPT ![r] = "done"]
        BY <2>2, <3>1 DEF LogEntry, LogAccepts, LogPanics, HandlerGoes
      <4>2. \A i \in DOMAIN logged' : logged'[i] = r \/ (i \in DOMAIN logged /\ logged'[i] = logged[i])
        BY <2>0, <4>1
      <4>. QED  BY <2>0, <4>1, <4>2 DEF LoggedInv
    <3>2. CASE logged' = logged
      BY <2>1, <2>2, <3>2 DEF LogEntry
    <3>. QED  BY <2>2, <3>1, <3>2 DEF LogEntry, LogDrops, LogPanics
  <2>3. ASSUME NEW r \in Requests, Accept(r) \/ ProxyAborts(r) PROVE LoggedInv'
    BY <2>1, <2>3 DEF Accept, ProxyAborts
  <2>4. CASE UNCHANGED <<logged, handler>>
    BY <2>4 DEF LoggedInv
  <2>5. CASE \/ Signal \/ ServeFails \/ Deadline \/ Kill \/ ListenerUp \/ ListenerFails
             \/ \E p \in Probes : Readyz(p) \/ Ping(p)
    BY <2>4, <2>5 DEF Signal, ServeFails, Deadline, Kill, ListenerUp, ListenerFails, MainGoes,
                      Readyz, Ping
  <2>6. CASE MainStep
    BY <2>4, <2>6 DEF MainStep, ClearReady, MetricsShutdown, Shutdown, ShutdownDone, ShutdownForced,
                      CloseLogger, NoLogger, LoggerClosed, CloseDB, ExitProcess, CloseEntries,
                      CloseReturns, MainGoes
  <2>7. CASE WriterStep
    BY <2>4, <2>7 DEF WriterStep, ProcessStep, Receive, InsertOk, InsertFails, InsertReturns, Exit
  <2>8. CASE Start
    BY <2>4, <2>8 DEF Start, LoadConfig, Connect, ConnectFails, Migrate, MigrateFails, Listen,
                      SetReady, MainGoes
  <2>9. CASE UNCHANGED vars
    BY <2>4, <2>9 DEF vars
  <2>. QED  BY <2>2, <2>3, <2>5, <2>6, <2>7, <2>8, <2>9 DEF Next
<1>. QED  BY <1>1, <1>2, TypeCorrect, PTL DEF Spec

\* The entries accepted and not attempted are the buffer and the one in hand.
LEMMA WaitingEntries ==
  ASSUME TypeOK, FifoDelivery
  PROVE  /\ Len(logged) \in Nat /\ Len(attempts) \in Nat /\ Len(entries) \in Nat
         /\ hand = Nil => Len(logged) - Len(attempts) = Len(entries)
         /\ hand # Nil => /\ Len(logged) - Len(attempts) = Len(entries) + 1
                          /\ logged[Len(attempts) + 1] = hand
<1>1. entries \in Seq(Requests) /\ attempts \in Seq(Requests) /\ logged \in Seq(Requests)
  BY DEF TypeOK, AuditTypeOK
<1>2. CASE hand = Nil
  <2>1. logged = (attempts \o <<>>) \o entries
    BY <1>2 DEF FifoDelivery
  <2>2. attempts \o <<>> = attempts
    BY <1>1, ConcatEmpty
  <2>3. Len(attempts \o entries) = Len(attempts) + Len(entries)
    BY <1>1
  <2>. QED  BY <1>1, <1>2, <2>1, <2>2, <2>3
<1>3. CASE hand # Nil
  <2>1. hand \in Requests
    BY <1>3 DEF TypeOK, AuditTypeOK
  <2>2. logged = (attempts \o <<hand>>) \o entries
    BY <1>3 DEF FifoDelivery
  <2>3. PICK held \in Seq(Requests) : held = attempts \o <<hand>>
    <3>1. <<hand>> \in Seq(Requests)
      BY <2>1
    <3>2. attempts \o <<hand>> \in Seq(Requests)
      BY <1>1, <3>1
    <3>. QED  BY <3>2
  <2>4. Len(held) = Len(attempts) + 1 /\ held[Len(attempts) + 1] = hand
    BY <1>1, <2>1, <2>3
  <2>5. Len(held \o entries) = Len(held) + Len(entries)
    BY <1>1
  <2>6. (held \o entries)[Len(attempts) + 1] = held[Len(attempts) + 1]
    <3>1. Len(attempts) + 1 \in 1..Len(held)
      BY <1>1, <2>4
    <3>2. \A i \in 1..Len(held) : (held \o entries)[i] = held[i]
      BY <1>1
    <3>. QED  BY <3>1, <3>2
  <2>. QED  BY <1>1, <1>3, <2>2, <2>3, <2>4, <2>5, <2>6
<1>. QED  BY <1>2, <1>3

\* The gateway's logger implements the safety part of AuditTrail: what is
\* accepted, lost, delivered, and in which order.
THEOREM TrailImplemented == Spec => Trail!Safety
<1>1. Init => Trail!Init
  BY DEF Init, AuditInit, Trail!Init
<1>2. TypeOK /\ FifoDelivery /\ LoggedInv /\ StartInv /\ [Next]_vars => [Trail!Next]_(Trail!vars)
  <2>. SUFFICES ASSUME TypeOK, FifoDelivery, LoggedInv, StartInv, [Next]_vars
                PROVE  Trail!Next \/ UNCHANGED Trail!vars
    OBVIOUS
  <2>0. BufferSize \in Nat /\ Len(entries) <= BufferSize
    BY AuditAssumption DEF TypeOK, AuditTypeOK
  <2>1. CASE UNCHANGED <<logged, attempts, dropped>> /\ (main' = "killed" <=> main = "killed")
    BY <2>1 DEF Trail!vars
  <2>2. ASSUME NEW r \in Requests, LogEntry(r) PROVE Trail!Next \/ UNCHANGED Trail!vars
    <3>0. main' = main /\ main # "killed" /\ handler[r] = "proxying"
      BY <2>2 DEF LogEntry, HandlerGoes, Running
    <3>1. CASE LogAccepts(r)
      <4>1. Len(logged) - Len(attempts) <= BufferSize
        BY <2>0, <3>1, WaitingEntries DEF LogAccepts, TypeOK, AuditTypeOK
      <4>2. \A i \in DOMAIN logged : logged[i] # r
        BY <3>0 DEF LoggedInv
      <4>3. Trail!Accept(r)
        BY <3>0, <3>1, <4>1, <4>2 DEF LogAccepts, Trail!Accept, Trail!Waiting
      <4>. QED  BY <4>3 DEF Trail!Next
    <3>2. CASE LogDrops(r)
      <4>1. Len(logged) - Len(attempts) >= BufferSize
        BY <2>0, <3>2, WaitingEntries DEF LogDrops, TypeOK, AuditTypeOK
      <4>2. Trail!Lose
        BY <3>0, <3>2, <4>1 DEF LogDrops, Trail!Lose, Trail!Waiting
      <4>. QED  BY <4>2 DEF Trail!Next
    <3>3. CASE UNCHANGED auditVars
      BY <2>1, <3>0, <3>3
    <3>. QED  BY <2>2, <3>1, <3>2, <3>3 DEF LogEntry, LogPanics
  <2>3. CASE WriterStep
    <3>0. main' = main /\ main # "killed"
      BY <2>3 DEF WriterStep, Running
    <3>1. CASE Receive \/ Exit
      BY <2>1, <3>0, <3>1 DEF Receive, Exit
    <3>2. ASSUME NEW stored, InsertReturns(stored) PROVE Trail!Next
      <4>1. hand # Nil
        BY <3>2 DEF InsertReturns, TypeOK, AuditTypeOK
      <4>2. Len(logged) - Len(attempts) > 0 /\ logged[Len(attempts) + 1] = hand
        BY <4>1, WaitingEntries
      <4>3. Trail!Deliver
        BY <3>0, <3>2, <4>2 DEF InsertReturns, Trail!Deliver, Trail!Waiting
      <4>. QED  BY <4>3 DEF Trail!Next
    <3>. QED  BY <2>3, <3>1, <3>2 DEF WriterStep, ProcessStep, InsertOk, InsertFails
  <2>4. CASE Kill
    <3>1. Trail!Kill
      BY <2>4 DEF Kill, Running, MainGoes, Trail!Kill
    <3>. QED  BY <3>1 DEF Trail!Next
  <2>5. ASSUME NEW r \in Requests, Accept(r) \/ ProxyAborts(r) PROVE UNCHANGED Trail!vars
    BY <2>1, <2>5 DEF Accept, Served, ProxyAborts, HandlerGoes, Trail!vars
  <2>6. CASE \/ Signal \/ ServeFails \/ Deadline \/ ListenerUp \/ ListenerFails
             \/ \E p \in Probes : Readyz(p) \/ Ping(p)
    BY <2>1, <2>6 DEF Signal, ServeFails, Deadline, ListenerUp, ListenerFails, MainGoes, Readyz, Ping
  <2>7. CASE MainStep
    BY <2>1, <2>7 DEF MainStep, ClearReady, MetricsShutdown, Shutdown, ShutdownDone, ShutdownForced,
                      CloseLogger, NoLogger, LoggerClosed, CloseDB, ExitProcess, CloseEntries,
                      CloseReturns, MainGoes
  <2>8. CASE Start
    BY <2>1, <2>8 DEF Start, LoadConfig, Connect, ConnectFails, Migrate, MigrateFails, Listen,
                      SetReady, MainGoes
  <2>9. CASE UNCHANGED vars
    BY <2>1, <2>9 DEF vars
  <2>. QED  BY <2>2, <2>3, <2>4, <2>5, <2>6, <2>7, <2>8, <2>9 DEF Next
<1>. QED
  BY <1>1, <1>2, TypeInvariant, FifoDelivered, LoggedInvariant, PTL DEF Spec, Trail!Safety
=============================================================================
