-------------------------- MODULE MonolithAgentProofs --------------------------
(***************************************************************************)
(* What MonolithAgent checks on small instances, for every set of clients, *)
(* connection sets, requests and device tables, both backends, all         *)
(* consistency modes and startup policies, and every bound.                *)
(***************************************************************************)
EXTENDS MonolithAgent, TLAPS

ClientRequests == [kind : {"edit", "mode", "recover"}, config : Configs,
                   mode : {"ocs", "debug"}, client : Clients]

\* The device entries of a configuration are contents the table can have.
LEMMA PairsTyped ==
    ASSUME NEW m \in {"ocs", "debug"}, NEW config \in Configs
    PROVE  PairsIn(m, config) \in Tables
BY ConfigAssumption DEF PairsIn

\* The cache status the Core takes over has one of its three values.
LEMMA CapturedTyped ==
    ASSUME NEW word \in {"READY", "UNKNOWN"}, NEW success \in BOOLEAN, NEW closed \in BOOLEAN,
           CoreTypes
    PROVE  Captured(word, success, closed) \in {"READY", "DRIFTED", "UNKNOWN"}
BY DEF Captured, CoreTypes

\* A handler that is about to call the backend on behalf of a client.
LEMMA PrepareTyped ==
    ASSUME TypeOK, NEW request \in ClientRequests, NEW previous \in Tables,
           NEW target \in Tables, Prepare(request, previous, target),
           bcache' \in {"READY", "UNKNOWN"}
    PROVE  BackendTypes' /\ RequestTypes'
<1>1. BackendTypes'
  BY DEF TypeOK, BackendTypes, Prepare, Txn!AtomicTypeOK
<1>2. RequestTypes'
  BY DEF Prepare, RequestTypes, ClientRequests, Kinds
<1> QED
  BY <1>1, <1>2

\* A request that is answered leaves nothing of the wrong type.
LEMMA ReplyTyped ==
    ASSUME TypeOK, phase' = "idle", verdict' = "none", disturbed' \in BOOLEAN,
           table' \in Tables, job' = NoJob, bcache' \in {"READY", "UNKNOWN"},
           pending' = Idle
    PROVE  BackendTypes' /\ RequestTypes'
<1>1. BackendTypes'
  BY ConfigAssumption DEF TypeOK, BackendTypes, Txn!AtomicTypeOK, Txn!Verdicts, NoJob
<1>2. RequestTypes'
  BY DEF RequestTypes, Idle, Kinds
<1> QED
  BY <1>1, <1>2

\* A handler that has called the backend returns.
LEMMA ReturnTyped ==
    ASSUME TypeOK, Txn!Return, job' = NoJob, bcache' \in {"READY", "UNKNOWN"}, pending' = Idle
    PROVE  BackendTypes' /\ RequestTypes'
BY ReplyTyped DEF TypeOK, BackendTypes, Txn!Return, Txn!AtomicTypeOK

----------------------------------------------------------------------------------
(* The inductive invariant *)

\* The backend works for the request that holds the lock, and a process that has
\* not started serves nobody.
LockHeld ==
    /\ phase # "idle" => pending.kind # "none"
    /\ phase = "done" <=> verdict # "none"
    /\ pending.kind = "startup" <=> pending.kind # "none" /\ ~up

\* What a request has checked before it called the backend still holds while it
\* waits, and the job is the one it has asked for.
InFlight ==
    /\ pending.kind \in {"edit", "mode", "recover"} =>
        /\ revision < MaxRevision
        /\ token[pending.client] = lease
    /\ pending.kind \in {"edit", "mode"} =>
        /\ ~gate
        /\ cache = "READY"
        /\ view[pending.client].revision = revision
        /\ job = [previous |-> CurrentPairs,
                  target |-> PairsIn(pending.mode, pending.config)]
    /\ pending.kind = "startup" =>
        /\ ~gate
        /\ mode = "ocs"
        /\ connections = InitialConfig
        /\ job.target = CurrentPairs

\* What the backend knows of the device when nobody else has written it.
DeviceKnown ==
    /\ ~unseen /\ phase = "idle" /\ pending.kind # "none" /\ ~Verify => table = job.previous
    /\ ~unseen /\ phase = "busy" /\ ~Verify => ~disturbed /\ table = job.previous
    /\ ~unseen /\ verdict = "ok" => table = job.target
    /\ ~unseen /\ verdict = "restored" => table = job.previous
    /\ Backend = "bfrt" /\ verdict = "failed" => bcache = "UNKNOWN"

\* The status is right with both backends, the cache with BFRT: an acknowledged
\* write is only as good as the cache it relied on.
Honest ==
    /\ StatusTruth
    /\ Backend = "bfrt" => CacheTruth

\* A pre-read is good until the call of the backend, unless somebody else writes.
InSync ==
    PreRead /\ pending.kind \in {"edit", "mode"} /\ phase = "idle" /\ ~overtaken =>
        table = CurrentPairs

\* What clients have read is a past state of this process, or the present one.
Views ==
    \A c \in Clients : view[c].alive =>
        /\ up
        /\ view[c].revision <= revision
        /\ view[c].revision = revision =>
            view[c].config = connections /\ view[c].mode = mode

Inv ==
    TypeOK /\ LockHeld /\ InFlight /\ DeviceKnown /\ Honest /\ InSync /\ StartupGate /\ Views

----------------------------------------------------------------------------------
(* Types *)

\* The first state of the model has the types.
LEMMA TypeInit == Init => TypeOK
<1> SUFFICES ASSUME Init PROVE TypeOK
  OBVIOUS
<1>1. BackendTypes
  BY ConfigAssumption
     DEF Init, BackendTypes, NoJob, Txn!AtomicInit, Txn!AtomicTypeOK, Txn!Verdicts
<1>2. CoreTypes
  <2>1. revision \in 0..MaxRevision
    BY BoundAssumption DEF Init
  <2> QED
    BY <2>1, ConfigAssumption DEF Init, CoreTypes
<1>3. RequestTypes
  BY DEF Init, RequestTypes, Idle, Kinds
<1>4. LeaseTypes
  BY BoundAssumption DEF Init, LeaseTypes
<1>5. view \in [Clients -> Snapshots]
  BY ConfigAssumption, BoundAssumption DEF Init, Snapshots
<1> QED
  BY <1>1, <1>2, <1>3, <1>4, <1>5 DEF TypeOK

\* Every step of every handler keeps the types.
LEMMA TypeStep == TypeOK /\ InFlight /\ [Next]_vars => TypeOK'
<1> USE DEF ClientRequests
<1> SUFFICES ASSUME TypeOK, InFlight, [Next]_vars PROVE TypeOK'
  OBVIOUS
<1> USE DEF TypeOK
<1>a. UNCHANGED txnVars => BackendTypes'
  BY DEF txnVars, deviceVars, BackendTypes, Txn!AtomicTypeOK
<1>b. UNCHANGED <<up, stateVars, history>> => CoreTypes'
  BY DEF stateVars, history, CoreTypes
<1>c. UNCHANGED pending => RequestTypes'
  BY DEF RequestTypes
<1>d. UNCHANGED leaseVars => LeaseTypes'
  BY DEF leaseVars, LeaseTypes
<1>1. ASSUME NEW c \in Clients, Acquire(c) PROVE TypeOK'
  <2>1. LeaseTypes'
    BY <1>1, BoundAssumption DEF Acquire, LeaseTypes
  <2> QED
    BY <1>1, <1>a, <1>b, <1>c, <2>1 DEF Acquire
<1>2. ASSUME NEW c \in Clients, Renew(c) PROVE TypeOK'
  <2>1. LeaseTypes'
    BY <1>2, BoundAssumption DEF Renew, LeaseTypes
  <2> QED
    BY <1>2, <1>a, <1>b, <1>c, <2>1 DEF Renew
<1>3. ASSUME NEW c \in Clients, Release(c) PROVE TypeOK'
  <2>1. LeaseTypes'
    BY <1>3, BoundAssumption DEF Release, LeaseTypes
  <2> QED
    BY <1>3, <1>a, <1>b, <1>c, <2>1 DEF Release
<1>4. ASSUME NEW c \in Clients, ReadSnapshot(c) PROVE TypeOK'
  <2>1. view' \in [Clients -> Snapshots]
    BY <1>4 DEF ReadSnapshot, Snapshots, CoreTypes
  <2> QED
    BY <1>4, <1>a, <1>b, <1>c, <1>d, <2>1 DEF ReadSnapshot
<1>5. ASSUME NEW c \in Clients, GetPermutation(c) PROVE TypeOK'
  <2>1. view' \in [Clients -> Snapshots]
    BY <1>5 DEF GetPermutation, Snapshots, CoreTypes
  <2> QED
    BY <1>5, <1>a, <1>b, <1>c, <1>d, <2>1 DEF GetPermutation
<1>6. ASSUME NEW request \in ClientRequests, Admit(request) PROVE TypeOK'
  <2>1. CurrentPairs \in Tables /\ PairsIn(request.mode, request.config) \in Tables
    BY PairsTyped DEF CurrentPairs, CoreTypes
  <2>2. BackendTypes' /\ RequestTypes'
    BY <1>6, <2>1, PrepareTyped DEF Admit, BackendTypes
  <2>3. CoreTypes'
    BY <1>6 DEF Admit, Prepare, CoreTypes
  <2> QED
    BY <1>6, <1>d, <2>2, <2>3 DEF Admit
<1>7. FindStale \/ Escape => TypeOK'
  <2>1. FindStale \/ Escape => CoreTypes'
    BY DEF FindStale, Escape, history, CoreTypes
  <2> QED
    BY <1>a, <1>c, <1>d, <2>1 DEF FindStale, Escape
<1>8. ASSUME NEW c \in Clients, NEW r \in Requests, Edit(c, r) PROVE TypeOK'
  <2>1. Target[r][connections] \in Configs
    BY <1>8, ConfigAssumption DEF CoreTypes, Edit
  <2>2. [kind |-> "edit", config |-> Target[r][connections], mode |-> mode, client |-> c]
          \in ClientRequests
    BY <2>1 DEF CoreTypes
  <2> QED
    BY <1>6, <1>7, <1>8, <2>2 DEF Edit
<1>9. ASSUME NEW c \in Clients, NEW m \in {"ocs", "debug"}, SetMode(c, m) PROVE TypeOK'
  <2>1. [kind |-> "mode", config |-> connections, mode |-> m, client |-> c] \in ClientRequests
    BY DEF CoreTypes
  <2> QED
    BY <1>6, <1>7, <1>9, <2>1 DEF SetMode
<1>10. ASSUME NEW c \in Clients, Recover(c) PROVE TypeOK'
  <2>1. [kind |-> "recover", config |-> connections, mode |-> mode, client |-> c]
          \in ClientRequests
    BY DEF CoreTypes
  <2>2. CurrentPairs \in Tables /\ table \in Tables
    BY PairsTyped DEF CurrentPairs, CoreTypes, BackendTypes, Txn!AtomicTypeOK
  <2>3. bcache' \in {"READY", "UNKNOWN"}
    BY <1>10 DEF Recover, BackendCaches, BackendTypes
  <2>4. ASSUME Prepare([kind |-> "recover", config |-> connections, mode |-> mode,
                        client |-> c], table, CurrentPairs)
        PROVE  BackendTypes' /\ RequestTypes'
    BY <2>1, <2>2, <2>3, <2>4, PrepareTyped DEF BackendTypes
  <2>5. ASSUME UNCHANGED <<deviceVars, pending>> PROVE BackendTypes' /\ RequestTypes'
    BY <1>c, <2>3, <2>5 DEF deviceVars, BackendTypes, Txn!AtomicTypeOK
  <2>6. BackendTypes' /\ RequestTypes'
    BY <1>10, <2>4, <2>5 DEF Recover
  <2>7. CoreTypes'
    BY <1>10 DEF Recover, RecoverFailed, Prepare, history, CoreTypes
  <2> QED
    BY <1>10, <1>d, <2>6, <2>7 DEF Recover
<1>11. CASE Tick
  <2>1. LeaseTypes'
    BY <1>11, BoundAssumption DEF Tick, LeaseTypes
  <2> QED
    BY <1>11, <1>a, <1>b, <1>c, <2>1 DEF Tick
<1>26. CASE Program
  <2>1. BackendTypes'
    BY <1>26 DEF Program, Txn!Begin, Txn!Verdicts, BackendTypes, Txn!AtomicTypeOK
  <2> QED
    BY <1>26, <1>b, <1>c, <1>d, <2>1 DEF Program
<1>12. CASE Programmed
  <2>1. BackendTypes'
    BY <1>12 DEF Programmed, Txn!Commit, Txn!Abort, Txn!Fail, Txn!Finish, Txn!Verdicts,
                 BackendCaches, BackendTypes, Txn!AtomicTypeOK
  <2>2. CoreTypes'
    BY <1>12 DEF Programmed, stateVars, CoreTypes
  <2> QED
    BY <1>12, <1>c, <1>d, <2>1, <2>2 DEF Programmed
<1>13. ASSUME NEW t \in ForeignTables, Interfere(t) PROVE TypeOK'
  <2>1. BackendTypes'
    BY <1>13 DEF Interfere, Txn!Interfere, BackendTypes, Txn!AtomicTypeOK
  <2>2. CoreTypes'
    BY <1>13 DEF Interfere, stateVars, CoreTypes
  <2> QED
    BY <1>13, <1>c, <1>d, <2>1, <2>2 DEF Interfere
<1>14. CASE Committed
  <2>1. BackendTypes' /\ RequestTypes'
    BY <1>14, ReturnTyped DEF Committed, Reply, BackendTypes
  <2>2. pending.client \in Clients /\ pending.config \in Configs /\ pending.mode \in {"ocs", "debug"}
    BY <1>14 DEF Committed, RequestTypes
  <2>3. revision' \in 0..MaxRevision
    BY <1>14, BoundAssumption DEF Committed, CoreTypes, InFlight
  <2>6. cache' \in {"READY", "DRIFTED", "UNKNOWN"}
    BY <1>14, CapturedTyped DEF Committed, BackendTypes, CoreTypes
  <2>4. CoreTypes'
    BY <1>14, <2>2, <2>3, <2>6 DEF Committed, Reply, CoreTypes
  <2>5. view' \in [Clients -> Snapshots]
    BY <1>14, <2>2, <2>3 DEF Committed, Snapshots
  <2> QED
    BY <1>14, <1>d, <2>1, <2>4, <2>5 DEF Committed, Reply
<1>15. CASE Aborted
  <2>1. BackendTypes' /\ RequestTypes'
    BY <1>15, ReturnTyped DEF Aborted, Reply, BackendTypes
  <2>3. cache' \in {"READY", "DRIFTED", "UNKNOWN"}
    BY <1>15, CapturedTyped DEF Aborted, BackendTypes, CoreTypes
  <2>2. CoreTypes'
    BY <1>15, <2>3 DEF Aborted, Reply, CoreTypes
  <2> QED
    BY <1>15, <1>d, <2>1, <2>2 DEF Aborted, Reply
<1>16. CASE Recovered
  <2>1. BackendTypes' /\ RequestTypes'
    BY <1>16, ReturnTyped DEF Recovered, BackendTypes
  <2>2. revision' \in 0..MaxRevision
    BY <1>16, BoundAssumption DEF Recovered, CoreTypes, InFlight
  <2>4. cache' \in {"READY", "DRIFTED", "UNKNOWN"}
    BY <1>16, CapturedTyped DEF Recovered, BackendTypes, CoreTypes
  <2>3. CoreTypes'
    BY <1>16, <2>2, <2>4 DEF Recovered, CoreTypes
  <2> QED
    BY <1>16, <1>d, <2>1, <2>3 DEF Recovered
<1>17. CASE NotRecovered
  <2>1. BackendTypes' /\ RequestTypes'
    BY <1>17, ReturnTyped DEF NotRecovered, Reply, BackendTypes
  <2>2. CoreTypes'
    BY <1>17 DEF NotRecovered, RecoverFailed, Reply, CoreTypes
  <2> QED
    BY <1>17, <1>d, <2>1, <2>2 DEF NotRecovered, Reply
<1>18. CASE Reconcile \/ ReconcileFault
  <2>1. CoreTypes'
    BY <1>18 DEF Reconcile, ReconcileFault, history, CoreTypes
  <2>2. BackendTypes'
    BY <1>18, <1>a DEF Reconcile, ReconcileFault, BackendCaches, deviceVars, BackendTypes,
                       Txn!AtomicTypeOK
  <2> QED
    BY <1>18, <1>c, <1>d, <2>1, <2>2 DEF Reconcile, ReconcileFault
<1>19. Fresh => /\ connections' \in Configs /\ mode' \in {"ocs", "debug"}
                /\ revision' \in 0..MaxRevision /\ driftError' \in BOOLEAN
                /\ bcache' \in {"READY", "UNKNOWN"} /\ unseen' \in BOOLEAN
  <2>1. Fresh => revision' \in 0..MaxRevision
    BY BoundAssumption DEF Fresh
  <2>2. Fresh => bcache' \in {"READY", "UNKNOWN"}
    BY DEF Fresh, BackendCaches, BackendTypes
  <2> QED
    BY <2>1, <2>2, ConfigAssumption DEF Fresh
<1>20. CASE StartMatch \/ StartMismatch
  <2>1. cache' \in {"READY", "DRIFTED", "UNKNOWN"}
    BY <1>19, <1>20, CapturedTyped DEF StartMatch, StartMismatch
  <2>2. CoreTypes'
    BY <1>19, <1>20, <2>1 DEF StartMatch, StartMismatch, CoreTypes
  <2>3. BackendTypes'
    BY <1>19, <1>20 DEF StartMatch, StartMismatch, deviceVars, BackendTypes, Txn!AtomicTypeOK
  <2> QED
    BY <1>20, <1>c, <1>d, <2>2, <2>3 DEF StartMatch, StartMismatch
<1>21. CASE StartReapply
  <2>1. PairsOf[InitialConfig] \in Tables /\ table \in Tables
    BY ConfigAssumption DEF BackendTypes, Txn!AtomicTypeOK
  <2>2. BackendTypes'
    BY <1>19, <1>21, <2>1 DEF StartReapply, Prepare, BackendTypes, Txn!AtomicTypeOK
  <2>3. RequestTypes'
    BY <1>21 DEF StartReapply, Prepare, RequestTypes, Kinds
  <2>4. CoreTypes'
    BY <1>19, <1>21 DEF StartReapply, Prepare, CoreTypes
  <2> QED
    BY <1>21, <1>d, <2>2, <2>3, <2>4 DEF StartReapply
<1>22. CASE Started
  <2>1. BackendTypes' /\ RequestTypes'
    BY <1>22, ReturnTyped DEF Started, Reply, BackendTypes
  <2>3. cache' \in {"READY", "DRIFTED", "UNKNOWN"}
    BY <1>22, CapturedTyped DEF Started, BackendTypes, CoreTypes
  <2>2. CoreTypes'
    BY <1>22, <2>3 DEF Started, Reply, CoreTypes
  <2> QED
    BY <1>22, <1>d, <2>1, <2>2 DEF Started, Reply
<1>23. CASE Crash
  <2>1. table' \in Tables
    BY <1>23 DEF Crash, BackendTypes, Txn!AtomicTypeOK
  <2>2. BackendTypes' /\ RequestTypes'
    BY <1>23, <2>1, ReplyTyped DEF Crash
  <2>3. CoreTypes'
    BY <1>23 DEF Crash, stateVars, CoreTypes
  <2>4. LeaseTypes'
    BY <1>23, BoundAssumption DEF Crash, LeaseTypes
  <2>5. view' \in [Clients -> Snapshots]
    BY <1>23 DEF Crash, Snapshots
  <2> QED
    BY <2>2, <2>3, <2>4, <2>5
<1>24. CASE UNCHANGED vars
  BY <1>24, <1>a, <1>b, <1>c, <1>d DEF vars
<1> QED
  BY <1>1, <1>2, <1>3, <1>4, <1>5, <1>8, <1>9, <1>10, <1>11, <1>12, <1>13, <1>14, <1>15,
     <1>16, <1>17, <1>18, <1>20, <1>21, <1>22, <1>23, <1>24, <1>26
     DEF Next, ClientStep, Handle

----------------------------------------------------------------------------------
(* The steps, seen from the backend *)

\* A change of control: nothing but the lease, and never under the lock.
LeaseStep ==
    /\ UNCHANGED <<txnVars, up, stateVars, pending, view, history>>
    /\ pending.kind = "none" \/ UNCHANGED <<lease, token>>

\* A client reads: nothing but what it has seen.
ReadStep == \E c \in Clients : ReadSnapshot(c) \/ GetPermutation(c)

\* A write passes its preconditions.
Write(request) ==
    /\ request.kind \in {"edit", "mode"}
    /\ Writable(request.client)
    /\ Admit(request)

\* A write passes its preconditions and does not come so far.
Stopped == \E c \in Clients : Writable(c) /\ (FindStale \/ Escape)

\* Every step of the agent is one of these.
LEMMA Steps ==
    ASSUME TypeOK, [Next]_vars
    PROVE  \/ UNCHANGED vars
           \/ LeaseStep
           \/ ReadStep
           \/ \E request \in ClientRequests : Write(request)
           \/ Stopped
           \/ \E c \in Clients : Recover(c)
           \/ Program
           \/ Programmed
           \/ \E t \in ForeignTables : Interfere(t)
           \/ Committed \/ Aborted \/ Recovered \/ NotRecovered \/ Started
           \/ Reconcile \/ ReconcileFault
           \/ StartMatch \/ StartMismatch \/ StartReapply
           \/ Crash
<1>1. ASSUME NEW c \in Clients, Acquire(c) \/ Renew(c) \/ Release(c) PROVE LeaseStep
  BY <1>1 DEF Acquire, Renew, Release, Unlocked, LeaseStep
<1>2. Tick => LeaseStep
  BY DEF Tick, LeaseStep
<1>3. ASSUME NEW c \in Clients, NEW r \in Requests, Edit(c, r)
      PROVE  Stopped \/ \E request \in ClientRequests : Write(request)
  <2>1. Target[r][connections] \in Configs /\ mode \in {"ocs", "debug"}
    BY <1>3, ConfigAssumption DEF TypeOK, CoreTypes, Edit
  <2>2. [kind |-> "edit", config |-> Target[r][connections], mode |-> mode, client |-> c]
          \in ClientRequests
    BY <2>1 DEF ClientRequests
  <2> QED
    BY <1>3, <2>2 DEF Edit, Write, Stopped
<1>4. ASSUME NEW c \in Clients, NEW m \in {"ocs", "debug"}, SetMode(c, m)
      PROVE  Stopped \/ \E request \in ClientRequests : Write(request)
  <2>1. [kind |-> "mode", config |-> connections, mode |-> m, client |-> c] \in ClientRequests
    BY DEF TypeOK, CoreTypes, ClientRequests
  <2> QED
    BY <1>4, <2>1 DEF SetMode, Write, Stopped
<1> QED
  BY <1>1, <1>2, <1>3, <1>4 DEF Next, ClientStep, Handle, ReadStep

----------------------------------------------------------------------------------
(* The lock and the requests that hold it *)

\* No handler leaves the lock behind, or takes it from another.
LEMMA LockStep == TypeOK /\ LockHeld /\ InFlight /\ [Next]_vars => LockHeld'
<1> SUFFICES ASSUME TypeOK, LockHeld, InFlight, [Next]_vars PROVE LockHeld'
  OBVIOUS
<1> USE DEF LockHeld
<1>1. CASE UNCHANGED <<phase, verdict, pending, up>>
  BY <1>1
<1>2. UNCHANGED vars \/ LeaseStep \/ ReadStep \/ Stopped \/ Reconcile \/ ReconcileFault
        \/ (\E t \in ForeignTables : Interfere(t))
        => UNCHANGED <<phase, verdict, pending, up>>
  BY DEF vars, txnVars, deviceVars, LeaseStep, ReadStep, ReadSnapshot, GetPermutation, Stopped,
         FindStale, Escape, Reconcile, ReconcileFault, Interfere, Txn!Interfere
<1>3. ASSUME NEW request \in ClientRequests, Write(request) PROVE LockHeld'
  BY <1>3 DEF Write, Writable, Unlocked, Admit, Prepare, ClientRequests
<1>4. ASSUME NEW c \in Clients, Recover(c) PROVE LockHeld'
  BY <1>4 DEF Recover, Unlocked, RecoverFailed, Prepare, deviceVars
<1>10. CASE Program
  BY <1>10 DEF Program, Txn!Begin
<1>5. CASE Programmed
  BY <1>5 DEF Programmed, Txn!Commit, Txn!Abort, Txn!Fail, Txn!Finish
<1>6. CASE Committed \/ Aborted \/ Recovered \/ NotRecovered \/ Started
  <2>1. phase' = "idle" /\ verdict' = "none" /\ pending' = Idle
    BY <1>6 DEF Committed, Aborted, Recovered, NotRecovered, Started, Reply, Txn!Return
  <2> QED
    BY <2>1 DEF Idle
<1>7. CASE StartMatch \/ StartMismatch
  BY <1>7 DEF StartMatch, StartMismatch, Fresh, deviceVars
<1>8. CASE StartReapply
  BY <1>8 DEF StartReapply, Fresh, Prepare
<1>9. CASE Crash
  BY <1>9 DEF Crash, Idle
<1> QED
  BY Steps, <1>1, <1>2, <1>3, <1>4, <1>5, <1>6, <1>7, <1>8, <1>9, <1>10

\* What a request has checked stays so until it answers.
LEMMA FlightStep == TypeOK /\ LockHeld /\ InFlight /\ [Next]_vars => InFlight'
<1> SUFFICES ASSUME TypeOK, LockHeld, InFlight, [Next]_vars PROVE InFlight'
  OBVIOUS
<1> USE DEF InFlight
<1>1. CASE UNCHANGED <<pending, revision, token, lease, gate, cache, view, job, mode,
                       connections>>
  BY <1>1 DEF CurrentPairs, PairsIn
<1>2. UNCHANGED vars \/ Program \/ Programmed \/ (\E t \in ForeignTables : Interfere(t))
        => UNCHANGED <<pending, revision, token, lease, gate, cache, view, job, mode,
                       connections>>
  BY DEF vars, txnVars, deviceVars, stateVars, leaseVars, Program, Programmed, Txn!Commit, Txn!Abort, Txn!Fail,
         Txn!Finish, Interfere, Txn!Interfere
<1>3. CASE pending'.kind = "none"
  BY <1>3
<1>4. ASSUME pending.kind = "none", UNCHANGED pending PROVE InFlight'
  BY <1>3, <1>4
<1>5. ReadStep \/ Stopped \/ Reconcile \/ ReconcileFault \/ StartMatch \/ StartMismatch
        => pending.kind = "none" /\ UNCHANGED pending
  BY DEF ReadStep, ReadSnapshot, GetPermutation, Stopped, Writable, FindStale, Escape,
         Reconcile, ReconcileFault, StartMatch, StartMismatch, Fresh, Unlocked
<1>6. CASE LeaseStep
  <2>1. CASE pending.kind = "none"
    BY <1>4, <1>6, <2>1 DEF LeaseStep
  <2>2. CASE UNCHANGED <<lease, token>>
    BY <1>1, <1>6, <2>2 DEF LeaseStep, txnVars, deviceVars, stateVars
  <2> QED
    BY <1>6, <2>1, <2>2 DEF LeaseStep
<1>7. ASSUME NEW request \in ClientRequests, Write(request) PROVE InFlight'
  <2>1. pending' = request /\ request.kind \in {"edit", "mode"}
    BY <1>7 DEF Write, Admit, Prepare
  <2>2. revision' < MaxRevision /\ token'[request.client] = lease'
    BY <1>7 DEF Write, Writable, Live, Admit, leaseVars
  <2>3. ~gate' /\ cache' = "READY" /\ view'[request.client].revision = revision'
    BY <1>7 DEF Write, Writable, Admit
  <2>4. job' = [previous |-> CurrentPairs', target |-> PairsIn(request.mode, request.config)]
    BY <1>7 DEF Write, Admit, Prepare, CurrentPairs, PairsIn
  <2> QED
    BY <2>1, <2>2, <2>3, <2>4 DEF PairsIn
<1>8. ASSUME NEW c \in Clients, Recover(c) PROVE InFlight'
  <2>1. CASE UNCHANGED pending
    BY <1>4, <1>8, <2>1 DEF Recover, Unlocked
  <2>2. CASE pending' = [kind |-> "recover", config |-> connections, mode |-> mode, client |-> c]
    BY <1>8, <2>2 DEF Recover, Live, leaseVars
  <2> QED
    BY <1>8, <2>1, <2>2 DEF Recover, Prepare
<1>9. CASE Committed \/ Aborted \/ Recovered \/ NotRecovered \/ Started \/ Crash
  <2>1. pending' = Idle
    BY <1>9 DEF Committed, Aborted, Recovered, NotRecovered, Started, Reply, Crash
  <2> QED
    BY <1>3, <2>1 DEF Idle
<1>10. CASE StartReapply
  <2>1. pending'.kind = "startup"
    BY <1>10 DEF StartReapply, Prepare
  <2>2. ~gate' /\ mode' = "ocs" /\ connections' = InitialConfig
    BY <1>10 DEF StartReapply, Fresh
  <2>3. job'.target = CurrentPairs'
    BY <1>10, <2>2 DEF StartReapply, Prepare, CurrentPairs, PairsIn
  <2> QED
    BY <2>1, <2>2, <2>3
<1> QED
  BY Steps, <1>1, <1>2, <1>4, <1>5, <1>6, <1>7, <1>8, <1>9, <1>10

----------------------------------------------------------------------------------
(* The device *)

\* What the backend knows of the device survives every step: it is lost only
\* when somebody else writes, and then unseen says so.
LEMMA DeviceStep ==
    TypeOK /\ LockHeld /\ InFlight /\ DeviceKnown /\ Honest /\ [Next]_vars => DeviceKnown'
<1> SUFFICES ASSUME TypeOK, LockHeld, InFlight, DeviceKnown, Honest, [Next]_vars
             PROVE  DeviceKnown'
  OBVIOUS
<1> USE DEF DeviceKnown
<1>1. CASE UNCHANGED <<txnVars, pending>> /\ (unseen' \/ UNCHANGED unseen)
  BY <1>1 DEF txnVars, deviceVars, Verify
<1>2. CASE phase' = "idle" /\ verdict' = "none" /\ pending'.kind = "none"
  BY <1>2
<1>3. UNCHANGED vars \/ LeaseStep \/ ReadStep \/ Stopped \/ ReconcileFault
        => UNCHANGED <<txnVars, pending, unseen>>
  BY DEF vars, history, LeaseStep, ReadStep, ReadSnapshot, GetPermutation, Stopped, FindStale,
         Escape, ReconcileFault
<1>4. Reconcile \/ StartMatch \/ StartMismatch
        => phase' = "idle" /\ verdict' = "none" /\ pending'.kind = "none"
  BY DEF Reconcile, StartMatch, StartMismatch, Fresh, Unlocked, LockHeld, TypeOK, BackendTypes,
         Txn!AtomicTypeOK, deviceVars
<1>5. ASSUME Committed \/ Aborted \/ Recovered \/ NotRecovered \/ Started \/ Crash
      PROVE  phase' = "idle" /\ verdict' = "none" /\ pending'.kind = "none"
  <2>1. phase' = "idle" /\ verdict' = "none" /\ pending' = Idle
    BY <1>5 DEF Committed, Aborted, Recovered, NotRecovered, Started, Reply, Txn!Return, Crash
  <2> QED
    BY <2>1 DEF Idle
<1>6. ASSUME NEW request \in ClientRequests, Write(request) PROVE DeviceKnown'
  <2>1. phase' = "idle" /\ verdict' = "none" /\ UNCHANGED table
    BY <1>6 DEF Write, Writable, Unlocked, LockHeld, TypeOK, BackendTypes, Txn!AtomicTypeOK,
                Admit, Prepare
  <2>2. job'.previous = CurrentPairs
    BY <1>6 DEF Write, Admit, Prepare
  <2>3. ~unseen' /\ ~Verify => table = CurrentPairs
    BY <1>6 DEF Write, Writable, Admit, PreRead, Verify, Honest, CacheTruth
  <2> QED
    BY <2>1, <2>2, <2>3 DEF Verify
<1>7. ASSUME NEW c \in Clients, Recover(c) PROVE DeviceKnown'
  <2>1. phase' = "idle" /\ verdict' = "none" /\ UNCHANGED table
    BY <1>7 DEF Recover, Unlocked, LockHeld, TypeOK, BackendTypes, Txn!AtomicTypeOK, Prepare,
                deviceVars
  <2>2. CASE UNCHANGED pending
    BY <1>7, <2>1, <2>2 DEF Recover, Unlocked
  <2>3. CASE job' = [previous |-> table, target |-> CurrentPairs]
    BY <2>1, <2>3
  <2> QED
    BY <1>7, <2>2, <2>3 DEF Recover, Prepare
<1>8. CASE StartReapply
  BY <1>8 DEF StartReapply, Fresh, Prepare, LockHeld, TypeOK, BackendTypes, Txn!AtomicTypeOK
<1>11. CASE Program
  <2>1. phase = "idle" /\ phase' = "busy" /\ verdict' = "none" /\ ~disturbed' /\ pending.kind # "none"
    BY <1>11 DEF Program, Txn!Begin
  <2>2. UNCHANGED <<table, job, unseen>>
    BY <1>11 DEF Program, Txn!Begin, history
  <2> QED
    BY <2>1, <2>2 DEF Verify
<1>9. CASE Programmed
  <2>1. CASE Txn!Commit /\ unseen' = (unseen /\ ~Verify) /\ BackendCaches("READY")
    <3>1. ~unseen' => table' = job'.target
      BY <2>1 DEF Txn!Commit, Txn!Finish, Txn!Trustworthy
    <3> QED
      BY <2>1, <3>1 DEF Txn!Commit, Txn!Finish
  <2>2. CASE Txn!Abort /\ BackendCaches("READY")
    BY <2>2 DEF Txn!Abort, Txn!Finish
  <2>3. CASE Txn!Fail /\ BackendCaches("UNKNOWN")
    BY <2>3 DEF Txn!Fail, Txn!Finish, BackendCaches
  <2> QED
    BY <1>9, <2>1, <2>2, <2>3 DEF Programmed
<1>10. ASSUME NEW t \in ForeignTables, Interfere(t) PROVE DeviceKnown'
  BY <1>10 DEF Interfere, Txn!Interfere
<1> QED
  BY Steps, <1>1, <1>2, <1>3, <1>4, <1>5, <1>6, <1>7, <1>8, <1>9, <1>10, <1>11

----------------------------------------------------------------------------------
(* Cache, status and gate *)

\* A status or a cache that says the device is right is right, after every step.
LEMMA HonestStep ==
    TypeOK /\ LockHeld /\ InFlight /\ DeviceKnown /\ Honest /\ [Next]_vars => Honest'
<1> SUFFICES ASSUME TypeOK, LockHeld, InFlight, DeviceKnown, Honest, [Next]_vars
             PROVE  Honest'
  OBVIOUS
<1> USE DEF Honest, StatusTruth, CacheTruth
<1>1. CASE UNCHANGED <<table, pending, up, stateVars, unseen>>
  BY <1>1 DEF stateVars, Unlocked, CurrentPairs, PairsIn
<1>2. UNCHANGED vars \/ LeaseStep \/ ReadStep
        => UNCHANGED <<table, pending, up, stateVars, unseen>>
  BY DEF vars, txnVars, deviceVars, history, LeaseStep, ReadStep, ReadSnapshot, GetPermutation
<1>3. CASE pending'.kind # "none" \/ ~up' \/ unseen'
  BY <1>3 DEF Unlocked
<1>4. Program \/ Programmed \/ StartReapply \/ Crash \/ (\E t \in ForeignTables : Interfere(t))
        \/ (\E request \in ClientRequests : Write(request))
        => pending'.kind # "none" \/ ~up' \/ unseen'
  BY DEF Program, Programmed, Txn!Commit, Txn!Abort, Txn!Fail, Txn!Finish, LockHeld,
         StartReapply, Crash, Interfere, Write, Admit, Prepare
<1>5. CASE Stopped \/ ReconcileFault
  BY <1>5 DEF Stopped, Writable, FindStale, Escape, ReconcileFault, txnVars, deviceVars, history,
              Unlocked, CurrentPairs, PairsIn
<1>6. ASSUME NEW c \in Clients, Recover(c) PROVE Honest'
  BY <1>6, <1>3 DEF Recover, RecoverFailed, Prepare
<1>7. CASE Committed
  <2>1. (table' = job.target /\ CurrentPairs' = job.target) \/ unseen'
    BY <1>7 DEF Committed, Reply, Txn!Return, DeviceKnown, InFlight, CurrentPairs, PairsIn
  <2> QED
    BY <2>1
<1>8. CASE Aborted
  <2>1. CurrentPairs' = CurrentPairs /\ UNCHANGED <<table, unseen, bcache>>
    BY <1>8 DEF Aborted, Reply, Txn!Return, CurrentPairs, PairsIn
  <2>2. verdict = "restored" /\ ~unseen => table = CurrentPairs
    BY <1>8 DEF Aborted, DeviceKnown, InFlight
  <2>3. status' = "ready" => verdict = "restored"
    BY <1>8 DEF Aborted
  <2>4. Backend = "bfrt" /\ cache' = "READY" => verdict = "restored"
    BY <1>8 DEF Aborted, Captured, DeviceKnown
  <2> QED
    BY <2>1, <2>2, <2>3, <2>4
<1>9. CASE Recovered
  BY <1>9 DEF Recovered, Txn!Return, CurrentPairs, PairsIn
<1>10. CASE NotRecovered
  BY <1>10 DEF NotRecovered, RecoverFailed
<1>11. CASE Started
  <2>1. up' => verdict = "ok"
    BY <1>11 DEF Started
  <2>2. CurrentPairs' = CurrentPairs /\ UNCHANGED <<table, unseen>>
    BY <1>11 DEF Started, Reply, Txn!Return, CurrentPairs, PairsIn
  <2>3. verdict = "ok" /\ ~unseen => table = CurrentPairs
    BY <1>11 DEF Started, DeviceKnown, InFlight
  <2> QED
    BY <2>1, <2>2, <2>3 DEF Unlocked
<1>12. CASE Reconcile
  BY <1>12 DEF Reconcile, deviceVars, CurrentPairs, PairsIn
<1>13. CASE StartMatch
  BY <1>13 DEF StartMatch, Fresh, deviceVars, CurrentPairs, PairsIn
<1>14. CASE StartMismatch
  BY <1>14 DEF StartMismatch, Captured
<1> QED
  BY Steps, <1>1, <1>2, <1>3, <1>4, <1>5, <1>6, <1>7, <1>8, <1>9, <1>10, <1>11, <1>12,
     <1>13, <1>14

\* What the pre-read has found stays true as long as nobody else writes.
LEMMA SyncStep == TypeOK /\ LockHeld /\ InSync /\ [Next]_vars => InSync'
<1> SUFFICES ASSUME TypeOK, LockHeld, InSync, [Next]_vars, PreRead,
                    pending'.kind \in {"edit", "mode"}, phase' = "idle", ~overtaken'
             PROVE  table' = CurrentPairs'
  BY DEF InSync, PreRead
<1> USE DEF InSync
<1>1. CASE UNCHANGED <<table, phase, pending, overtaken, mode, connections>>
  BY <1>1 DEF CurrentPairs, PairsIn
<1>2. UNCHANGED vars \/ LeaseStep \/ ReadStep \/ Stopped \/ Reconcile \/ ReconcileFault
        => UNCHANGED <<table, phase, pending, overtaken, mode, connections>>
  BY DEF vars, txnVars, deviceVars, stateVars, history, LeaseStep, ReadStep, ReadSnapshot,
         GetPermutation, Stopped, FindStale, Escape, Reconcile, ReconcileFault
<1>3. ASSUME NEW request \in ClientRequests, Write(request) PROVE table' = CurrentPairs'
  BY <1>3 DEF Write, Admit, Prepare, Stale, CurrentPairs, PairsIn
<1>4. ~Program /\ ~Programmed
  BY DEF Program, Programmed, Txn!Begin, Txn!Commit, Txn!Abort, Txn!Fail, Txn!Finish
<1>5. ASSUME NEW c \in Clients, Recover(c) PROVE FALSE
  BY <1>5 DEF Recover, Unlocked, Prepare
<1>6. ASSUME NEW t \in ForeignTables, Interfere(t) PROVE FALSE
  BY <1>6 DEF Interfere
<1>7. ASSUME Committed \/ Aborted \/ Recovered \/ NotRecovered \/ Started \/ Crash PROVE FALSE
  <2>1. pending' = Idle
    BY <1>7 DEF Committed, Aborted, Recovered, NotRecovered, Started, Reply, Crash
  <2> QED
    BY <2>1 DEF Idle
<1>8. ASSUME StartMatch \/ StartMismatch PROVE FALSE
  BY <1>8 DEF StartMatch, StartMismatch, Fresh
<1>9. ASSUME StartReapply PROVE FALSE
  <2>1. pending'.kind = "startup"
    BY <1>9 DEF StartReapply, Prepare
  <2> QED
    BY <2>1
<1> QED
  BY Steps, <1>1, <1>2, <1>3, <1>4, <1>5, <1>6, <1>7, <1>8, <1>9

\* Nothing but a recovery gets an agent past a startup mismatch.
LEMMA GateStep == TypeOK /\ LockHeld /\ InFlight /\ StartupGate /\ [Next]_vars => StartupGate'
<1> SUFFICES ASSUME TypeOK, LockHeld, InFlight, StartupGate, [Next]_vars, up', gate'
             PROVE  cache' # "READY" /\ status' # "ready" /\ pending'.kind \in {"none", "recover"}
  BY DEF StartupGate
<1> USE DEF StartupGate
<1>1. CASE UNCHANGED <<up, stateVars, pending>>
  BY <1>1 DEF stateVars
<1>2. UNCHANGED vars \/ LeaseStep \/ ReadStep \/ Program \/ Programmed
        \/ (\E t \in ForeignTables : Interfere(t)) => UNCHANGED <<up, stateVars, pending>>
  BY DEF vars, LeaseStep, ReadStep, ReadSnapshot, GetPermutation, Program, Programmed, Interfere
<1>3. Crash \/ StartReapply \/ Recovered \/ StartMatch => ~up' \/ ~gate'
  BY DEF Crash, StartReapply, Recovered, StartMatch
<1>4. Stopped \/ (\E request \in ClientRequests : Write(request)) => ~gate'
  BY DEF Stopped, Write, Writable, FindStale, Escape, Admit
<1>5. Committed \/ Aborted \/ Started => ~gate'
  BY DEF Committed, Aborted, Started, InFlight
<1>6. ASSUME NEW c \in Clients, Recover(c)
      PROVE  cache' # "READY" /\ status' # "ready" /\ pending'.kind \in {"none", "recover"}
  <2>1. up /\ gate
    BY <1>6 DEF Recover
  <2> QED
    BY <1>6, <2>1 DEF Recover, RecoverFailed, Prepare
<1>7. CASE NotRecovered
  BY <1>7 DEF NotRecovered, RecoverFailed, Reply, Idle
<1>8. CASE Reconcile \/ ReconcileFault
  <2>1. up /\ gate
    BY <1>8 DEF Reconcile, ReconcileFault
  <2> QED
    BY <1>8, <2>1 DEF Reconcile, ReconcileFault
<1>9. CASE StartMismatch
  BY <1>9 DEF StartMismatch, Fresh, LockHeld, Captured
<1> QED
  BY Steps, <1>1, <1>2, <1>3, <1>4, <1>5, <1>6, <1>7, <1>8, <1>9

\* A revision names one state of one process.
LEMMA ViewStep == TypeOK /\ LockHeld /\ InFlight /\ Views /\ [Next]_vars => Views'
<1> SUFFICES ASSUME TypeOK, LockHeld, InFlight, Views, [Next]_vars PROVE Views'
  OBVIOUS
<1> USE DEF Views
<1>0. revision \in Nat /\ \A c \in Clients : view[c].revision \in Nat
  BY BoundAssumption DEF TypeOK, CoreTypes, Snapshots
<1>1. CASE UNCHANGED <<connections, mode, revision, view, up>>
  BY <1>1
<1>2. CASE UNCHANGED view /\ ~up
  BY <1>2
<1>3. \/ UNCHANGED vars \/ LeaseStep \/ Stopped \/ (\E c \in Clients : Recover(c))
      \/ Program \/ Programmed \/ (\E t \in ForeignTables : Interfere(t))
      \/ (\E request \in ClientRequests : Write(request))
      \/ Aborted \/ NotRecovered \/ Reconcile \/ ReconcileFault
      => UNCHANGED <<connections, mode, revision, view, up>>
  BY DEF vars, stateVars, LeaseStep, Stopped, FindStale, Escape, Recover, Program, Programmed,
         Interfere, Write, Admit, Aborted, NotRecovered, Reconcile, ReconcileFault
<1>4. Started \/ StartMatch \/ StartMismatch \/ StartReapply => UNCHANGED view /\ ~up
  BY DEF Started, StartMatch, StartMismatch, StartReapply, Fresh, LockHeld
<1>5. ASSUME NEW c \in Clients, ReadSnapshot(c) PROVE Views'
  BY <1>0, <1>5 DEF ReadSnapshot, Unlocked, stateVars, TypeOK
<1>6. ASSUME NEW c \in Clients, GetPermutation(c) PROVE Views'
  BY <1>0, <1>6 DEF GetPermutation, Unlocked, stateVars, TypeOK, Snapshots
<1>7. CASE Committed
  BY <1>0, <1>7 DEF Committed, TypeOK, RequestTypes, LockHeld
<1>8. CASE Recovered
  BY <1>0, <1>8 DEF Recovered
<1>9. CASE Crash
  <2>1. \A c \in Clients : view'[c].alive = FALSE
    BY <1>9 DEF Crash, TypeOK, Snapshots
  <2> QED
    BY <2>1
<1> QED
  BY Steps, <1>1, <1>2, <1>3, <1>4, <1>5, <1>6, <1>7, <1>8, <1>9 DEF ReadStep

----------------------------------------------------------------------------------
(* The theorems *)

\* The invariant is inductive, whatever the constants.
THEOREM Invariance == Spec => []Inv
<1>1. Init => Inv
  <2> SUFFICES ASSUME Init PROVE Inv
    OBVIOUS
  <2>1. TypeOK
    BY TypeInit
  <2>2. LockHeld /\ InFlight
    BY DEF Init, Txn!AtomicInit, Idle, LockHeld, InFlight
  <2>3. DeviceKnown /\ Honest /\ InSync /\ StartupGate
    BY DEF Init, Txn!AtomicInit, Idle, DeviceKnown, Honest, StatusTruth, CacheTruth, InSync,
           StartupGate, Unlocked
  <2>4. Views
    BY DEF Init, Views
  <2> QED
    BY <2>1, <2>2, <2>3, <2>4 DEF Inv
<1>2. Inv /\ [Next]_vars => Inv'
  BY TypeStep, LockStep, FlightStep, DeviceStep, HonestStep, SyncStep, GateStep, ViewStep DEF Inv
<1> QED
  BY <1>1, <1>2, PTL DEF Spec

\* Types, whatever the constants: between its steps the agent is in one of the
\* states core.py can be in.
THEOREM TypeCorrect == Spec => []TypeOK
BY Invariance, PTL DEF Inv

\* The runtime status is "ready" only over a device that holds the current
\* connections, unless somebody else has written it since the agent last
\* looked: with both backends and in every consistency mode.
THEOREM StatusIsTrue == Spec => []StatusTruth
<1>1. Inv => StatusTruth
  BY DEF Inv, Honest
<1> QED
  BY Invariance, <1>1, PTL

\* With BFRT the same holds of a READY cache, also in ACK-only mode.  P4AppBackend
\* does not tell the Core that a rollback failed, so there the cache may be
\* READY over a torn table.
THEOREM CacheIsTrue ==
    ASSUME Backend = "bfrt"
    PROVE  Spec => []CacheTruth
<1>1. Inv => CacheTruth
  BY DEF Inv, Honest
<1> QED
  BY Invariance, <1>1, PTL

\* After a startup mismatch under REQUIRE_MATCH the cache is never READY, the
\* status never "ready" and no edit and no mode change reaches the device until
\* a recovery has succeeded.
THEOREM GateHolds == Spec => []StartupGate
<1>1. Inv => StartupGate
  BY DEF Inv
<1> QED
  BY Invariance, <1>1, PTL

\* While a write is on its way to the device nobody else gains control: the
\* token of the writer is still the current one.
THEOREM WriterHolds == Spec => []WriterIsHolder
<1>1. Inv => WriterIsHolder
  BY DEF Inv, InFlight, WriterIsHolder
<1> QED
  BY Invariance, <1>1, PTL

\* A drifted or unknown device is never silently adopted: a cache that was not
\* READY becomes READY only over a table that holds the agent's connections.
THEOREM NothingAdopted == Spec => NoSilentAdoption
<1> DEFINE Adopts == up /\ up' /\ cache # "READY" /\ cache' = "READY"
           Holds == table' = PairsIn(mode', connections')
<1>1. Inv /\ [Next]_vars => (Adopts => Holds)
  <2> SUFFICES ASSUME Inv, [Next]_vars, Adopts PROVE Holds
    OBVIOUS
  <2>1. ~UNCHANGED cache
    OBVIOUS
  <2>2. \/ UNCHANGED vars \/ LeaseStep \/ ReadStep \/ Program \/ Programmed
        \/ (\E t \in ForeignTables : Interfere(t))
        \/ (\E request \in ClientRequests : Write(request)) \/ Crash
        => UNCHANGED cache
    BY DEF vars, stateVars, LeaseStep, ReadStep, ReadSnapshot, GetPermutation, Program,
           Programmed, Interfere, Write, Admit, Crash
  <2>3. Stopped \/ ReconcileFault \/ NotRecovered \/ (\E c \in Clients : Recover(c))
        => UNCHANGED cache \/ cache' # "READY"
    BY DEF Stopped, FindStale, Escape, ReconcileFault, NotRecovered, Recover, RecoverFailed
  <2>4. ~Committed /\ ~Aborted
    BY DEF Inv, InFlight, Committed, Aborted
  <2>5. ~StartMatch /\ ~StartMismatch /\ ~StartReapply
    BY DEF StartMatch, StartMismatch, StartReapply, Fresh
  <2>6. ~Started
    BY DEF Started, Inv, LockHeld, Idle
  <2>7. CASE Recovered
    BY <2>7 DEF Recovered, Txn!Return, CurrentPairs
  <2>8. CASE Reconcile
    BY <2>8 DEF Reconcile, deviceVars, CurrentPairs
  <2> QED
    BY Steps, <2>1, <2>2, <2>3, <2>4, <2>5, <2>6, <2>7, <2>8 DEF Inv
<1>2. Inv /\ [Next]_vars => [Adopts => Holds]_vars
  BY <1>1
<1>3. Spec => [][Adopts => Holds]_vars
  BY Invariance, <1>2, PTL DEF Spec
<1> QED
  BY <1>3 DEF NoSilentAdoption

\* No lost update: a write that commits was decided on the very state it
\* replaces, unless its client uses what it has read from an earlier process.
THEOREM NoLostUpdate == Spec => CommitsFromKnownState
<1> DEFINE Changes == up /\ up' /\ (connections' # connections \/ mode' # mode)
           known == view[pending.client]
           Known == known.alive => known.revision = revision /\ known.config = connections
                                   /\ known.mode = mode
<1>1. Inv /\ [Next]_vars => (Changes => Known)
  <2> SUFFICES ASSUME Inv, [Next]_vars, Changes PROVE Known
    OBVIOUS
  <2>1. CASE Committed
    <3>1. pending.client \in Clients /\ view[pending.client].revision = revision
      BY <2>1 DEF Committed, Inv, TypeOK, RequestTypes, InFlight
    <3> QED
      BY <3>1 DEF Inv, Views
  <2>2. ~StartMatch /\ ~StartMismatch /\ ~StartReapply
    BY DEF StartMatch, StartMismatch, StartReapply, Fresh
  <2>3. \/ UNCHANGED vars \/ LeaseStep \/ ReadStep \/ Stopped \/ Program \/ Programmed
        \/ (\E c \in Clients : Recover(c))
        \/ (\E t \in ForeignTables : Interfere(t))
        \/ (\E request \in ClientRequests : Write(request))
        => UNCHANGED <<connections, mode>>
    BY DEF vars, stateVars, LeaseStep, ReadStep, ReadSnapshot, GetPermutation, Stopped,
           FindStale, Escape, Program, Programmed, Recover, Interfere, Write, Admit
  <2>4. Aborted \/ Recovered \/ NotRecovered \/ Started \/ Reconcile \/ ReconcileFault \/ Crash
        => UNCHANGED <<connections, mode>>
    BY DEF Aborted, Recovered, NotRecovered, Started, Reconcile, ReconcileFault, Crash, stateVars
  <2> QED
    BY Steps, <2>1, <2>2, <2>3, <2>4 DEF Inv
<1>2. Inv /\ [Next]_vars => [Changes => Known]_vars
  BY <1>1
<1>3. Spec => [][Changes => Known]_vars
  BY Invariance, <1>2, PTL DEF Spec
<1> QED
  BY <1>3 DEF CommitsFromKnownState

\* Under STRICT_DEVICE a write of the P4Runtime agent reaches a device that does not
\* hold what the agent believes only if another writer came in between its pre-read
\* and its call of apply.  BFRTBackend has a device_state method, so the Core leaves
\* the pre-read to it, and it does none.
THEOREM StrictWritesInSync ==
    ASSUME Backend = "p4app"
    PROVE  Spec => StrictWritesStartInSync
<1> DEFINE Starts == Consistency = "STRICT_DEVICE" /\ phase = "idle" /\ phase' = "busy"
                     /\ pending.kind \in {"edit", "mode"} /\ ~overtaken
<1>1. Inv /\ [Next]_vars => (Starts => table = CurrentPairs)
  BY DEF Inv, InSync, PreRead
<1>2. Inv /\ [Next]_vars => [Starts => table = CurrentPairs]_vars
  BY <1>1
<1>3. Spec => [][Starts => table = CurrentPairs]_vars
  BY Invariance, <1>2, PTL DEF Spec
<1> QED
  BY <1>3 DEF StrictWritesStartInSync
================================================================================
