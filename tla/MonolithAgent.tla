------------------------------ MODULE MonolithAgent ------------------------------
(***************************************************************************)
(* OcsAgent of src/agent/python/ocs_agent/core.py: the Agent Core and its  *)
(* backend in one process (p4app-http, p4app-grpc, tofino-monolith-http).  *)
(* Client handlers, the reconcile thread and startup share one RLock,      *)
(* which a write holds while the backend programs the device.              *)
(*                                                                         *)
(* The backend is AtomicTransaction, which DeviceTransaction implements;   *)
(* the RLock is held exactly while pending # Idle.  Validation of a write  *)
(* and the device read that precedes some of them are one step, the call   *)
(* of backend.apply another, the verdict a third, and what the Core does   *)
(* with it a fourth; other writers, the clock and crashes come in between. *)
(* Rejected requests change nothing and are not actions.                   *)
(***************************************************************************)
EXTENDS Naturals

CONSTANTS
    Clients,        \* users of the northbound APIs
    Configs,        \* connection sets
    InitialConfig,  \* the YAML desired state
    Requests,       \* connection edits clients send
    Target,         \* Target[r][config]: the set an edit builds, or Rejected
    Rejected,
    Tables,         \* contents the device table can have
    PairsOf,        \* PairsOf[config]: the device entries of a connection set
    DebugPairs,     \* the device entries of Debug Mode
    Backend,        \* "p4app" or "bfrt"
    Consistency,    \* "CACHED_ACK", "CACHED_SYNC" or "STRICT_DEVICE"
    StartupPolicy,  \* "REQUIRE_MATCH" or "REAPPLY_DESIRED"
    ForeignTables,  \* what other writers may turn the table into
    LeaseTicks,     \* clock ticks a lease lasts without renewal
    MaxRevision,    \* bound: committed writes per incarnation
    MaxLeases       \* bound: leases granted

ASSUME ConfigAssumption ==
    /\ InitialConfig \in Configs
    /\ PairsOf \in [Configs -> Tables]
    /\ DebugPairs \in Tables
    /\ ForeignTables \subseteq Tables
    /\ Target \in [Requests -> [Configs -> Configs \cup {Rejected}]]
ASSUME ModeAssumption ==
    /\ Backend \in {"p4app", "bfrt"}
    /\ Consistency \in {"CACHED_ACK", "CACHED_SYNC", "STRICT_DEVICE"}
    /\ StartupPolicy \in {"REQUIRE_MATCH", "REAPPLY_DESIRED"}
ASSUME BoundAssumption ==
    LeaseTicks \in Nat \ {0} /\ MaxRevision \in Nat /\ MaxLeases \in Nat

VARIABLES
    table, phase, job, verdict, disturbed,  \* see AtomicTransaction
    bcache,         \* the _cache_status of BFRTBackend, which P4AppBackend has not
    up,             \* the agent serves requests
    connections,    \* _connections
    mode,           \* _mode
    status,         \* _status
    revision,       \* _revision
    cache,          \* _cache_status
    gate,           \* _startup_recovery_required
    driftError,     \* _last_error is 'Device drift detected'
    pending,        \* the request that holds the lock: kind, caller and result
    lease,          \* _lease_token: the number of the lease, 0 for None
    leases,         \* leases granted: a token is random and never comes twice
    leaseAge,       \* ticks since the lease was granted or renewed
    token,          \* token[c]: the last token client c was given, 0 for none
    view,           \* view[c]: the last snapshot client c has read
    unseen,         \* history: somebody wrote the table since it was verified
    overtaken       \* history: somebody wrote it since the lock was taken

deviceVars == <<table, phase, job, verdict, disturbed>>
txnVars == <<deviceVars, bcache>>
stateVars == <<connections, mode, status, revision, cache, gate, driftError>>
leaseVars == <<lease, leases, leaseAge, token>>
history == <<unseen, overtaken>>
vars == <<txnVars, up, stateVars, pending, leaseVars, view, history>>

\* Every consistency mode but CACHED_ACK reads back; p4app always does.
Verify == ~(Backend = "bfrt" /\ Consistency = "CACHED_ACK")

Txn == INSTANCE AtomicTransaction

Kinds == {"none", "startup", "edit", "mode", "recover"}

Idle == [kind |-> "none", config |-> InitialConfig, mode |-> "ocs"]

\* A snapshot, and whether the process it came from still runs.
Snapshots == [revision : 0..MaxRevision, config : Configs,
              mode : {"ocs", "debug"}, alive : BOOLEAN]

BackendTypes ==
    /\ Txn!AtomicTypeOK
    /\ bcache \in {"READY", "UNKNOWN"}

CoreTypes ==
    /\ up \in BOOLEAN
    /\ connections \in Configs
    /\ mode \in {"ocs", "debug"}
    /\ status \in {"updating", "ready", "error"}
    /\ revision \in 0..MaxRevision
    /\ cache \in {"READY", "DRIFTED", "UNKNOWN"}
    /\ gate \in BOOLEAN
    /\ driftError \in BOOLEAN
    /\ unseen \in BOOLEAN
    /\ overtaken \in BOOLEAN

RequestTypes ==
    /\ pending.kind \in Kinds
    /\ pending.kind \in {"edit", "mode", "recover"} =>
        pending \in [kind : Kinds, config : Configs, mode : {"ocs", "debug"},
                     client : Clients]

LeaseTypes ==
    /\ lease \in 0..leases
    /\ leases \in 0..MaxLeases
    /\ leaseAge \in 0..LeaseTicks
    /\ token \in [Clients -> 0..leases]

\* Type invariant.
TypeOK ==
    /\ BackendTypes
    /\ CoreTypes
    /\ RequestTypes
    /\ LeaseTypes
    /\ view \in [Clients -> Snapshots]

\* _current_device_pairs: what the device should hold.
PairsIn(m, config) == IF m = "ocs" THEN PairsOf[config] ELSE DebugPairs
CurrentPairs == PairsIn(mode, connections)

NoJob == [previous |-> PairsOf[InitialConfig], target |-> PairsOf[InitialConfig]]

\* The lock is free and a handler can take it.
Unlocked == up /\ pending.kind = "none"

Init ==
    /\ Txn!AtomicInit
    /\ job = NoJob
    /\ bcache = "UNKNOWN"
    /\ up = FALSE
    /\ connections = InitialConfig
    /\ mode = "ocs"
    /\ status = "updating"
    /\ revision = 0
    /\ cache = "UNKNOWN"
    /\ gate = FALSE
    /\ driftError = FALSE
    /\ pending = Idle
    /\ lease = 0
    /\ leases = 0
    /\ leaseAge = 0
    /\ token = [c \in Clients |-> 0]
    /\ view = [c \in Clients |-> [revision |-> 0, config |-> InitialConfig,
                                  mode |-> "ocs", alive |-> FALSE]]
    /\ unseen = FALSE
    /\ overtaken = FALSE

----------------------------------------------------------------------------------
(* Control lease *)

\* A token is checked against the current one after the expired one is dropped.
Live(c) == token[c] # 0 /\ token[c] = lease /\ leaseAge < LeaseTicks

\* bug: control can be taken while the commit lock is held
AcquireAnytime(c) ==
    /\ up
    /\ lease = 0 \/ leaseAge = LeaseTicks
    /\ leases < MaxLeases
    /\ leases' = leases + 1
    /\ lease' = leases'
    /\ leaseAge' = 0
    /\ token' = [token EXCEPT ![c] = leases']
    /\ UNCHANGED <<txnVars, up, stateVars, pending, view, history>>

Acquire(c) ==
    /\ Unlocked
    /\ lease = 0 \/ leaseAge = LeaseTicks
    /\ leases < MaxLeases
    /\ leases' = leases + 1
    /\ lease' = leases'
    /\ leaseAge' = 0
    /\ token' = [token EXCEPT ![c] = leases']
    /\ UNCHANGED <<txnVars, up, stateVars, pending, view, history>>

Renew(c) ==
    /\ Unlocked
    /\ Live(c)
    /\ leaseAge' = 0
    /\ UNCHANGED <<txnVars, up, stateVars, pending, lease, leases, token, view, history>>

Release(c) ==
    /\ Unlocked
    /\ Live(c)
    /\ lease' = 0
    /\ leaseAge' = 0
    /\ UNCHANGED <<txnVars, up, stateVars, pending, leases, token, view, history>>

\* The clock does not wait for the lock.
Tick ==
    /\ lease # 0
    /\ leaseAge < LeaseTicks
    /\ leaseAge' = leaseAge + 1
    /\ UNCHANGED <<txnVars, up, stateVars, pending, lease, leases, token, view, history>>

----------------------------------------------------------------------------------
(* Reads *)

ReadSnapshot(c) ==
    /\ Unlocked
    /\ view' = [view EXCEPT ![c] = [revision |-> revision, config |-> connections,
                                    mode |-> mode, alive |-> TRUE]]
    /\ UNCHANGED <<txnVars, up, stateVars, pending, leaseVars, history>>

\* bug: the handler reads the pairing first and the revision after it
GetRevisionLast(c) ==
    /\ Unlocked
    /\ mode = "ocs"
    /\ view[c].alive
    /\ view' = [view EXCEPT ![c].revision = revision]
    /\ UNCHANGED <<txnVars, up, stateVars, pending, leaseVars, history>>

\* GET /ocs_mapping takes the lock twice: the pairing may be newer than the
\* revision it is returned with.
GetPermutation(c) ==
    /\ Unlocked
    /\ mode = "ocs"
    /\ view[c].alive
    /\ view' = [view EXCEPT ![c].config = connections]
    /\ UNCHANGED <<txnVars, up, stateVars, pending, leaseVars, history>>

----------------------------------------------------------------------------------
(* The backend and the device *)

\* BFRTBackend keeps a cache status of its own: READY after every read and every
\* success, UNKNOWN after a failed rollback and in a new process.
BackendCaches(known) == bcache' = IF Backend = "bfrt" THEN known ELSE bcache

\* A handler that has the lock gets as far as its call of backend.apply.
Prepare(request, previous, target) ==
    /\ pending' = request
    /\ job' = [previous |-> previous, target |-> target]
    /\ status' = "updating"
    /\ UNCHANGED <<table, phase, verdict, disturbed, overtaken>>

\* backend.apply(previous, target) is called with the lock held; between the
\* read that came before and the first write others may write.
Program ==
    /\ pending.kind # "none"
    /\ UNCHANGED job
    /\ Txn!Begin
    /\ UNCHANGED <<bcache, up, stateVars, pending, leaseVars, view, history>>

\* A verified commit has just read the table, and so has every rollback that
\* succeeded.
Programmed ==
    /\ \/ Txn!Commit /\ unseen' = (unseen /\ ~Verify) /\ BackendCaches("READY")
       \/ Txn!Abort /\ unseen' = FALSE /\ BackendCaches("READY")
       \/ Txn!Fail /\ UNCHANGED unseen /\ BackendCaches("UNKNOWN")
    /\ UNCHANGED <<up, stateVars, pending, leaseVars, view, overtaken>>

\* A CLI, another controller or a device reset.
Interfere(t) ==
    /\ Txn!Interfere
    /\ phase # "busy" => table' = t /\ t # table
    /\ unseen' = TRUE
    /\ overtaken' = (pending.kind # "none")
    /\ UNCHANGED <<bcache, up, stateVars, pending, leaseVars, view>>

----------------------------------------------------------------------------------
(* Writes: validation, and the read before the call *)

\* _check_write_preconditions.
Writable(c) ==
    /\ Unlocked
    /\ Live(c)
    /\ view[c].revision = revision
    /\ ~gate
    /\ cache = "READY"
    /\ revision < MaxRevision

\* bug: what the device holds is not compared
NeverStale == FALSE

\* STRICT_DEVICE reads the device first, unless the backend has a device_state
\* method: then it is left to the backend, and BFRT does not do it.
PreRead == Consistency = "STRICT_DEVICE" /\ Backend = "p4app"

\* The pre-read finds the device changed.
Stale == PreRead /\ table # CurrentPairs

Admit(request) ==
    /\ ~Stale
    /\ Prepare(request, CurrentPairs, PairsIn(request.mode, request.config))
    /\ unseen' = (unseen /\ ~PreRead)
    /\ UNCHANGED <<bcache, up, connections, mode, revision, cache, gate, driftError,
                   leaseVars, view>>

FindStale ==
    /\ Stale
    /\ cache' = "DRIFTED"
    /\ status' = "error"
    /\ driftError' = FALSE
    /\ UNCHANGED <<txnVars, up, connections, mode, revision, gate, pending,
                   leaseVars, view, history>>

\* The pre-read, or backend.apply before its first write (a strategy or a
\* transport it does not know), raises an exception nobody handles.
Escape ==
    /\ status' = "updating"
    /\ UNCHANGED <<txnVars, up, connections, mode, revision, cache, gate, driftError,
                   pending, leaseVars, view, history>>

\* _apply_target_locked.  A target equal to the current set is "unchanged".
Edit(c, r) ==
    LET target == Target[r][connections]
    IN  /\ Writable(c)
        /\ target # Rejected
        /\ mode = "ocs"
        /\ target # connections
        /\ \/ Admit([kind |-> "edit", config |-> target, mode |-> mode, client |-> c])
           \/ FindStale
           \/ Escape

SetMode(c, m) ==
    /\ Writable(c)
    /\ m # mode
    /\ \/ Admit([kind |-> "mode", config |-> connections, mode |-> m, client |-> c])
       \/ FindStale
       \/ Escape

\* bug: a status the API has no name for
RecoverFailedStatus ==
    /\ cache' = "UNKNOWN"
    /\ status' = "failed"
    /\ driftError' = FALSE

\* An exception in recovery, whatever the device holds.
RecoverFailed ==
    /\ cache' = "UNKNOWN"
    /\ status' = "error"
    /\ driftError' = FALSE

\* recover_device_state reads the device and programs the difference; it needs
\* the lease and the revision, but neither a READY cache nor an open gate.  The
\* read may raise, or apply before its first write.
Recover(c) ==
    /\ Unlocked
    /\ Live(c)
    /\ view[c].revision = revision
    /\ revision < MaxRevision
    /\ \/ /\ Prepare([kind |-> "recover", config |-> connections, mode |-> mode,
                       client |-> c], table, CurrentPairs)
          /\ BackendCaches("READY")
          /\ unseen' = FALSE
          /\ UNCHANGED <<cache, driftError>>
       \/ /\ RecoverFailed
          /\ BackendCaches("READY") \/ UNCHANGED bcache
          /\ UNCHANGED <<deviceVars, pending, history>>
    /\ UNCHANGED <<up, connections, mode, revision, gate, leaseVars, view>>

----------------------------------------------------------------------------------
(* Writes: the verdict *)

\* bug: the Core does not ask the backend
CapturedOwn(word, success, closed) ==
    IF closed THEN "DRIFTED" ELSE IF success THEN "READY" ELSE cache

\* bug: the gate is looked at only when the backend has no word of its own
CapturedOpen(word, success, closed) ==
    IF Backend = "bfrt" THEN word
    ELSE IF closed THEN "DRIFTED" ELSE IF success THEN "READY" ELSE cache

\* _capture_backend_state: the startup gate overrides everything, the word of
\* BFRTBackend comes next, and with P4AppBackend the Core only learns of success.
Captured(word, success, closed) ==
    CASE closed -> "DRIFTED"
      [] ~closed /\ Backend = "bfrt" -> word
      [] ~closed /\ Backend # "bfrt" -> IF success THEN "READY" ELSE cache

\* The handler has its answer and releases the lock.
Reply ==
    /\ Txn!Return
    /\ job' = NoJob
    /\ pending' = Idle
    /\ overtaken' = FALSE
    /\ UNCHANGED <<leaseVars, unseen>>

\* The answer carries the new revision.
Committed ==
    /\ pending.kind \in {"edit", "mode"}
    /\ verdict = "ok"
    /\ connections' = pending.config
    /\ mode' = pending.mode
    /\ revision' = revision + 1
    /\ cache' = Captured(bcache, TRUE, gate)
    /\ status' = "ready"
    /\ driftError' = (driftError /\ pending.kind = "mode")
    /\ view' = [view EXCEPT ![pending.client] =
            [revision |-> revision', config |-> connections',
             mode |-> mode', alive |-> TRUE]]
    /\ Reply
    /\ UNCHANGED <<bcache, up, gate>>

\* bug: whether the rollback succeeded is not looked at
AbortedReady ==
    /\ pending.kind \in {"edit", "mode"}
    /\ verdict \in {"restored", "failed"}
    /\ UNCHANGED cache
    /\ status' = "ready"
    /\ driftError' = (driftError /\ pending.kind = "mode")
    /\ Reply
    /\ UNCHANGED <<bcache, up, connections, mode, revision, gate, view>>

\* BackendTransitionError.
Aborted ==
    /\ pending.kind \in {"edit", "mode"}
    /\ verdict \in {"restored", "failed"}
    /\ cache' = Captured(bcache, FALSE, gate)
    /\ status' = IF verdict = "restored" THEN "ready" ELSE "error"
    /\ driftError' = (driftError /\ pending.kind = "mode")
    /\ Reply
    /\ UNCHANGED <<bcache, up, connections, mode, revision, gate, view>>

\* The recovery is read back once more before the gate is opened.
Recovered ==
    /\ pending.kind = "recover"
    /\ verdict = "ok"
    /\ table = CurrentPairs
    /\ revision' = revision + 1
    /\ gate' = FALSE
    /\ cache' = Captured(bcache, TRUE, FALSE)
    /\ status' = "ready"
    /\ driftError' = FALSE
    /\ Txn!Return
    /\ job' = NoJob
    /\ pending' = Idle
    /\ unseen' = FALSE
    /\ overtaken' = FALSE
    /\ UNCHANGED <<bcache, up, connections, mode, leaseVars, view>>

\* bug: a recovery that was rolled back leaves the backend's word for the cache
NotRecoveredCaptured ==
    /\ pending.kind = "recover"
    /\ verdict \in {"restored", "failed"}
    /\ cache' = Captured(bcache, FALSE, gate)
    /\ status' = "error"
    /\ driftError' = FALSE
    /\ Reply
    /\ UNCHANGED <<bcache, up, connections, mode, revision, gate, view>>

\* Any exception, of the readback included; a reported restoration counts as one.
NotRecovered ==
    /\ pending.kind = "recover"
    /\ RecoverFailed
    /\ Reply
    /\ UNCHANGED <<bcache, up, connections, mode, revision, gate, view>>

----------------------------------------------------------------------------------
(* Reconciliation *)

\* bug: a read that works is taken for a read that matches
ReconcileBlind ==
    /\ Unlocked
    /\ cache' = IF gate THEN "DRIFTED" ELSE "READY"
    /\ status' = IF gate THEN "error" ELSE status
    /\ BackendCaches("READY")
    /\ UNCHANGED <<deviceVars, up, connections, mode, revision, gate, driftError, pending,
                   leaseVars, view, history>>

\* The reconcile thread reads the device and compares.  A match makes the cache
\* READY again, but lifts only the error a drift has left.
Reconcile ==
    /\ Unlocked
    /\ IF gate \/ table # CurrentPairs
       THEN /\ cache' = "DRIFTED"
            /\ status' = "error"
            /\ driftError' = ~gate
       ELSE /\ cache' = "READY"
            /\ status' = IF driftError THEN "ready" ELSE status
            /\ driftError' = FALSE
    /\ BackendCaches("READY")
    /\ unseen' = FALSE
    /\ UNCHANGED <<deviceVars, up, connections, mode, revision, gate, pending, leaseVars,
                   view, overtaken>>

\* The read raises.
ReconcileFault ==
    /\ Unlocked
    /\ cache' = "UNKNOWN"
    /\ status' = "error"
    /\ driftError' = FALSE
    /\ UNCHANGED <<txnVars, up, connections, mode, revision, gate, pending,
                   leaseVars, view, history>>

----------------------------------------------------------------------------------
(* Startup and crashes *)

\* A new process: __init__ up to the comparison, with the read of the device.
Fresh ==
    /\ ~up
    /\ pending.kind = "none"
    /\ BackendCaches("READY")
    /\ connections' = InitialConfig
    /\ mode' = "ocs"
    /\ revision' = 0
    /\ driftError' = FALSE
    /\ unseen' = FALSE

StartMatch ==
    /\ Fresh
    /\ table = PairsOf[InitialConfig]
    /\ up' = TRUE
    /\ status' = "ready"
    /\ cache' = Captured(bcache', TRUE, FALSE)
    /\ gate' = FALSE
    /\ UNCHANGED <<deviceVars, pending, leaseVars, view, overtaken>>

\* The gate is closed before the backend is asked, which is READY after the read.
StartMismatch ==
    /\ Fresh
    /\ table # PairsOf[InitialConfig]
    /\ StartupPolicy = "REQUIRE_MATCH"
    /\ up' = TRUE
    /\ status' = "error"
    /\ cache' = Captured(bcache', TRUE, TRUE)
    /\ gate' = TRUE
    /\ UNCHANGED <<deviceVars, pending, leaseVars, view, overtaken>>

StartReapply ==
    /\ Fresh
    /\ table # PairsOf[InitialConfig]
    /\ StartupPolicy = "REAPPLY_DESIRED"
    /\ Prepare([kind |-> "startup", config |-> InitialConfig, mode |-> "ocs"],
               table, PairsOf[InitialConfig])
    /\ cache' = "UNKNOWN"
    /\ gate' = FALSE
    /\ UNCHANGED <<up, leaseVars, view>>

\* A failed reapplication ends the process.
Started ==
    /\ pending.kind = "startup"
    /\ up' = (verdict = "ok")
    /\ status' = IF verdict = "ok" THEN "ready" ELSE "error"
    /\ cache' = IF verdict = "ok" THEN Captured(bcache, TRUE, FALSE) ELSE cache
    /\ bcache' = IF verdict = "ok" THEN bcache ELSE "UNKNOWN"
    /\ Reply
    /\ UNCHANGED <<connections, mode, revision, gate, driftError, view>>

\* The process dies at any point, also in the middle of a device update.
Crash ==
    /\ up \/ pending.kind # "none"
    /\ up' = FALSE
    /\ phase' = "idle"
    /\ IF phase = "busy" THEN table' \in Tables ELSE UNCHANGED table
    /\ job' = NoJob
    /\ verdict' = "none"
    /\ disturbed' = FALSE
    /\ bcache' = "UNKNOWN"
    /\ pending' = Idle
    /\ lease' = 0
    /\ leaseAge' = 0
    /\ view' = [c \in Clients |-> [view[c] EXCEPT !.alive = FALSE]]
    /\ unseen' = TRUE
    /\ overtaken' = FALSE
    /\ UNCHANGED <<stateVars, leases, token>>

----------------------------------------------------------------------------------
Handle ==
    \/ Committed
    \/ Aborted
    \/ Recovered
    \/ NotRecovered
    \/ Started

ClientStep(c) ==
    \/ Acquire(c)
    \/ Renew(c)
    \/ Release(c)
    \/ ReadSnapshot(c)
    \/ GetPermutation(c)
    \/ \E r \in Requests : Edit(c, r)
    \/ \E m \in {"ocs", "debug"} : SetMode(c, m)
    \/ Recover(c)

Next ==
    \/ \E c \in Clients : ClientStep(c)
    \/ Tick
    \/ Program
    \/ Programmed
    \/ Handle
    \/ Reconcile
    \/ ReconcileFault
    \/ StartMatch
    \/ StartMismatch
    \/ StartReapply
    \/ \E t \in ForeignTables : Interfere(t)
    \/ Crash

Spec == Init /\ [][Next]_vars

\* It is assumed of the device that it answers or raises (p4app.py passes its
\* calls no deadline); then apply() and its handler end.  The reconcile thread
\* waits for the lock with everybody else and is served in the end.
FairSpec ==
    /\ Spec
    /\ WF_vars(Program)
    /\ WF_vars(Programmed)
    /\ WF_vars(Handle)
    /\ SF_vars(Reconcile)

----------------------------------------------------------------------------------
(* Properties *)

\* Between requests a READY cache is right about the device, whatever failed
\* before, unless somebody else wrote the table since the agent last looked:
\* what _apply_target_locked, set_mode, recover_device_state and __init__ leave
\* in _cache_status is what they verified.
CacheTruth ==
    Unlocked /\ cache = "READY" /\ ~unseen => table = CurrentPairs

\* The runtime status is "ready" only over a device that holds the current
\* connections, on the same terms: "ready" is what turns a port to CONNECTED
\* and TUNED in the operational state (as_list, openconfig_tree).
StatusTruth ==
    Unlocked /\ status = "ready" /\ ~unseen => table = CurrentPairs

\* After a startup mismatch under REQUIRE_MATCH neither a matching read nor the
\* backend's own cache reopens writes: only a recovery that succeeded does
\* (_capture_backend_state, reconcile_device_state, recover_device_state).
StartupGate ==
    up /\ gate =>
        /\ cache # "READY"
        /\ status # "ready"
        /\ pending.kind \in {"none", "recover"}

\* A drifted or unknown device is never silently adopted: writes are possible
\* again only over a table that holds the agent's own connections, be it after a
\* recovery or because the reconcile thread found them there.
NoSilentAdoption ==
    [][up /\ up' /\ cache # "READY" /\ cache' = "READY" =>
        table' = PairsIn(mode', connections')]_vars

\* No lost update: a write that commits was decided on the very state it
\* replaces, however many requests of other clients came between the reading
\* and the writing, and even when the reading was torn (revision and pairing
\* fetched under two acquisitions of the lock).  A client that still uses what
\* it read from an earlier process is not covered: revisions restart at 0.
CommitsFromKnownState ==
    [][up /\ up' /\ (connections' # connections \/ mode' # mode) =>
        LET known == view[pending.client]
        IN  known.alive =>
                known.revision = revision /\ known.config = connections /\
                known.mode = mode]_vars

\* While a write is on its way to the device nobody else gains control, even if
\* the lease of the writer runs out meanwhile (the lock of acquire_control).
WriterIsHolder ==
    pending.kind \in {"edit", "mode", "recover"} => token[pending.client] = lease

\* STRICT_DEVICE: a write reaches a device that does not hold what the agent
\* believes only if somebody else wrote it after the writer had taken the lock,
\* between the pre-read and the call of apply (_apply_target_locked, set_mode).  A
\* change from before that, noticed or not, is never overwritten.
StrictWritesStartInSync ==
    [][Consistency = "STRICT_DEVICE" /\ phase = "idle" /\ phase' = "busy"
        /\ pending.kind \in {"edit", "mode"} /\ ~overtaken => table = CurrentPairs]_vars

\* A drift does not go unnoticed: while the agent runs, a READY cache that is
\* wrong stops being READY, or the device is put right.
DriftIsReported ==
    up /\ cache = "READY" /\ table # CurrentPairs ~>
        ~up \/ cache # "READY" \/ table = CurrentPairs
==================================================================================
