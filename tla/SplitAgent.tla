------------------------------- MODULE SplitAgent -------------------------------
(***************************************************************************)
(* Agent of src/agent/go/internal/agent/core.go, the Core of the           *)
(* go-split-grpc profile, with Client of internal/backend/client.go, on    *)
(* top of DeviceWorker.                                                    *)
(*                                                                         *)
(* Writes, recoveries and reconciliations hold the commit slot while their *)
(* call to the Worker is out; reads and leases need only mu, which is free *)
(* meanwhile.  Acquiring the slot, validation and the sending of the call  *)
(* are one step, and so are captureState and what the Core does with the   *)
(* response: nothing that happens in between is visible to them.  Rejected *)
(* requests change nothing and are not actions.                            *)
(***************************************************************************)
EXTENDS DeviceWorker

CONSTANTS
    Clients,        \* users of the northbound gRPC service
    NoClient,
    Configs,        \* connection sets
    InitialConfig,  \* the YAML desired state
    Requests,       \* connection edits clients send
    Target,         \* Target[r][config]: the set an edit builds, or Rejected
    Rejected,
    Modes,          \* {"ocs", "debug"}, or {"ocs"} to leave Debug Mode out
    PairsOf,        \* PairsOf[config]: the device entries of a connection set
    DebugPairs,     \* the device entries of Debug Mode
    StartupPolicy,  \* "REQUIRE_MATCH" or "REAPPLY_DESIRED"
    Outlives,       \* a Core whose Worker died may meet the next Worker
    MaxRevision     \* bound: committed writes per incarnation

ASSUME CoreAssumption ==
    /\ NoClient \notin Clients
    /\ InitialConfig \in Configs
    /\ PairsOf \in [Configs -> Tables]
    /\ DebugPairs \in Tables
    /\ "ocs" \in Modes /\ Modes \subseteq {"ocs", "debug"}
    /\ Target \in [Requests -> [Configs -> Configs \cup {Rejected}]]
    /\ StartupPolicy \in {"REQUIRE_MATCH", "REAPPLY_DESIRED"}
    /\ Outlives \in BOOLEAN
    /\ MaxRevision \in Nat

VARIABLES
    up,             \* the Core serves requests
    connections,    \* state.connections
    mode,           \* state.mode
    status,         \* state.status
    revision,       \* state.revision
    gate,           \* startupRecoveryRequired
    driftError,     \* state.lastError is "device drift detected"
    ccache,         \* the client's DeviceState: CacheStatus
    cgen,           \* the client's DeviceState: Generation
    pending,        \* the request that holds the commit slot
    holder,         \* whose token state.leaseToken is
    view            \* view[c]: the last snapshot client c has read

stateVars == <<connections, mode, status, revision, gate, driftError>>
clientVars == <<ccache, cgen>>
coreVars == <<up, stateVars, clientVars, pending, holder, view>>
vars == <<workerVars, coreVars>>

PairsIn(m, config) == IF m = "ocs" THEN PairsOf[config] ELSE DebugPairs
CurrentPairs == PairsIn(mode, connections)

Free == [kind |-> "none", config |-> InitialConfig, mode |-> "ocs", client |-> NoClient]

Slots == [kind : {"none", "startup", "edit", "mode", "recover", "reconcile"},
          config : Configs, mode : {"ocs", "debug"}, client : Clients \cup {NoClient}]

Snapshots == [revision : 0..MaxRevision, config : Configs,
              mode : {"ocs", "debug"}, alive : BOOLEAN]

\* Type invariant.
TypeOK ==
    /\ WorkerTypeOK
    /\ up \in BOOLEAN
    /\ connections \in Configs
    /\ mode \in {"ocs", "debug"}
    /\ status \in {"updating", "ready", "error"}
    /\ revision \in 0..MaxRevision
    /\ gate \in BOOLEAN
    /\ driftError \in BOOLEAN
    /\ ccache \in CacheStates
    /\ cgen \in 0..MaxGeneration
    /\ pending \in Slots
    /\ holder \in Clients \cup {NoClient}
    /\ view \in [Clients -> Snapshots]

Init ==
    /\ WorkerInit
    /\ up = FALSE
    /\ connections = InitialConfig
    /\ mode = "ocs"
    /\ status = "updating"
    /\ revision = 0
    /\ gate = FALSE
    /\ driftError = FALSE
    /\ ccache = "UNKNOWN"
    /\ cgen = 0
    /\ pending = Free
    /\ holder = NoClient
    /\ view = [c \in Clients |-> [revision |-> 0, config |-> InitialConfig,
                                  mode |-> "ocs", alive |-> FALSE]]

----------------------------------------------------------------------------------
(* mu: leases and reads, also while a call is out *)

Acquire(c) ==
    /\ up
    /\ holder = NoClient
    /\ holder' = c
    /\ UNCHANGED <<workerVars, up, stateVars, clientVars, pending, view>>

\* The holder releases its lease, or it runs out, which can be at any time:
\* renewing it only postpones that.
Expire ==
    /\ holder # NoClient
    /\ holder' = NoClient
    /\ UNCHANGED <<workerVars, up, stateVars, clientVars, pending, view>>

\* Snapshot; the revision, the connections and the mode are read together.
ReadSnapshot(c) ==
    /\ up
    /\ view' = [view EXCEPT ![c] = [revision |-> revision, config |-> connections,
                                    mode |-> mode, alive |-> TRUE]]
    /\ UNCHANGED <<workerVars, up, stateVars, clientVars, pending, holder>>

----------------------------------------------------------------------------------
(* The commit slot: validation and the call to the Worker *)

SlotFree == up /\ pending.kind = "none"

\* bug: the revision is checked before the slot is acquired, and may have moved
AuthorizedEarly(c) ==
    /\ SlotFree
    /\ holder = c
    /\ view[c].revision <= revision
    /\ revision < MaxRevision

\* The lease and the expected revision of a write or a recovery.
Authorized(c) ==
    /\ SlotFree
    /\ holder = c
    /\ view[c].revision = revision
    /\ revision < MaxRevision

\* applyConnectionsAcquired up to backend.Apply.
Program(request) ==
    /\ ~gate
    /\ ccache = "READY"
    /\ Send("apply", CurrentPairs, PairsIn(request.mode, request.config), cgen, revision)
    /\ pending' = request
    /\ status' = "updating"
    /\ UNCHANGED <<up, connections, mode, revision, gate, driftError, clientVars,
                   holder, view>>

\* ApplyPermutation, ReplaceConnections and ApplyConnectionOperations.  A target
\* equal to the current set is "unchanged".
Edit(c, r) ==
    LET target == Target[r][connections]
    IN  /\ Authorized(c)
        /\ target # Rejected
        /\ mode = "ocs"
        /\ target # connections
        /\ Program([kind |-> "edit", config |-> target, mode |-> mode, client |-> c])

SetMode(c, m) ==
    /\ Authorized(c)
    /\ m # mode
    /\ Program([kind |-> "mode", config |-> connections, mode |-> m, client |-> c])

\* RecoverDeviceState needs neither a READY cache nor an open gate.
RecoverDeviceState(c) ==
    /\ Authorized(c)
    /\ Send("recover", CurrentPairs, CurrentPairs, cgen, revision)
    /\ pending' = [kind |-> "recover", config |-> connections, mode |-> mode, client |-> c]
    /\ status' = "updating"
    /\ UNCHANGED <<up, connections, mode, revision, gate, driftError, clientVars,
                   holder, view>>

\* The reconcile loop, or a client's request.
ReconcileDeviceState ==
    /\ SlotFree
    /\ Send("reconcile", CurrentPairs, CurrentPairs, cgen, revision)
    /\ pending' = [Free EXCEPT !.kind = "reconcile"]
    /\ UNCHANGED <<up, stateVars, clientVars, holder, view>>

----------------------------------------------------------------------------------
(* Responses *)

\* captureState; the slot is released.
Capture ==
    /\ Receive
    /\ ccache' = reply.cache
    /\ cgen' = reply.generation
    /\ pending' = Free
    /\ UNCHANGED holder

Committed ==
    /\ up
    /\ pending.kind \in {"edit", "mode"}
    /\ reply # NoReply /\ reply.outcome = "ok"
    /\ connections' = pending.config
    /\ mode' = pending.mode
    /\ revision' = revision + 1
    /\ status' = "ready"
    /\ driftError' = FALSE
    /\ view' = [view EXCEPT ![pending.client] =
            [revision |-> revision', config |-> connections',
             mode |-> mode', alive |-> TRUE]]
    /\ Capture
    /\ UNCHANGED <<up, gate>>

Recovered ==
    /\ up
    /\ pending.kind = "recover"
    /\ reply # NoReply /\ reply.outcome = "ok"
    /\ revision' = revision + 1
    /\ status' = "ready"
    /\ driftError' = FALSE
    /\ gate' = FALSE
    /\ Capture
    /\ UNCHANGED <<up, connections, mode, view>>

\* bug: the outcome is taken for the status
TransitionFailedStatus ==
    /\ up
    /\ pending.kind \in {"edit", "mode", "recover"}
    /\ reply # NoReply /\ reply.outcome # "ok"
    /\ status' = reply.outcome
    /\ driftError' = FALSE
    /\ Capture
    /\ UNCHANGED <<up, connections, mode, revision, gate, view>>

\* backendErrorLocked for a TransitionError, of a recovery too.
TransitionFailed ==
    /\ up
    /\ pending.kind \in {"edit", "mode", "recover"}
    /\ reply # NoReply /\ reply.outcome # "ok"
    /\ status' = IF reply.outcome = "restored" THEN "ready" ELSE "error"
    /\ driftError' = FALSE
    /\ Capture
    /\ UNCHANGED <<up, connections, mode, revision, gate, view>>

\* A match lifts only the error a drift has left, and not before a recovery
\* after a startup mismatch.
Reconciled ==
    /\ up
    /\ pending.kind = "reconcile"
    /\ reply # NoReply
    /\ IF reply.cache # "READY"
       THEN status' = "error" /\ driftError' = TRUE
       ELSE LET lifted == ~gate /\ driftError
            IN  /\ status' = IF lifted THEN "ready" ELSE status
                /\ driftError' = (driftError /\ ~lifted)
    /\ Capture
    /\ UNCHANGED <<up, connections, mode, revision, gate, view>>

\* markUnknown: the call has no answer.  The Worker may still be busy with it.
Unanswered ==
    /\ up
    /\ GiveUp
    /\ ccache' = "UNKNOWN"
    /\ status' = "error"
    /\ driftError' = FALSE
    /\ pending' = Free
    /\ UNCHANGED <<up, connections, mode, revision, gate, cgen, holder, view>>

----------------------------------------------------------------------------------
(* Startup and crashes *)

\* The Core's process runs.
Alive == up \/ pending.kind = "startup"

\* New, up to the comparison with the entries in the Worker's cache.  A process
\* that is not there has the state a new one starts with.
Fresh ==
    /\ ~Alive
    /\ wup
    /\ ccache' = wcache
    /\ cgen' = generation
    /\ UNCHANGED <<connections, mode, revision, driftError, holder, view>>

StartMatch ==
    /\ Fresh
    /\ entries = PairsOf[InitialConfig]
    /\ up' = TRUE
    /\ status' = "ready"
    /\ gate' = FALSE
    /\ UNCHANGED <<workerVars, pending>>

StartMismatch ==
    /\ Fresh
    /\ entries # PairsOf[InitialConfig]
    /\ StartupPolicy = "REQUIRE_MATCH"
    /\ up' = TRUE
    /\ status' = "error"
    /\ gate' = TRUE
    /\ UNCHANGED <<workerVars, pending>>

StartReapply ==
    /\ Fresh
    /\ entries # PairsOf[InitialConfig]
    /\ StartupPolicy = "REAPPLY_DESIRED"
    /\ Send("apply", entries, PairsOf[InitialConfig], generation, 0)
    /\ pending' = [Free EXCEPT !.kind = "startup"]
    /\ status' = "updating"
    /\ gate' = FALSE
    /\ UNCHANGED up

Started ==
    /\ pending.kind = "startup"
    /\ reply # NoReply /\ reply.outcome = "ok"
    /\ up' = TRUE
    /\ status' = "ready"
    /\ Capture
    /\ UNCHANGED <<connections, mode, revision, gate, driftError, view>>

\* The Core exits, or gives up starting, and the launcher stops the Worker, whose
\* handlers may have gone on until then.
Exit ==
    /\ Alive
    /\ up' = FALSE
    /\ connections' = InitialConfig
    /\ mode' = "ocs"
    /\ status' = "updating"
    /\ revision' = 0
    /\ gate' = FALSE
    /\ driftError' = FALSE
    /\ pending' = Free
    /\ holder' = NoClient
    /\ view' = [c \in Clients |-> [view[c] EXCEPT !.alive = FALSE]]
    /\ ccache' = "UNKNOWN"
    /\ cgen' = 0
    /\ WorkerDies(calls # {} \/ (running # NoCall /\ phase # "done"))
    /\ awaited' = 0
    /\ reply' = NoReply

----------------------------------------------------------------------------------
ClientStep(c) ==
    \/ Acquire(c)
    \/ ReadSnapshot(c)
    \/ \E r \in Requests : Edit(c, r)
    \/ \E m \in Modes : SetMode(c, m)
    \/ RecoverDeviceState(c)

Respond ==
    \/ Committed
    \/ Recovered
    \/ TransitionFailed
    \/ Reconciled
    \/ Started

WorkerStep ==
    \/ \E call \in calls : Handler(call)
    \/ CallBackend
    \/ Programmed
    \/ FinishCall

Environment ==
    \/ \E call \in calls : Drop(call)
    \/ \E t \in ForeignTables : Interfere(t)
    \/ WorkerCrash
    \/ (Alive => Outlives) /\ WorkerStart(Alive)

Next ==
    \/ \E c \in Clients : ClientStep(c)
    \/ Expire
    \/ ReconcileDeviceState
    \/ Respond
    \/ Unanswered
    \/ StartMatch
    \/ StartMismatch
    \/ StartReapply
    \/ Exit
    \/ (WorkerStep \/ Environment) /\ UNCHANGED coreVars

Spec == Init /\ [][Next]_vars

\* The Go client gives its calls deadlines; the Worker's handlers run and, as it is
\* assumed that the device answers or raises, end; the commit channel serves its
\* waiting senders in order.
FairSpec ==
    /\ Spec
    /\ WF_vars(Respond)
    /\ WF_vars(Unanswered)
    /\ WF_vars(WorkerStep /\ UNCHANGED coreVars)
    /\ SF_vars(ReconcileDeviceState)

----------------------------------------------------------------------------------
(* Properties *)

\* No Apply that programs the device was sent by a Core that has committed
\* something since: a call the Core gave up on, which runs late, cannot undo a
\* commit (the generation and the entries that ApplyTransition compares).  It
\* needs the Worker to live as long as the Core: a new one counts from 1 again.
AppliesAreFenced ==
    running # NoCall /\ running.kind = "apply" => running.revision = revision

\* The same for every write of the Worker, Recover's included: one that the Core
\* has overtaken with a commit does not put the device back.
WritesAreFenced ==
    running # NoCall /\ running.revision # revision => running.target = CurrentPairs

\* When the Core is ready and agrees with the Worker on a READY cache and on the
\* generation, the device holds the Core's connections, whatever calls were
\* abandoned and ran late, whatever was rolled back and whichever of the two was
\* restarted, unless somebody else wrote the table since it was compared.
AgreementIsTruth ==
    SlotFree /\ Unlocked
        /\ status = "ready"
        /\ ccache = "READY" /\ wcache = "READY" /\ cgen = generation
        /\ ~unseen
    => table = CurrentPairs

\* STRICT_DEVICE: an Apply reaches a device that does not hold what its sender
\* believes only if somebody else wrote it after the pre-read of ApplyTransition and
\* before its call of apply.  A change from before that, noticed or not, is never
\* overwritten, although the Worker's cache was READY and the generations agreed.
StrictWritesStartInSync ==
    [][Consistency = "STRICT_DEVICE" /\ phase = "idle" /\ phase' = "busy"
        /\ running.kind = "apply" /\ ~unseen => table = running.expected]_vars

\* No lost update: a write that commits was decided on the very state it
\* replaces, although leases change hands and reads go on while its call is out.
CommitsFromKnownState ==
    [][up /\ up' /\ (connections' # connections \/ mode' # mode) =>
        LET known == view[pending.client]
        IN  known.alive =>
                known.revision = revision /\ known.config = connections /\
                known.mode = mode]_vars

\* Between writes the status is "ready", and ports are shown CONNECTED and TUNED
\* (connectionStatus, OpenConfigTree), only over a device that holds the
\* connections.
ReadyMeansProgrammed ==
    SlotFree /\ Unlocked /\ calls = {} /\ status = "ready" /\ ~unseen =>
        table = CurrentPairs

\* A drift does not go unnoticed: a READY cache that is wrong stops being READY,
\* or the device is put right.
DriftIsReported ==
    up /\ ccache = "READY" /\ table # CurrentPairs ~>
        ~up \/ ccache # "READY" \/ table = CurrentPairs
==================================================================================
