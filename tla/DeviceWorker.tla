------------------------------ MODULE DeviceWorker ------------------------------
(***************************************************************************)
(* DeviceBackendService of src/agent/python/ocs_agent/device_worker.py,    *)
(* the process that owns the device in the go-split-grpc profile, with the *)
(* RPC channel of agent/go/internal/backend/client.go on which the Go Core *)
(* calls it.  SplitAgent composes it with the Core.                        *)
(*                                                                         *)
(* A handler that has received its request waits for the Worker's lock; a  *)
(* client that gave up (deadline, cancellation) does not stop it, so an    *)
(* abandoned call may run late, after calls that were sent later.  The     *)
(* lock is held from Start... to Finish... (running); the device read that *)
(* precedes a write, the call of backend.apply, its verdict and what the   *)
(* handler does with it are four steps, and other writers come in between. *)
(* The backend is AtomicTransaction.                                       *)
(***************************************************************************)
EXTENDS Naturals, FiniteSets

CONSTANTS
    Tables,         \* contents the device table can have
    ForeignTables,  \* what other writers may turn the table into
    Consistency,    \* "CACHED_ACK", "CACHED_SYNC" or "STRICT_DEVICE"
    Verify,         \* the backend reads a changed write back
    CallIds,        \* bound: calls in the Worker at the same time
    MaxGeneration   \* bound: device generations of one Worker process

ASSUME WorkerAssumption ==
    /\ ForeignTables \subseteq Tables
    /\ Consistency \in {"CACHED_ACK", "CACHED_SYNC", "STRICT_DEVICE"}
    /\ Verify \in BOOLEAN
    /\ Consistency # "CACHED_ACK" => Verify
    /\ CallIds \subseteq Nat \ {0}
    /\ MaxGeneration \in Nat \ {0}

VARIABLES
    table, phase, job, verdict, disturbed,  \* see AtomicTransaction
    wup,        \* the Worker process runs
    entries,    \* _entries, its copy of the table
    generation, \* _generation
    wcache,     \* _cache_status
    calls,      \* requests whose handlers wait for the lock
    running,    \* the request that holds the lock
    awaited,    \* the call the client still waits for, 0 for none
    reply,      \* the response on its way to the client
    unseen      \* history: somebody wrote the table since it was read

txnVars == <<table, phase, job, verdict, disturbed>>
cacheVars == <<entries, generation, wcache>>
channelVars == <<calls, running, awaited, reply>>
workerVars == <<txnVars, wup, cacheVars, channelVars, unseen>>

Txn == INSTANCE AtomicTransaction

CacheStates == {"READY", "DRIFTED", "UNKNOWN"}

\* The caller's revision travels with the model's calls, not with the code's.
Calls == [id : CallIds, kind : {"apply", "recover", "reconcile"},
          expected : Tables, target : Tables, generation : Nat, revision : Nat]

\* The arguments of apply() between two calls: any, but always the same.
NoJob == LET any == CHOOSE t \in Tables : TRUE IN [previous |-> any, target |-> any]

NoCall == [kind |-> "none"]

Outcomes == {"ok", "refused", "restored", "failed"}

NoReply == [outcome |-> "none"]

\* Type invariant.
WorkerTypeOK ==
    /\ Txn!AtomicTypeOK
    /\ wup \in BOOLEAN
    /\ entries \in Tables
    /\ generation \in 0..MaxGeneration
    /\ wcache \in CacheStates
    /\ calls \subseteq Calls
    /\ running \in Calls \cup {NoCall}
    /\ awaited \in CallIds \cup {0}
    /\ reply \in [outcome : Outcomes, cache : CacheStates, generation : Nat]
                 \cup {NoReply}
    /\ unseen \in BOOLEAN

WorkerInit ==
    /\ table \in Tables
    /\ phase = "idle"
    /\ job = NoJob
    /\ verdict = "none"
    /\ disturbed = FALSE
    /\ wup = FALSE
    /\ entries = NoJob.previous
    /\ generation = 0
    /\ wcache = "UNKNOWN"
    /\ calls = {}
    /\ running = NoCall
    /\ awaited = 0
    /\ reply = NoReply
    /\ unseen = FALSE

----------------------------------------------------------------------------------
(* The client's end of the channel *)

Outstanding == calls \cup ({running} \ {NoCall})

FreeIds == CallIds \ {call.id : call \in Outstanding}

\* Bound: generations the Worker has still to give.
Writes == {call \in Outstanding : call.kind # "reconcile"}
MayWrite == wup => generation + Cardinality(Writes) < MaxGeneration

\* A call leaves the client; with nobody at the other end it is lost.
Send(kind, expected, target, gen, revision) ==
    /\ awaited = 0
    /\ FreeIds # {}
    /\ kind # "reconcile" => MayWrite
    /\ LET id == CHOOSE i \in FreeIds : TRUE
       IN  /\ awaited' = id
           /\ calls' = IF wup
                       THEN calls \cup {[id |-> id, kind |-> kind, expected |-> expected,
                                         target |-> target, generation |-> gen,
                                         revision |-> revision]}
                       ELSE calls
    /\ UNCHANGED <<txnVars, wup, cacheVars, running, reply, unseen>>

\* The response arrives.
Receive ==
    /\ reply # NoReply
    /\ awaited' = 0
    /\ reply' = NoReply
    /\ UNCHANGED <<txnVars, wup, cacheVars, calls, running, unseen>>

\* The deadline passes, the caller's context is cancelled or the call breaks.
GiveUp ==
    /\ awaited # 0
    /\ awaited' = 0
    /\ reply' = NoReply
    /\ UNCHANGED <<txnVars, wup, cacheVars, calls, running, unseen>>

\* The server drops a call whose client has gone before its handler runs.
Drop(call) ==
    /\ call.id # awaited
    /\ calls' = calls \ {call}
    /\ UNCHANGED <<txnVars, wup, cacheVars, running, awaited, reply, unseen>>

----------------------------------------------------------------------------------
(* Handlers *)

Unlocked == wup /\ running = NoCall

\* The response carries the Worker's state as the handler leaves it.
Answer(call, outcome) ==
    reply' = IF call.id = awaited
             THEN [outcome |-> outcome, cache |-> wcache', generation |-> generation']
             ELSE reply

\* bug: only the entries are compared
AcceptedByEntries(call) == wcache = "READY" /\ call.expected = entries

\* The cached checks of ApplyTransition.
Accepted(call) ==
    /\ wcache = "READY"
    /\ call.generation = generation
    /\ call.expected = entries

\* bug: the pre-read is left out
NeverStale == FALSE

Stale == Consistency = "STRICT_DEVICE" /\ table # entries

RefuseApply(call) ==
    /\ Unlocked
    /\ call.kind = "apply"
    /\ ~Accepted(call)
    /\ calls' = calls \ {call}
    /\ UNCHANGED cacheVars
    /\ Answer(call, "refused")
    /\ UNCHANGED <<txnVars, wup, running, awaited, unseen>>

\* STRICT_DEVICE: the device is read and found changed.
FindDrift(call) ==
    /\ Unlocked
    /\ call.kind = "apply"
    /\ Accepted(call)
    /\ Stale
    /\ calls' = calls \ {call}
    /\ wcache' = "DRIFTED"
    /\ UNCHANGED <<entries, generation>>
    /\ Answer(call, "refused")
    /\ UNCHANGED <<txnVars, wup, running, awaited, unseen>>

\* The device read of Reconcile, and that of STRICT_DEVICE, may raise; the
\* handler sets nothing and the client sees the call fail.
Unreadable(call) ==
    /\ Unlocked
    /\ \/ call.kind = "reconcile"
       \/ call.kind = "apply" /\ Accepted(call) /\ Consistency = "STRICT_DEVICE"
    /\ calls' = calls \ {call}
    /\ UNCHANGED <<txnVars, wup, cacheVars, running, awaited, reply, unseen>>

\* A handler takes the lock and gets as far as its call of backend.apply.
Start(call, previous) ==
    /\ Unlocked
    /\ running' = call
    /\ job' = [previous |-> previous, target |-> call.target]
    /\ calls' = calls \ {call}
    /\ UNCHANGED <<table, phase, verdict, disturbed, wup, cacheVars, awaited, reply>>

\* With STRICT_DEVICE the table has just been read.
StartApply(call) ==
    /\ call.kind = "apply"
    /\ Accepted(call)
    /\ ~Stale
    /\ Start(call, entries)
    /\ unseen' = (unseen /\ Consistency # "STRICT_DEVICE")

\* Recover does not look at the cache: it reads the device.
StartRecover(call) ==
    /\ call.kind = "recover"
    /\ Start(call, table)
    /\ unseen' = FALSE

\* backend.apply(previous, target) is called with the lock held; between the
\* read that came before and the first write others may write.
CallBackend ==
    /\ running # NoCall
    /\ UNCHANGED job
    /\ Txn!Begin
    /\ UNCHANGED <<wup, cacheVars, channelVars, unseen>>

\* A verified commit and a verified rollback have just read the table.
Programmed ==
    /\ \/ Txn!Commit /\ unseen' = (unseen /\ ~Verify)
       \/ Txn!Abort /\ unseen' = FALSE
       \/ Txn!Fail /\ UNCHANGED unseen
    /\ UNCHANGED <<wup, cacheVars, channelVars>>

Finish(outcome) ==
    /\ Txn!Return
    /\ job' = NoJob
    /\ running' = NoCall
    /\ Answer(running, outcome)
    /\ UNCHANGED <<wup, calls, awaited>>

\* bug: a rollback that failed leaves the cache alone
FinishApplyCareless ==
    /\ running.kind = "apply"
    /\ IF verdict = "ok"
       THEN entries' = running.target /\ generation' = generation + 1
       ELSE UNCHANGED <<entries, generation>>
    /\ wcache' = "READY"
    /\ Finish(verdict)
    /\ UNCHANGED unseen

\* bug: a commit keeps the generation
FinishApplySameGeneration ==
    /\ running.kind = "apply"
    /\ entries' = IF verdict = "ok" THEN running.target ELSE entries
    /\ wcache' = IF verdict = "failed" THEN "UNKNOWN" ELSE "READY"
    /\ UNCHANGED generation
    /\ Finish(verdict)
    /\ UNCHANGED unseen

FinishApply ==
    /\ running.kind = "apply"
    /\ IF verdict = "ok"
       THEN entries' = running.target /\ generation' = generation + 1
       ELSE UNCHANGED <<entries, generation>>
    /\ wcache' = IF verdict = "failed" THEN "UNKNOWN" ELSE "READY"
    /\ Finish(verdict)
    /\ UNCHANGED unseen

\* The recovered table is read once more.
FinishRecover ==
    /\ running.kind = "recover"
    /\ verdict = "ok" /\ table = running.target
    /\ entries' = running.target
    /\ generation' = generation + 1
    /\ wcache' = "READY"
    /\ Finish("ok")
    /\ unseen' = FALSE

\* The rollback put back what the device held before: drift remains drift.  The
\* last read may fail or find something else.
FailRecover ==
    /\ running.kind = "recover"
    /\ UNCHANGED <<entries, generation, unseen>>
    /\ wcache' = IF verdict = "restored" THEN "DRIFTED" ELSE "UNKNOWN"
    /\ Finish(IF verdict = "restored" THEN "restored" ELSE "failed")

\* The first read of a recovery raises.
RecoverUnread(call) ==
    /\ Unlocked
    /\ call.kind = "recover"
    /\ calls' = calls \ {call}
    /\ wcache' = "UNKNOWN"
    /\ UNCHANGED <<entries, generation>>
    /\ Answer(call, "failed")
    /\ UNCHANGED <<txnVars, wup, running, awaited, unseen>>

\* bug: the device is compared with the Worker's copy only
ReconcileOwn(call) ==
    /\ Unlocked
    /\ call.kind = "reconcile"
    /\ calls' = calls \ {call}
    /\ wcache' = IF table = entries THEN "READY" ELSE "DRIFTED"
    /\ UNCHANGED <<entries, generation>>
    /\ Answer(call, "ok")
    /\ unseen' = FALSE
    /\ UNCHANGED <<txnVars, wup, running, awaited>>

\* bug: a read that works is taken for a read that matches
ReconcileBlind(call) ==
    /\ Unlocked
    /\ call.kind = "reconcile"
    /\ calls' = calls \ {call}
    /\ wcache' = "READY"
    /\ UNCHANGED <<entries, generation>>
    /\ Answer(call, "ok")
    /\ UNCHANGED <<txnVars, wup, running, awaited, unseen>>

\* The Worker's copy, the device and the Core's desired state must agree.
Reconcile(call) ==
    /\ Unlocked
    /\ call.kind = "reconcile"
    /\ calls' = calls \ {call}
    /\ wcache' = IF table = entries /\ call.target = entries
                 THEN "READY" ELSE "DRIFTED"
    /\ UNCHANGED <<entries, generation>>
    /\ Answer(call, "ok")
    /\ unseen' = FALSE
    /\ UNCHANGED <<txnVars, wup, running, awaited>>

Handler(call) ==
    \/ RefuseApply(call)
    \/ FindDrift(call)
    \/ Unreadable(call)
    \/ StartApply(call)
    \/ StartRecover(call)
    \/ RecoverUnread(call)
    \/ Reconcile(call)

FinishCall == FinishApply \/ FinishRecover \/ FailRecover

\* A CLI, another controller or a device reset.
Interfere(t) ==
    /\ Txn!Interfere
    /\ phase # "busy" => table' = t /\ t # table
    /\ unseen' = TRUE
    /\ UNCHANGED <<wup, cacheVars, channelVars>>

\* The Worker dies with everything it was doing.
WorkerDies(writing) ==
    /\ wup' = FALSE
    /\ phase' = "idle"
    /\ IF writing THEN table' \in Tables ELSE UNCHANGED table
    /\ job' = NoJob
    /\ verdict' = "none"
    /\ disturbed' = FALSE
    /\ calls' = {}
    /\ running' = NoCall
    /\ unseen' = TRUE
    /\ entries' = NoJob.previous
    /\ generation' = 0
    /\ wcache' = "UNKNOWN"

WorkerCrash ==
    /\ wup
    /\ WorkerDies(phase = "busy")
    /\ UNCHANGED <<awaited, reply>>

\* A new Worker reads the device into its cache.  A Core that outlived the old
\* one has not compared anything yet.
WorkerStart(watched) ==
    /\ ~wup
    /\ wup' = TRUE
    /\ entries' = table
    /\ generation' = 1
    /\ wcache' = "READY"
    /\ unseen' = watched
    /\ UNCHANGED <<txnVars, channelVars>>

----------------------------------------------------------------------------------
(* Properties *)

\* A READY Worker cache is a copy of the device table, whatever failed before,
\* unless somebody else wrote the table since the Worker looked.
WorkerCacheTruth ==
    Unlocked /\ wcache = "READY" /\ ~unseen => table = entries
==================================================================================
