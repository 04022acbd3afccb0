# ReconfigNet-Sim in TLA+

A verification project for the optical circuit switch (OCS) control stack of
ReconfigNet-Sim: models of the code under `agent/` and of the parts of `targets/`
that start it, TLC configurations that check them on small instances, and
theorems about them checked by TLAPS.

The switch is a P4 program whose OCS permission table holds the pairs
(ingress port, egress port) that may forward. Everything else exists to keep
that table equal to a set of named point-to-point connections: break before
make, one writer at a time, a read back or at least an acknowledgement for
every change, a rollback for every failure, and an honest status.

## Inventory

| Component | Source | State it keeps | Operations |
|---|---|---|---|
| Southbound backends | `ocs_agent/backends/p4app.py`, `bfrt.py`, `base.py` | the device table (external); BFRT also a cache status and a generation | `apply`, `_restore`, `read_pairs`, `device_state` |
| Connection model | `ocs_agent/model.py`, `internal/model/model.go` | `ConnectionSet`, immutable | constructor, `replace`, `delete`, `directed_pairs`, `to_permutation`, `from_permutation` |
| Python Agent Core | `ocs_agent/core.py` | connections, mode, status, revision, cache status, startup gate, lease | lease operations, snapshots, writes, mode changes, recovery, reconciliation, startup |
| Device Worker and client | `ocs_agent/device_worker.py`, `internal/backend/client.go` | Worker: entries, generation, cache status; client: a copy of the last two | `ReadEntries`, `ApplyTransition`, `Recover`, `Reconcile` |
| Go Agent Core | `internal/agent/core.go`, `tree.go` | as the Python Core, plus a commit slot apart from the state lock | as the Python Core |
| HTTP northbound | `ocs_agent/nbi/http.py` | none | GET and POST of mapping, mode, control, recover |
| gRPC and gNMI northbound | `internal/server/*.go` | none | typed RPCs, gNMI Get and Set |
| Execution thread | `ocs_agent/execution.py` | a request queue | the one thread that owns the device session in the split Tofino profile |
| Launchers | `targets/tofino/runtime/launcher.py`, `targets/p4app/main.py`, `cmd/ocs-go-agent` | processes, ownership lock | start, supervise, tear down |
| Configuration | `config.py`, `profile.py`, `config.go`, `device_profile.py` | none | parse, validate |
| Data plane | `targets/p4app/ocs.p4`, `targets/tofino/p4/ocs.p4` | match-action tables | forward |

How they interact. In the monolith profiles (`p4app`, `tofino-monolith-http`) the
Core calls the backend under one `RLock`, which HTTP handler threads, the
reconcile thread and startup share. In `go-split-grpc` the Go Core calls the
Device Worker over a Unix socket: each call has a deadline, the Worker serves
up to four at a time and serialises them with a lock of its own, and a call
whose client gave up still runs. Everywhere the device may be written by others
(the BFRT CLI, another controller, a reset), and only reconciliation notices.

What is hard: partial failure of an update and of its rollback; calls that run
late; caches in three places (Core, Worker, BFRT backend) that move under
different events; restarts of one process while the other lives on; leases that
expire while a write is on the device. `PROJECT.json` lists these hazards line
by line, with the properties that would catch them.

What makes each component correct:

- backend: break before make at every instant, entries shared by both sets never
  touched, a verdict that is true, termination, a rollback only with a cause;
- connection model: what is programmed is a matching; the permutation view is exact;
- cores: a READY cache and a ready status are true; no lost update; no write by
  a client without control; a startup mismatch blocks writes until an explicit
  recovery; drift is reported;
- Worker and Core together: when they agree they are right; a call that was
  overtaken does not undo what overtook it;
- northbound: a request of several operations has the outcome its protocol
  promises, both agents show the same state, and an answer put together from two
  reads never licenses a write its reader has not the data for;
- deployment: the two processes read one file the same way, one launcher at a time
  programs the switch, and teardown ends whatever hangs.

## Modules

| Module | Models | Composes |
|---|---|---|
| `AtomicTransaction` | what `apply` promises: a transaction in one step with the verdicts ok, restored, failed | |
| `DeviceTransaction` | `apply` and `_restore` of both backends, one device request per step | implements `AtomicTransaction` |
| `DeviceTransactionProofs` | its theorems | |
| `ConnectionModel` | `ConnectionSet` and a request that edits a draft | |
| `ConnectionModelProofs` | its theorems | |
| `GnmiRequests` | gNMI paths and payloads, and the operations and views they stand for | extends `ConnectionModel` |
| `Northbound` | the requests and reads of gNMI, `OcsOperations` and HTTP, on the commit slot | extends `GnmiRequests`, conjoins its actions |
| `NorthboundProofs` | theorems about both | |
| `MonolithAgent` | `OcsAgent` with its backend in one process | `AtomicTransaction` |
| `MonolithAgentProofs` | its theorems | |
| `DeviceWorker` | `DeviceBackendService` and its gRPC channel | `AtomicTransaction` |
| `DeviceWorkerProofs` | what one Worker guarantees by itself, step by step | |
| `SplitAgent` | the Go `Agent` and `Client` | extends `DeviceWorker` |
| `SplitAgentProofs` | its theorems | extends `DeviceWorkerProofs` |
| `Configuration` | the Python and the Go configuration loader, and the BFRT port map | |
| `ConfigurationProofs` | that the loaders agree on every file | |
| `Deployment` | the launchers, the Go Agent's process, the execution thread | extends `Configuration` |
| `DeploymentProofs` | its theorems | extends `ConfigurationProofs` |
| `MC_...` | the instances TLC checks | `MC_MonolithAgent` builds its sets with `ConnectionModel` |

### DeviceTransaction

`phase` is the line `apply` has reached: `delete`, `gap`, `insert`, `readback`,
then `done`, or `restore_read` to `restore_verify` after an exception. `todo`
is what the running write loop has left. `Write` takes one entry
(`SEQUENTIAL`, in sorted order) or all (`NATIVE_BATCH`). `WriteFault` is a
refusal, an error or a timeout, after any part of the request was carried out.
`GiveUp` is the `except` clause: to the rollback during the update, to the verdict
`failed` during the rollback. `Gap` is where `p4app.py` raises `NameError` for a
non-zero delay. The table accepts a delete only of present and an insert only of
absent entries; `Interfere` is another writer. `startTable`, `disturbed` and
`faulted` are history for the properties.

Unlike the agents' modules this one takes `previous` either from the table or
from what the caller believes, right or wrong.

### ConnectionModel

`draft` is the set a request is building, `connections` the committed one. Each
action is one operation of a batch; a rejected one abandons the draft. A name made by
`from_permutation` (`conn-<near>-<far>`) is the pair of its ports, and one such
name is among those a client may choose, so that the two kinds can collide. `Mappings` are
the lists of slots a client may send, also too short ones and ones counted from 0;
`PermutationsAreExact` compares those that are `Accepted` with the `Pairings`, the
fixed-point-free involutions.

### GnmiRequests and Northbound

`GnmiRequests` has no variables. A path is a sequence of elements with keys, a
payload is the set of connections or the entry it decodes to, or the value of a
payload that does not decode; `Operations` turns a Set into the deletes, then
the replaces it stands for, and `Get` the paths and the type of a request into what is
shown, each path in a snapshot of its own. Of the tree only the connections are here: the
component and optical-switch subtrees are state that nobody writes, and what they show of
a port is `GoPort` in `Northbound`.

`Northbound` puts these requests on the commit slot. `phase` is where the client's
request or read is, `todo` the operations of a Set still to be carried out, `slot`
the holder of the commit slot. `Set`, `Batch`, `Mapping`, `SetMode` and
`RecoverDeviceState` enter; `Operate` carries out one operation on the draft with
`ConnectionModel`'s own actions; `Refuse`, `Confirm` (nothing to do) and `Program`
are the three ways out of the checks, `Committed` and `Failed` the verdicts;
`Answer` is the second snapshot `OcsOperations` and `POST /ocs_mapping` take for
their reply. `view` is all that is kept of what the client knows: whether its
revision and its connections are the present ones; the answer to a Set adds nothing to it,
having the revision only. `status` and `cached`, whether the cache is READY, move
apart: a recovery that was rolled back is ready without a READY cache, and p4app's cache
may be READY in error. What the device does is left to the agents' modules. Between two calls of an HTTP handler, as between two requests of a
gNMI client, other clients may do anything.

### MonolithAgent

`pending` is the request that holds the `RLock`, so `Unlocked` is the guard of every
handler. A write is four steps: validation with the device read that precedes it
(`Edit`, `SetMode`, `Recover`, `StartReapply`), the call of `backend.apply` (`Program`),
its verdict (`Programmed`), and the handler's reaction (`Committed`, `Aborted`,
`Recovered`, `NotRecovered`, `Started`). The clock (`Tick`), other writers and crashes
come in between, also between the STRICT_DEVICE pre-read and the call. `Admit` is the
pre-read that finds what the agent believes, `FindStale` the one that does not, and
`Escape` the exception nobody handles: an unknown transport or a failing pre-read.

`bcache` is BFRT's own cache status. Every read makes it READY, whatever is read: at
startup, in reconciliation, before a recovery and in a rollback; so does a success, and a
failed rollback makes it UNKNOWN. `Captured` (`_capture_backend_state`) copies it, unless
the startup gate is closed: at a mismatch the backend is READY and the Core must say
DRIFTED all the same. `view` holds what each client has read, `GetPermutation` being the
second half of the torn GET of `/ocs_mapping`. Two variables are history: `unseen`, somebody
wrote the table since the agent last read it, and `overtaken`, somebody wrote it since
the lock was taken.

### DeviceWorker and SplitAgent

`calls` are requests whose handlers wait for the Worker's lock, `running` the one
that holds it: `Start` takes the lock, checks the request and makes the pre-read,
`CallBackend` calls `apply`, and others may write the table in between. `awaited` is the call the client still waits for: `GiveUp`
clears it and the call stays, to run late, unless the server drops it first
(`Drop`). A response carries cache status and generation as the handler left
them; `Answer` sends it only to a client that still waits. `SplitAgent` adds
the Core: `pending` is the holder of the commit slot; leases and snapshots need
only the state lock and go on while a call is out. Slot, validation and the
sending of the call are one step: nothing another step can do falls between
them that the slot or the lock does not exclude, except the expiry of the lease,
which may come just as well after it. The same holds for `captureState` and the
Core's reaction. Renewing a lease is a stutter, since `Expire` may come at any time.
When the Core exits, the launcher stops the Worker (`Exit`); when
the Worker dies, a Core that `Outlives` it may meet the next one. The revision
in a call is history: the code does not send it.

### Configuration and Deployment

A file is a record: its settings (`json`), whether they hold an unknown or deprecated
one, the environment's consistency mode, the capability profile it names, the
connections of the model file, the port map, and `flaws`, checks on other parts of
the files that either language makes. A setting has a legal value, an odd one or is
`Absent`. `LoadFor` is what the launcher makes of it, `Load` what the Go Agent does.

`Deployment` has two launchers on one switch. `phase` is the line `run()` or `main()`
has reached, `todo` what its `finally` clause has left to do, in the order
`Teardown` gives. `call`, `queue`, `busy` and `shut` are the handler threads and the
executor of `DedicatedThreadBackend`: a handler `Enter`s the lock of its service and
submits, the one southbound thread `Take`s and finishes, `close()` goes through
the same queue, `ShutExecutor` refuses what comes later and `JoinExecutor` waits
for what came before. `Exit` waits for threads as the interpreter does. `Kill`
takes a launcher away and leaves its Go Agent. A p4app container has one launcher
and no lock.

## Runs

| Run | Question | Result |
|---|---|---|
| `transaction` | break before make, preserved entries, true verdicts, refinement, termination, with partial batches and another writer | holds |
| `transaction_delay` | is a rollback always explained on p4app? | violated, finding 1 |
| `connections` | are matchings kept by gNMI Sets, batches and mappings, is the outcome the one asked for, are views exact in both agents, round trips neutral, answers safe to write from, the slot released? | holds |
| `monolith_bfrt` | cache, status, startup gate, adoption, drift over bfrt, CACHED_SYNC, REQUIRE_MATCH | holds |
| `monolith_p4app` | two clients, STRICT_DEVICE, REAPPLY_DESIRED: lost updates, control, a pre-read that finds every drift from before the lock was taken, status | holds |
| `monolith_rollback` | is a READY cache true on p4app? | violated, finding 2 |
| `monolith_strict` | does STRICT_DEVICE pre-read on bfrt? | violated, finding 3 |
| `split_sync` | Worker cache, agreement of Core and Worker, fencing of overtaken Applies and drift, with overlapping and late calls, both modes, REAPPLY_DESIRED | holds |
| `split_strict` | two clients, STRICT_DEVICE, a Core that outlives its Worker: lost updates, a pre-read that finds every drift from before it, agreement | holds |
| `split_restored` | is ready true after a failed recovery? | violated, finding 4 |
| `split_late` | are overtaken Recovers fenced? | violated, finding 5 |
| `deployment` | do both loaders agree, is every update under the ownership lock, is the owner alone, does teardown end, with failures at every step and a kill? | holds |

Findings, numbered as in `PROJECT.json`:

1. `p4app.py` never imports `time`: every update with a non-zero `delay_us` is
   rolled back.
2. With p4app a rollback that failed leaves the cache READY, and the next write is
   planned against it.
3. `tofino-monolith-http` skips the STRICT_DEVICE pre-read: the Core leaves it to a
   backend that does not do it.
4. A recovery that failed and was rolled back makes the Go status ready, although the
   table it restored is the drifted one.
5. `Recover` compares nothing, so one that runs late undoes a commit.

More behaviours are in the models, and no run is spent on them:

- A transport the backend does not know leaves the Python status at updating
  (`Escape`). BFRT's own cache status is READY after every read, also of a drifted
  device, and the next answer of the Core copies it over what reconciliation found
  (`Captured`): it stays right because that answer comes with a verdict about the device.
  The Go Core shows ports as CONNECTED while a recovery of a drifted device is out, because it derives them
  from the status alone.
- `GetPermutation` takes the revision after the pairing, so a commit in between gives an
  old pairing with the new revision: `AnswersAreSafeToWriteFrom` is stated for the
  other answers. (The replies of `OcsOperations` show the state at the time of the
  reply, which may be another client's, but they show it whole. A gNMI Get reads the
  tree once for each of its paths, so its parts may belong to different revisions; a client
  that took its revision before is refused.)
- The monolith's handler threads are daemons and go on after the lock is released.
  A `close()` that raises leaves the executor running and the lock is released
  nevertheless. `WritesAreOwned` is stated for the rest.
- The Go Agent of a killed launcher calls the next launcher's Worker through the
  same socket path, and a new Agent may reapply the YAML before it finds the port
  taken (`GoListen`); `OwnerIsAlone` counts kills for that reason. p4app does
  not notice that its Go Agent has exited.
- The loaders differ on files that leave something out or have something to spare, which is
  why `LoadersAgree` asks for the same values where both accept a file, and for Go's consent
  only to a `Complete` one. Python has defaults for most settings, Go for one; Python
  ignores `bidirectional` beside a nested config, which Go reads; a config that is `null`
  is refused by Python and no config for Go. Only Python checks for duplicate gNMI models,
  empty encodings and the list of capabilities (`PythonSees`). Only Go checks the mode,
  draft areas, port indices, the name of the capability file and the type of
  `enable_debugger`, and only Go refuses unknown fields at the root of the model file,
  beside its components and anywhere in the capability file (`GoSees`). Unknown fields
  of the JSON file (`extra`), of a component or of a connection both refuse (`BothSee`).

### Bounds

- `DeviceTransaction`: four ports and three configurations, sparse, grown and
  moved: enough for an entry that stays, one that goes, one that comes and one that
  takes a port from another. One foreign entry that no configuration holds.
  All-to-all, p4app and CACHED_ACK (no readback) are left to the theorems.
- `Northbound`: four ports, which have three full matchings; all 256 mappings, those with a
  slot missing and those counted from 0; two
  names, one of which is also one `from_permutation` makes; five targets of batches
  and other clients; Sets of at most two deletes and two replaces, enough for any two
  operations to touch the same connection, with replaces that are good, that collide,
  and that do not decode.
- `MonolithAgent`: three connection sets, two of which are the same light path under
  different names; a table no set asks for; two commits per process
  (`MaxRevision`, three in `monolith_bfrt`), two leases; one client, or two where
  clients interfere with each other.
- `DeviceWorker` and `SplitAgent`: two calls at a time in `split_sync` (a late call and
  the call that overtakes it; the Worker has four threads), one in `split_strict`,
  whose subject is the clients; `MaxGeneration` bounds the writes of one Worker; `MayWrite` stops the
  Core from sending a write for which no generation is left. Two connection sets.
- `Deployment`: two launchers, the least that can compete; two handler threads, one at
  work and one that waits; one kill (`MaxKills`); files that differ from a good one in
  one setting, in mode and environment, in the entries, in one flaw or in the ports.

Deadlock is checked in every run but `deployment`, where the end of all processes
is the end of the behaviour.

### Fairness

- `DeviceTransaction`: weak fairness of `Step`: the thread that runs `apply` is
  scheduled, and the device is assumed to answer every call or to fail it. The code
  does not force it: `p4app.py` gives its calls no deadline. A device that swallows a
  call hangs `apply`, and with it whoever waits for the lock.
- `MonolithAgent`: the same for `Program`, `Programmed` and `Handle`; strong fairness of
  `Reconcile`, since the reconcile thread waits for the lock with everybody else
  and is served in the end. Nothing is assumed of clients, the clock, startup or
  other writers.
- `SplitAgent`: weak fairness of responses, the client's deadlines and the Worker's
  handlers, on the same assumption; strong fairness of `ReconcileDeviceState`, which waits
  in the queue of a Go channel.
- `Northbound`: weak fairness of `ServerStep` and of the other client's commit: a handler
  that has started goes on, under the same assumption about the device (the Go Core's calls
  to the Worker have deadlines of their own). Nobody has to send a request.
- `Deployment`: weak fairness of the steps of teardown and of the poll that notices the
  Go Agent's exit, which are all the main thread does; of the southbound thread and
  the handlers at the lock and at the device, which is again assumed to answer. Nothing is
  assumed of the Go Agent, which may hang, nor of startup.

`transaction`, `connections`, `monolith_bfrt`, `split_sync` and `deployment` check
under these assumptions, for the sake of their liveness properties; safety does not depend on them.

## Proofs

`DeviceTransactionProofs` holds for every set of ports, every family of
configurations (all-to-all included), both backends and every foreign writer,
from the assumptions on the constants alone:

| Theorem | Property |
|---|---|
| `TypeCorrect` | `TypeOK` |
| `NeverMixed` | `BreakBeforeMake` |
| `SharedEntriesStay` | `UnchangedEntriesPreserved` |
| `VerdictsAreTrue` | `VerdictIsTruth` |
| `RollbacksAreExplained` | `RollbackOnlyAfterFault`, for backends that serve the gap (`GapIsServed`), which p4app with a non-zero delay does not: that is finding 1 |
| `Refinement` | `ImplementsAtomic` |

None of the safety properties is inductive: each speaks of the table, and what the
table holds depends on where `apply` is. The invariant `Inv` (theorem
`Inductive`) says so phase by phase: what an undisturbed update has deleted and
inserted so far in terms of `previous`, `target` and `todo`; what a rollback
has read (`current`), still has to write, and leaves alone. The proof has
one lemma per action. The refinement maps the running transaction to its start:
the abstract table is the table at the call until the verdict, when the verdict's
meaning (`VerdictIsTruth`) is what the abstract step needs.

`ConnectionModelProofs` holds for every number of ports, every set of names and every
initial configuration the constructor accepts:

| Theorem | Property |
|---|---|
| `TypeCorrect` | `TypeOK` |
| `AlwaysMatching` | `PairsFormMatching` |
| `PermutationsAlwaysExact` | `PermutationsAreExact` |
| `RoundTrips` | `PermutationRoundTrip` |

`PairsFormMatching` speaks of device entries, which do not say which names are
taken, so the inductive invariant is that both sets passed the constructor
(`Constructed`); `WellFormedIsMatching` turns that into the property. The last two
rest on `FromPermutationIsExact` and `ToPermutationIsExact`, facts about the operators,
and assume `RejectedIsNoValue`: the value that stands for a raised exception is neither
a set of connections nor a mapping. TLC gets that from `Rejected` being a model
value, and cannot evaluate it as an assumption.

`NorthboundProofs` holds for every number of ports, every set of names and every list
of gNMI requests, with any number of deletes and replaces on any paths:

| Theorem | Property |
|---|---|
| `ServerTypeCorrect` | `ServerTypeOK` |
| `ServerKeepsMatching` | `PairsFormMatching` |
| `SetsAreLastWriterWins` | `SetIsLastWriterWins` |
| `AnswersAreSafe` | `AnswersAreSafeToWriteFrom` |
| `ServerPermutationsExact` | `PermutationsAreExact`, from `RejectedIsNoValue` |
| `ServerRoundTrips` | `PermutationRoundTrip`, from `RejectedIsNoValue` |
| `TreesAlwaysAgree` | `TreesAgree` |
| `ConfigurationsRoundTrip` | `ConfigRoundTrip`, from `SentinelsAreNoValues` |

The inductive invariant (`ServerInvariance`) has five parts: types; both sets are `Sound`
(the constructor took them, and each connection is a name and two ports); the
slot belongs to whom the phase says and the draft differs from the committed set only
while it is held; a Set is after `k` of its operations, the rest of which are in `todo`,
and its draft is `After` those `k`; a view whose revision is the present one holds the
present connections unless the answer is still being put together. `After` is `Outcome`
read operation by operation, so that a step adds one operation to it; that all of
them together are the outcome the request asks for (`OutcomeIsAfter`) needs deletes
before replaces. The names in paths are the client's, not members of `Names`, so
`ConnectionModel`'s theorems do not apply as they are: the lemmas below them are stated for
sets whose ports are in the inventory (`Placed`), whatever their names.
`SentinelsAreNoValues` says of `Absent`, `Malformed` and `Rejected` that they are none of the
records, lists and sets they are told from: model values to TLC, which cannot evaluate
a statement about all values.

`MonolithAgentProofs` holds for every set of clients, requests, configurations and
device tables, both backends, all consistency modes and both startup policies:

| Theorem | Property |
|---|---|
| `TypeCorrect` | `TypeOK` |
| `StatusIsTrue` | `StatusTruth` |
| `CacheIsTrue` | `CacheTruth`, for `Backend = "bfrt"`; finding 2 is p4app |
| `GateHolds` | `StartupGate` |
| `WriterHolds` | `WriterIsHolder` |
| `NothingAdopted` | `NoSilentAdoption` |
| `NoLostUpdate` | `CommitsFromKnownState` |
| `StrictWritesInSync` | `StrictWritesStartInSync`, for `Backend = "p4app"`; finding 3 is BFRT |

Its invariant adds to the properties who holds the lock (`LockHeld`), what the
request in flight has checked and nobody can change under it (`InFlight`), what is known of
the table from the read that precedes a transaction to its verdict, if nobody else writes it
(`DeviceKnown`), that a pre-read is good until the call of `apply` unless it was `overtaken`
(`InSync`), and that within a process a revision names one state (`Views`). `Honest` is
`StatusTruth`, with `CacheTruth` for BFRT: neither can be kept without the other.

`DeviceWorkerProofs` and `SplitAgentProofs` hold for every set of clients, calls, tables and
bounds, in every consistency mode:

| Theorem | Property |
|---|---|
| `TypeCorrect` | `TypeOK` |
| `WorkerCacheIsTrue` | `WorkerCacheTruth` |
| `AgreementHolds` | `AgreementIsTruth`, whether the Core may outlive its Worker or not |
| `AppliesFenced` | `AppliesAreFenced`, if Core and Worker end together (`~Outlives`) |
| `StrictAppliesInSync` | `StrictWritesStartInSync` |
| `NoLostUpdate` | `CommitsFromKnownState` |

The Worker's half (`WorkerInv`) tells calls apart, ties the lock to a call that
`ApplyTransition` accepted, and the cache to the table through a write, the step between
the pre-read and the call of `apply` included. The Core's half says
what the copies are worth: the call the client waits for is the request in the slot
(`Link`); everything sent before a commit carries a generation of before that
commit (`Fence`, which is where a Worker that restarts under its Core would start to count
anew); a READY Core with the Worker's generation wants what the Worker has (`Agreed`),
and so does the Core that the response on its way would make (`AgreedReply`); a snapshot with
the current revision is the current state (`Knowledge`). A Core that meets a Worker
it has not started with knows nothing of it (`Stranger`), until a response tells.

`ConfigurationProofs` proves of any file whatsoever that the two loaders agree on it
(`EveryFileAgrees`), and `DeploymentProofs`, for any number of launchers and handlers and
every number of kills:

| Theorem | Property |
|---|---|
| `TypeCorrect` | `TypeOK` |
| `OwnerServesAlone` | `OwnerIsAlone` |
| `WritesNeedTheLock` | `WritesAreOwned` |
| `LoadersAlwaysAgree` | `LoadersAgree` |

`EveryFileAgrees` and `LoadersAlwaysAgree` have hypotheses: that a connection's flag is a
Boolean or left out in every file (`Flags`: of another type, Go's typed decoder and
Python's `is not True` refuse it), that `Absent` is no startup policy and `Rejected` no
configuration. The others have none. `OwnerIsAlone` is about launchers whose files name the
same lock and the same socket path: the model has one of each. The invariant says who owns the switch
at each phase (`Ownership`), that `todo` is one of the nine suffixes of the `finally`
clause (`Stages`), that the threads of a process end with it (`Quiet`), that one thread
uses the device (`OneThread`), whose path the socket is (`Serving`), that a Go Agent lives under
a launcher that waits for it (`Attended`), and how `close()`, the shutdown of the executor and
the release of the lock follow each other (`Closing`).

Assumptions on the constants are named and evaluated by TLC in every run. Those the proofs
added say what the code has by construction: a request carries lists (`SetsAssumption`), a
connection has a name (`AbsentAssumption`), the names of threads and processes differ and
a port map is a list of pairs (`DeploymentAssumption`), a started Worker has
generation 1, so that there is room for it (`MaxGeneration` in `WorkerAssumption`).

The proofs also corrected the models. Guards of a `CASE` that overlap leave open which arm
is taken, where the code takes the first: the port status of both trees, `ConnectionStatus`, the
selection of a gNMI subtree, the value of a setting in Go and BFRT's cache status are
`IF` chains or have disjoint guards now. `TypeOK` of `DeviceWorker` failed for
`MaxGeneration = 0`. An inductive `Link` had to say that the response to a
reconciliation is never a refusal.

Only model-checked: `ApplyTerminates`, `DriftIsReported` (in both agents), `SlotIsReleased` and
`TeardownEnds`, since liveness under fairness is out of the prover's reach; and
`ConnectionModel`'s `TypeOK` in the states of `Northbound`, which depends on clients choosing
names from `Names` only (it is proved for `ConnectionModel` itself).

## Not modelled

- Request ids, timestamps, timings, drift counters: no decision depends on them.
- Parsing and formatting of HTTP and gRPC messages, JSON and YAML; authentication
  (none); Capabilities and the mapping of errors to codes. The lease RPCs are in
  `MonolithAgent` and `SplitAgent` by their effect on the Core.
- `device_profile.py`, which feeds the scripts that fill other tables, and those
  scripts; `profile.py`'s rendering of a capability profile.
- The P4 programs; the Mininet topology; clients, benchmarks, CI, generated code.
- The diagnostics of the execution thread, which only log; BFRT's `audit_hardware`.
- Go's `Snapshot` expires a lease under a read lock (two writers of the same
  zero values); lease expiry is one step here.

## Plan

Written so far, in the order of importance: the device transaction, the connection
model, the monolithic agent, the Worker and the split agent, the northbound interfaces, the
loaders and the deployment, each with proofs of its safety properties. Next, in this order:

1. The agents promise more than their invariants: an abstract agent (connections, mode,
   revision, one writer) that `MonolithAgent` and `SplitAgent` both implement, stated as a
   refinement, checked and proved with the invariants at hand.
2. `ServerSpec` implies `ConnectionModel`'s `Spec` for clients that choose names from
   `Names`, as a refinement in place of repeated invariants.
3. The two P4 programs on the permission table: the small-step consequence of break
   before make for packets.
