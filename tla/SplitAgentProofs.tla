---------------------------- MODULE SplitAgentProofs ----------------------------
(***************************************************************************)
(* The Go Core and the Worker together, for every set of clients, edits,   *)
(* tables and calls.  Each of the two keeps a copy of what the other knows *)
(* (entries and connections, generation and cgen, the caches), and calls   *)
(* that were given up run late: the inductive invariant says how far the   *)
(* copies can be apart.                                                    *)
(***************************************************************************)
EXTENDS SplitAgent, DeviceWorkerProofs

----------------------------------------------------------------------------------
(* The inductive invariant *)

\* The commit slot is held as long as the client waits.
SlotHeld ==
    /\ awaited = 0 <=> pending.kind = "none"
    /\ pending.kind = "startup" => ~up
    /\ pending.kind \notin {"none", "startup"} => up
    /\ pending.kind \in {"edit", "mode", "recover"} => revision < MaxRevision
    /\ ~up => connections = InitialConfig /\ mode = "ocs" /\ revision = 0
    /\ ~Alive => Outstanding = {}

\* What the device should hold once the request in the slot is answered with "ok".
Desired ==
    IF pending.kind \in {"edit", "mode"} THEN PairsIn(pending.mode, pending.config)
    ELSE CurrentPairs

\* The RPC a request is made of.
RPC(request) ==
    IF request.kind \in {"edit", "mode", "startup"} THEN "apply" ELSE request.kind

\* The call the client waits for is the one of the request in the slot.
Link ==
    /\ \A c \in Outstanding : c.id = awaited =>
        /\ c.target = Desired
        /\ c.kind = RPC(pending)
        /\ pending.kind \in {"edit", "mode"} => c.expected = CurrentPairs
    /\ reply # NoReply /\ pending.kind = "reconcile" => reply.outcome = "ok"

\* A Core and a Worker that end together: whatever was sent before a commit carries a
\* generation of before that commit.
Fence ==
    ~Outlives /\ wup =>
        /\ Alive => cgen <= generation
        /\ \A c \in Outstanding :
            /\ c.generation <= generation /\ c.revision <= revision
            /\ c.revision < revision => c.generation < generation
        /\ reply # NoReply /\ reply.outcome = "ok" /\ pending.kind # "reconcile" =>
            \A c \in Outstanding : c.generation < generation
        /\ reply # NoReply => reply.generation <= generation

\* The Worker is a new one, of which the Core that outlived the old one knows nothing.
Stranger == Outstanding = {} /\ unseen

\* A Core with a READY cache and the Worker's generation is ready over the entries
\* that it wants.
Agreed ==
    up /\ wup /\ pending.kind = "none" /\ ccache = "READY" =>
        \/ Stranger
        \/ /\ cgen <= generation
           /\ cgen = generation /\ status = "ready" => entries = CurrentPairs

\* The same of what the response on its way will make the Core believe.
AgreedReply ==
    wup /\ reply # NoReply =>
        \/ Stranger
        \/ /\ reply.generation <= generation
           /\ reply.cache = "READY" /\ reply.generation = generation =>
                /\ reply.outcome = "ok" => entries = Desired
                /\ reply.outcome = "restored" /\ pending.kind # "startup" =>
                    entries = CurrentPairs

\* A client that has read the revision knows the state of that revision, and so does
\* the one whose write holds the slot.
Knowledge ==
    /\ \A c \in Clients : view[c].alive =>
        /\ view[c].revision <= revision
        /\ view[c].revision = revision => view[c].config = connections /\ view[c].mode = mode
    /\ pending.kind \in {"edit", "mode"} =>
        pending.client \in Clients /\ view[pending.client].revision = revision

Inv ==
    /\ TypeOK /\ WorkerInv
    /\ SlotHeld /\ Link /\ Fence /\ Agreed /\ AgreedReply /\ Knowledge

----------------------------------------------------------------------------------
(* What a step of the Worker can do to the copies *)

\* A comparison that is answered.
Compares(call) ==
    /\ call.kind = "reconcile"
    /\ Answer(call, "ok")
    /\ wcache' = "READY" => call.target = entries
    /\ UNCHANGED <<entries, generation>>

\* A write that fails, and one that is put back.
Fails(call) ==
    /\ call.kind # "reconcile"
    /\ \/ Answer(call, "refused") \/ Answer(call, "failed")
       \/ /\ Answer(call, "restored")
          /\ wcache' = "READY" => call.kind = "apply" /\ call.expected = entries
    /\ UNCHANGED <<entries, generation>>

\* A write that commits.
Commits(call) ==
    /\ call.kind # "reconcile"
    /\ Answer(call, "ok")
    /\ entries' = call.target
    /\ generation' = generation + 1

\* The client waits for what it waited for.
LEMMA WorkerLeavesClient == ASSUME WorkerMoves PROVE awaited' = awaited
BY DEF WorkerMoves, Handler, RefuseApply, FindDrift, Unreadable, RecoverUnread, Reconcile,
   StartApply, StartRecover, Start, Drop, CallBackend, Programmed, channelVars, FinishCall, FinishApply,
   FinishRecover, FailRecover, Finish, Interfere, WorkerCrash, WorkerStart

\* A Worker that goes on ends at most one call, and does not become a stranger's.
LEMMA WorkerEffects ==
    ASSUME WorkerInv, WorkerMoves, wup, wup'
    PROVE  /\ Stranger => Stranger'
           /\ \/ UNCHANGED <<entries, generation, reply>>
              \/ \E call \in Outstanding : Compares(call) \/ Fails(call) \/ Commits(call)
<1> DEFINE Effect == \/ UNCHANGED <<entries, generation, reply>>
                     \/ \E call \in Outstanding : Compares(call) \/ Fails(call) \/ Commits(call)
<1>1. ASSUME NEW call \in calls, Handler(call) PROVE Effect
  <2>1. call \in Outstanding
    BY DEF Outstanding
  <2>2. CASE StartApply(call) \/ StartRecover(call)
    BY <2>2, StartsRunning
  <2>3. CASE Unreadable(call)
    BY <2>3 DEF Unreadable, cacheVars
  <2>4. CASE RefuseApply(call) \/ FindDrift(call) \/ RecoverUnread(call)
    BY <2>1, <2>4 DEF RefuseApply, FindDrift, RecoverUnread, Fails, cacheVars
  <2>5. CASE Reconcile(call)
    BY <2>1, <2>5 DEF Reconcile, Compares
  <2> QED
    BY <1>1, <2>2, <2>3, <2>4, <2>5 DEF Handler
<1>2. ASSUME FinishCall PROVE Effect
  <2>1. running \in Outstanding
    BY <1>2, FinishReleases DEF Outstanding
  <2>2. Programs /\ running # NoCall /\ phase = "done" /\ verdict \in {"ok", "restored", "failed"}
    BY <1>2, FinishReleases DEF WorkerInv, WorkerTypeOK, Served, Txn!AtomicTypeOK, Txn!Verdicts
  <2>3. CASE FinishApply
    <3>1. running.kind = "apply" /\ running.expected = entries
      BY <2>2, <2>3 DEF FinishApply, Programs, Accepted
    <3>2. Answer(running, verdict)
      BY <2>3 DEF FinishApply, Finish
    <3>3. IF verdict = "ok" THEN entries' = running.target /\ generation' = generation + 1
          ELSE UNCHANGED <<entries, generation>>
      BY <2>3 DEF FinishApply
    <3>4. Fails(running) \/ Commits(running)
      BY <2>2, <3>1, <3>2, <3>3 DEF Fails, Commits
    <3> HIDE DEF Fails, Commits
    <3> QED
      BY <2>1, <3>4
  <2>4. CASE FinishRecover
    <3>1. Commits(running)
      BY <2>4 DEF FinishRecover, Finish, Commits
    <3> QED
      BY <2>1, <3>1
  <2>5. CASE FailRecover
    <3>1. Fails(running)
      BY <2>2, <2>5 DEF FailRecover, Finish, Fails
    <3> QED
      BY <2>1, <3>1
  <2> QED
    BY <1>2, <2>3, <2>4, <2>5 DEF FinishCall
<1>3. ASSUME NEW call \in calls, Drop(call) PROVE Effect
  BY <1>3 DEF Drop, cacheVars
<1>4. ASSUME CallBackend \/ Programmed \/ \E t \in ForeignTables : Interfere(t) PROVE Effect
  <2>1. UNCHANGED <<entries, generation, reply>>
    BY <1>4 DEF CallBackend, Programmed, Interfere, cacheVars, channelVars
  <2> QED
    BY <2>1
<1>5. ~WorkerCrash /\ \A watched \in BOOLEAN : ~WorkerStart(watched)
  BY DEF WorkerCrash, WorkerDies, WorkerStart
<1>6. Effect
  BY <1>1, <1>2, <1>3, <1>4, <1>5 DEF WorkerMoves
<1>7. ASSUME Stranger PROVE Stranger'
  <2>1. Outstanding' = {} /\ calls = {} /\ running = NoCall /\ unseen
    BY <1>7, CallsShrink DEF Stranger, Outstanding
  <2>2. ~FinishCall /\ ~Programmed /\ ~CallBackend
    BY <2>1, FinishReleases DEF WorkerInv, Served, CallBackend, Programmed, Txn!Commit, Txn!Abort, Txn!Fail,
       Txn!Finish
  <2>3. \E t \in ForeignTables : Interfere(t)
    BY <1>5, <2>1, <2>2 DEF WorkerMoves
  <2> QED
    BY <2>1, <2>3 DEF Interfere, Stranger
<1> QED
  BY <1>6, <1>7

----------------------------------------------------------------------------------
(* The steps of the Core *)

\* The device entries of any state the Core can be in.
LEMMA PairsTyped == ASSUME NEW m, NEW config \in Configs PROVE PairsIn(m, config) \in Tables
BY CoreAssumption DEF PairsIn

\* What the Core counts with.
LEMMA CountsTyped ==
    ASSUME TypeOK
    PROVE  /\ revision \in Nat /\ cgen \in Nat /\ generation \in Nat
           /\ MaxRevision \in Nat /\ MaxGeneration \in Nat
           /\ CurrentPairs \in Tables /\ Desired \in Tables
<1>1. /\ revision \in Nat /\ cgen \in Nat /\ generation \in Nat
      /\ MaxRevision \in Nat /\ MaxGeneration \in Nat
  BY CoreAssumption, WorkerAssumption DEF TypeOK, WorkerTypeOK
<1>2. CurrentPairs \in Tables
  BY PairsTyped DEF TypeOK, CurrentPairs
<1>3. Desired \in Tables
  BY <1>2, PairsTyped DEF TypeOK, Slots, Desired
<1> QED
  BY <1>1, <1>2, <1>3

\* Leases and reads.
Looks == Expire \/ \E c \in Clients : Acquire(c) \/ ReadSnapshot(c)

\* A request takes the slot and its call is sent.
Asks ==
    /\ SlotFree
    /\ pending' \in Slots /\ pending'.kind \in {"edit", "mode", "recover", "reconcile"}
    /\ Send(RPC(pending'), CurrentPairs, Desired', cgen, revision)
    /\ pending'.kind # "reconcile" => revision < MaxRevision
    /\ pending'.kind \in {"edit", "mode"} =>
        pending'.client \in Clients /\ view[pending'.client].revision = revision
    /\ status' \in {status, "updating"}
    /\ UNCHANGED <<up, connections, mode, revision, gate, driftError, clientVars, holder, view>>

\* The Worker, its clients' channel and its device, while the Core does nothing.  A
\* Worker starts beside a Core only where the Core outlives one.
Works ==
    /\ WorkerMoves
    /\ ~wup /\ wup' => (Alive => Outlives) /\ unseen' = Alive
    /\ UNCHANGED coreVars

\* Programming a set of connections is an Apply from the current ones.
LEMMA ProgramAsks ==
    ASSUME TypeOK, NEW c \in Clients, Authorized(c), NEW request \in Slots,
           request.kind \in {"edit", "mode"}, request.client = c, Program(request)
    PROVE  Asks
<1>1. pending' = request /\ status' = "updating"
      /\ UNCHANGED <<up, connections, mode, revision, gate, driftError, clientVars, holder, view>>
  BY DEF Program
<1>2. RPC(pending') = "apply"
  BY <1>1 DEF RPC
<1>3. Desired' = PairsIn(request.mode, request.config)
  BY <1>1 DEF Desired
<1>4. Send(RPC(pending'), CurrentPairs, Desired', cgen, revision)
  BY <1>2, <1>3 DEF Program
<1>5. SlotFree /\ view[c].revision = revision /\ revision < MaxRevision
  BY DEF Authorized
<1> QED
  BY <1>1, <1>4, <1>5 DEF Asks

\* Every step is one of these.
LEMMA Steps ==
    ASSUME TypeOK, [Next]_vars
    PROVE  \/ UNCHANGED vars
           \/ Looks \/ Asks \/ Respond \/ Unanswered
           \/ StartMatch \/ StartMismatch \/ StartReapply \/ Exit
           \/ Works
<1> DEFINE Kind == \/ UNCHANGED vars
                   \/ Looks \/ Asks \/ Respond \/ Unanswered
                   \/ StartMatch \/ StartMismatch \/ StartReapply \/ Exit
                   \/ Works
<1>1. ASSUME NEW c \in Clients, NEW r \in Requests, Edit(c, r) PROVE Asks
  <2> DEFINE target == Target[r][connections]
             request == [kind |-> "edit", config |-> target, mode |-> mode, client |-> c]
  <2>1. target \in Configs
    BY <1>1, CoreAssumption DEF Edit, TypeOK
  <2>2. request \in Slots
    BY <2>1 DEF Slots, TypeOK
  <2>3. Authorized(c) /\ Program(request)
    BY <1>1 DEF Edit
  <2> QED
    BY <2>2, <2>3, ProgramAsks
<1>2. ASSUME NEW c \in Clients, NEW m \in Modes, SetMode(c, m) PROVE Asks
  <2> DEFINE request == [kind |-> "mode", config |-> connections, mode |-> m, client |-> c]
  <2>1. request \in Slots
    BY CoreAssumption DEF Slots, TypeOK
  <2>2. Authorized(c) /\ Program(request)
    BY <1>2 DEF SetMode
  <2> QED
    BY <2>1, <2>2, ProgramAsks
<1>3. ASSUME NEW c \in Clients, RecoverDeviceState(c) PROVE Asks
  <2>1. /\ pending' = [kind |-> "recover", config |-> connections, mode |-> mode, client |-> c]
        /\ SlotFree /\ revision < MaxRevision /\ status' = "updating"
        /\ Send("recover", CurrentPairs, CurrentPairs, cgen, revision)
        /\ UNCHANGED <<up, connections, mode, revision, gate, driftError, clientVars, holder, view>>
    BY <1>3 DEF RecoverDeviceState, Authorized
  <2>2. Desired' = CurrentPairs /\ RPC(pending') = "recover"
    BY <2>1 DEF Desired, CurrentPairs, RPC
  <2>3. pending' \in Slots /\ pending'.kind = "recover"
    BY <2>1 DEF Slots, TypeOK
  <2> QED
    BY <2>1, <2>2, <2>3 DEF Asks
<1>4. CASE ReconcileDeviceState
  <2>1. /\ pending' = [Free EXCEPT !.kind = "reconcile"] /\ SlotFree
        /\ Send("reconcile", CurrentPairs, CurrentPairs, cgen, revision)
        /\ UNCHANGED <<up, connections, mode, status, revision, gate, driftError, clientVars,
                       holder, view>>
    BY <1>4 DEF ReconcileDeviceState, stateVars
  <2>2. pending' \in Slots /\ pending'.kind = "reconcile"
    BY <2>1, CoreAssumption DEF Slots, Free
  <2>3. Desired' = CurrentPairs /\ RPC(pending') = "reconcile"
    BY <2>1, <2>2 DEF Desired, CurrentPairs, RPC
  <2> QED
    BY <2>1, <2>2, <2>3 DEF Asks
<1>5. ASSUME WorkerStep \/ Environment, UNCHANGED coreVars PROVE Works
  <2>1. Alive \in BOOLEAN
    BY DEF TypeOK, Alive
  <2>2. WorkerMoves
    BY <1>5, <2>1 DEF WorkerMoves, WorkerStep, Environment
  <2>3. CASE WorkerStep \/ (\E call \in calls : Drop(call)) \/ (\E t \in ForeignTables : Interfere(t))
             \/ WorkerCrash
    <3>1. wup' => wup
      BY <2>3 DEF WorkerStep, Handler, RefuseApply, FindDrift, Unreadable, RecoverUnread, Reconcile,
         StartApply, StartRecover, Start, Drop, CallBackend, Programmed, FinishCall, FinishApply,
         FinishRecover, FailRecover, Finish, Interfere, WorkerCrash, WorkerDies
    <3> QED
      BY <1>5, <2>2, <2>3, <3>1 DEF Works
  <2>4. CASE (Alive => Outlives) /\ WorkerStart(Alive)
    BY <1>5, <2>2, <2>4 DEF Works, WorkerStart
  <2> QED
    BY <1>5, <2>3, <2>4 DEF Environment
<1>6. CASE Next
  <2>1. ASSUME NEW c \in Clients, ClientStep(c) PROVE Looks \/ Asks
    BY <1>1, <1>2, <1>3, <2>1 DEF ClientStep, Looks
  <2>2. Expire => Looks
    BY DEF Looks
  <2> HIDE DEF Looks, Asks, Works
  <2> QED
    BY <1>4, <1>5, <1>6, <2>1, <2>2 DEF Next
<1> QED
  BY <1>6

\* A response frees the slot and leaves its news with a Core that runs.
LEMMA ResponseFrees ==
    ASSUME Respond \/ Unanswered
    PROVE  /\ pending' = Free /\ awaited' = 0 /\ reply' = NoReply /\ up'
           /\ Receive \/ GiveUp
           /\ UNCHANGED <<txnVars, wup, cacheVars, calls, running, unseen, holder>>
           /\ Outstanding' = Outstanding
           /\ Respond => reply # NoReply /\ ccache' = reply.cache /\ cgen' = reply.generation
<1>1. CASE Respond
  <2>1. Capture /\ up'
    BY <1>1 DEF Respond, Committed, Recovered, TransitionFailed, Reconciled, Started
  <2> QED
    BY <1>1, <2>1 DEF Capture, Receive, Outstanding
<1>2. CASE Unanswered /\ ~Respond
  BY <1>2 DEF Unanswered, GiveUp, Outstanding
<1> QED
  BY <1>1, <1>2

\* The start of a Core changes nothing of the Worker but for a call it may send.
LEMMA StartSends ==
    ASSUME TypeOK, WorkerInv, SlotHeld, StartMatch \/ StartMismatch \/ StartReapply
    PROVE  /\ ~up /\ wup /\ pending.kind = "none" /\ awaited = 0 /\ reply = NoReply /\ reply' = NoReply
           /\ Outstanding = {} /\ revision = 0 /\ CurrentPairs = PairsOf[InitialConfig]
           /\ ccache' = wcache /\ cgen' = generation
           /\ UNCHANGED <<txnVars, wup, cacheVars, running, unseen,
                          connections, mode, revision, driftError, holder, view>>
           /\ status' \in {"ready", "error", "updating"} /\ gate' \in BOOLEAN
<1>1. Fresh
  BY DEF StartMatch, StartMismatch, StartReapply
<1>2. ~Alive /\ wup
  BY <1>1 DEF Fresh
<1>3. ~up /\ pending.kind = "none" /\ awaited = 0 /\ Outstanding = {} /\ revision = 0
      /\ connections = InitialConfig /\ mode = "ocs"
  BY <1>2 DEF SlotHeld, Alive, TypeOK, Slots
<1>4. reply = NoReply
  BY <1>3 DEF WorkerInv, Replies
<1>5. CurrentPairs = PairsOf[InitialConfig]
  BY <1>3 DEF CurrentPairs, PairsIn
<1>6. UNCHANGED <<txnVars, wup, cacheVars, running, unseen, reply>>
  BY DEF StartMatch, StartMismatch, StartReapply, Send, workerVars, channelVars
<1>7. status' \in {"ready", "error", "updating"} /\ gate' \in BOOLEAN
  BY DEF StartMatch, StartMismatch, StartReapply
<1> QED
  BY <1>1, <1>2, <1>3, <1>4, <1>5, <1>6, <1>7 DEF Fresh

\* The call a Core sends while it starts.
LEMMA StartupAsks ==
    ASSUME TypeOK, SlotHeld, StartReapply
    PROVE  /\ pending' = [Free EXCEPT !.kind = "startup"] /\ pending'.kind = "startup"
           /\ up' = up
           /\ RPC(pending') = "apply" /\ Desired' = CurrentPairs
           /\ Send("apply", entries, CurrentPairs, generation, 0)
<1>1. /\ pending' = [Free EXCEPT !.kind = "startup"] /\ ~Alive
      /\ Send("apply", entries, PairsOf[InitialConfig], generation, 0)
      /\ UNCHANGED <<up, connections, mode>>
  BY DEF StartReapply, Fresh
<1>2. CurrentPairs = PairsOf[InitialConfig]
  BY <1>1 DEF SlotHeld, Alive, CurrentPairs, PairsIn
<1>3. pending'.kind = "startup"
  BY <1>1 DEF Free
<1> QED
  BY <1>1, <1>2, <1>3 DEF RPC, Desired, CurrentPairs

----------------------------------------------------------------------------------
(* The invariant is inductive *)

\* The Worker's part.
LEMMA WorkerPartKept == ASSUME Inv, [Next]_vars PROVE WorkerInv'
<1>1. TypeOK /\ WorkerInv /\ SlotHeld
  BY DEF Inv
<1>2. CASE UNCHANGED workerVars
  BY <1>1, <1>2 DEF WorkerInv, WorkerTypeOK, Txn!AtomicTypeOK, Served, Replies, Programs,
     TableKnown, Bounded, WorkerCacheTruth, Outstanding, Writes, Accepted, Unlocked,
     workerVars, txnVars, cacheVars, channelVars
<1>3. CASE Asks
  <2>1. Send(RPC(pending'), CurrentPairs, Desired', cgen, revision)
        /\ RPC(pending') \in {"apply", "recover", "reconcile"}
    BY <1>3 DEF Asks, RPC
  <2>2. Desired' \in Tables
    <3>1. pending' \in Slots /\ connections' = connections /\ mode' = mode
      BY <1>3 DEF Asks
    <3> QED
      BY <1>1, <3>1, PairsTyped DEF Desired, Slots, CurrentPairs, TypeOK
  <2> QED
    BY <1>1, <2>1, <2>2, CountsTyped, SendKeepsInv
<1>4. CASE StartReapply
  <2>1. entries \in Tables /\ generation \in Nat /\ CurrentPairs \in Tables
    BY <1>1, CountsTyped DEF TypeOK, WorkerTypeOK
  <2>2. Send("apply", entries, CurrentPairs, generation, 0)
    BY <1>1, <1>4, StartupAsks
  <2> QED
    BY <1>1, <2>1, <2>2, SendKeepsInv
<1>5. CASE Respond \/ Unanswered
  BY <1>1, <1>5, ResponseFrees, ClientKeepsInv
<1>6. CASE Exit
  BY <1>1, <1>6, DeathKeepsInv DEF Exit
<1>7. CASE Works
  BY <1>1, <1>7, WorkerKeepsInv DEF Works
<1>8. (UNCHANGED vars \/ Looks \/ StartMatch \/ StartMismatch) => UNCHANGED workerVars
  BY DEF vars, Looks, Expire, Acquire, ReadSnapshot, StartMatch, StartMismatch
<1> QED
  BY <1>1, <1>2, <1>3, <1>4, <1>5, <1>6, <1>7, <1>8, Steps

\* The Core's own types.
LEMMA TypesKept == ASSUME Inv, [Next]_vars PROVE TypeOK'
<1>1. TypeOK /\ WorkerInv /\ SlotHeld /\ Knowledge
  BY DEF Inv
<1>2. WorkerTypeOK'
  BY WorkerPartKept DEF WorkerInv
<1> DEFINE State == /\ up \in BOOLEAN /\ connections \in Configs /\ mode \in {"ocs", "debug"}
                    /\ status \in {"updating", "ready", "error"}
                    /\ revision \in 0..MaxRevision /\ gate \in BOOLEAN /\ driftError \in BOOLEAN
           Seen == ccache \in CacheStates /\ cgen \in 0..MaxGeneration
           Held == pending \in Slots /\ holder \in Clients \cup {NoClient}
           Read == view \in [Clients -> Snapshots]
<1>3. State /\ Seen /\ Held /\ Read
  BY <1>1 DEF TypeOK
<1>4. Free \in Slots
  BY CoreAssumption DEF Free, Slots
<1>5. State' /\ Seen' /\ Held' /\ Read'
  <2>1. CASE UNCHANGED vars
    BY <1>3, <2>1 DEF vars, coreVars, stateVars, clientVars
  <2>2. CASE Looks
    <3>1. ASSUME NEW c \in Clients, ReadSnapshot(c) PROVE Read'
      <4>1. [revision |-> revision, config |-> connections, mode |-> mode, alive |-> TRUE] \in Snapshots
        BY <1>3 DEF Snapshots
      <4> QED
        BY <1>3, <3>1, <4>1 DEF ReadSnapshot
    <3>2. (\A c \in Clients : ~ReadSnapshot(c)) => view' = view
      BY <2>2 DEF Looks, Expire, Acquire
    <3>3. State' /\ Seen' /\ Held'
      BY <1>3, <2>2 DEF Looks, Expire, Acquire, ReadSnapshot, stateVars, clientVars
    <3> QED
      BY <1>3, <3>1, <3>2, <3>3
  <2>3. CASE Asks
    BY <1>3, <2>3 DEF Asks, clientVars
  <2>4. CASE Respond \/ Unanswered
    <3>1. Seen'
      <4>1. CASE Unanswered
        BY <1>3, <4>1 DEF Unanswered, CacheStates
      <4>2. CASE Respond
        <5>1. reply # NoReply /\ ccache' = reply.cache /\ cgen' = reply.generation
          BY <4>2, ResponseFrees
        <5>2. reply.cache \in CacheStates /\ reply.generation \in Nat
          BY <1>1, <5>1 DEF TypeOK, WorkerTypeOK
        <5>3. reply.generation <= MaxGeneration
          BY <1>1, <5>1 DEF WorkerInv, Bounded
        <5> QED
          BY <5>1, <5>2, <5>3, WorkerAssumption
      <4> QED
        BY <2>4, <4>1, <4>2
    <3>2. Held'
      BY <1>3, <1>4, <2>4, ResponseFrees
    <3>3. revision' = revision
          \/ (pending.kind \in {"edit", "mode", "recover"} /\ revision' = revision + 1)
      BY <2>4 DEF Respond, Committed, Recovered, TransitionFailed, Reconciled, Started, Unanswered
    <3>4. revision' \in 0..MaxRevision
      <4>1. CASE revision' = revision
        BY <1>3, <4>1
      <4>2. CASE pending.kind \in {"edit", "mode", "recover"} /\ revision' = revision + 1
        <5>1. revision < MaxRevision
          BY <1>1, <4>2 DEF SlotHeld
        <5> QED
          BY <1>3, <4>2, <5>1, CoreAssumption
      <4> QED
        BY <3>3, <4>1, <4>2
    <3>5. State'
      <4>1. pending.config \in Configs /\ pending.mode \in {"ocs", "debug"}
        BY <1>3 DEF Slots
      <4>2. driftError' \in BOOLEAN
        BY <1>3, <2>4 DEF Respond, Committed, Recovered, TransitionFailed, Reconciled, Started,
           Unanswered
      <4> HIDE DEF Seen, Held, Read
      <4> QED
        BY <1>3, <2>4, <3>4, <4>1, <4>2 DEF Respond, Committed, Recovered, TransitionFailed,
           Reconciled, Started, Unanswered
    <3>6. Read'
      <4>1. CASE Committed
        <5>1. [revision |-> revision', config |-> connections', mode |-> mode', alive |-> TRUE]
                \in Snapshots
          BY <3>5 DEF Snapshots
        <5> QED
          BY <1>3, <4>1, <5>1 DEF Committed
      <4>2. CASE view' = view
        BY <1>3, <4>2
      <4> QED
        BY <2>4, <4>1, <4>2 DEF Respond, Recovered, TransitionFailed, Reconciled, Started, Unanswered
    <3> QED
      BY <3>1, <3>2, <3>5, <3>6
  <2>5. CASE StartMatch \/ StartMismatch \/ StartReapply
    <3>1. State' /\ Read' /\ holder' = holder
      <4>1. up' \in BOOLEAN
        BY <1>3, <2>5 DEF StartMatch, StartMismatch, StartReapply
      <4> QED
        BY <1>1, <1>3, <2>5, <4>1, StartSends
    <3>2. Seen'
      BY <1>1, <2>5, StartSends DEF TypeOK, WorkerTypeOK
    <3>3. pending' \in Slots
      BY <1>3, <1>4, <2>5 DEF StartMatch, StartMismatch, StartReapply, Free, Slots
    <3> QED
      BY <1>3, <3>1, <3>2, <3>3
  <2>6. CASE Exit
    <3>1. State' /\ Seen' /\ Held'
      <4>1. 0 \in 0..MaxRevision /\ 0 \in 0..MaxGeneration
        BY CoreAssumption, WorkerAssumption
      <4> QED
        BY <1>4, <2>6, <4>1, CoreAssumption DEF Exit, CacheStates
    <3>2. Read'
      <4>1. ASSUME NEW c \in Clients PROVE [view[c] EXCEPT !.alive = FALSE] \in Snapshots
        BY <1>3 DEF Snapshots
      <4> QED
        BY <2>6, <4>1 DEF Exit
    <3> QED
      BY <3>1, <3>2
  <2>7. CASE Works
    BY <1>3, <2>7 DEF Works, coreVars, stateVars, clientVars
  <2> HIDE DEF State, Seen, Held, Read
  <2> QED
    BY <1>1, <2>1, <2>2, <2>3, <2>4, <2>5, <2>6, <2>7, Steps
<1> QED
  BY <1>2, <1>5 DEF TypeOK

\* The slot.
LEMMA SlotKept == ASSUME Inv, [Next]_vars PROVE SlotHeld'
<1>1. TypeOK /\ WorkerInv /\ SlotHeld
  BY DEF Inv
<1>2. CASE UNCHANGED vars \/ Looks
  <2>1. UNCHANGED <<workerVars, up, stateVars, pending>>
    BY <1>2 DEF vars, coreVars, Looks, Expire, Acquire, ReadSnapshot
  <2> QED
    BY <1>1, <2>1 DEF SlotHeld, Alive, Outstanding, workerVars, channelVars, stateVars
<1>3. CASE Asks
  <2>1. awaited' # 0 /\ pending'.kind \in {"edit", "mode", "recover", "reconcile"} /\ up
        /\ UNCHANGED <<up, connections, mode, revision>>
        /\ (pending'.kind # "reconcile" => revision < MaxRevision)
    <3>1. Send(RPC(pending'), CurrentPairs, Desired', cgen, revision)
      BY <1>3 DEF Asks
    <3>2. awaited' # 0
      BY <1>1, <3>1, SendAddresses
    <3> QED
      BY <1>3, <3>2 DEF Asks, SlotFree
  <2> QED
    BY <1>1, <2>1 DEF SlotHeld, Alive
<1>4. CASE Respond \/ Unanswered
  <2>1. pending'.kind = "none" /\ awaited' = 0 /\ up'
    BY <1>4, ResponseFrees DEF Free
  <2> QED
    BY <2>1 DEF SlotHeld, Alive
<1>5. CASE StartMatch \/ StartMismatch
  <2>1. up' /\ UNCHANGED <<workerVars, pending>> /\ pending.kind = "none" /\ awaited = 0
    BY <1>1, <1>5, StartSends DEF StartMatch, StartMismatch
  <2> QED
    BY <2>1 DEF SlotHeld, Alive, workerVars, channelVars
<1>6. CASE StartReapply
  <2>1. awaited' # 0 /\ pending'.kind = "startup" /\ ~up /\ up' = up
        /\ UNCHANGED <<connections, mode, revision>>
    <3>1. Send("apply", entries, CurrentPairs, generation, 0)
      BY <1>1, <1>6, StartupAsks
    <3>2. awaited' # 0
      BY <1>1, <3>1, SendAddresses
    <3> QED
      BY <1>1, <1>6, <3>2, StartupAsks, StartSends
  <2> QED
    BY <1>1, <2>1 DEF SlotHeld, Alive
<1>7. CASE Exit
  <2>1. pending'.kind = "none" /\ awaited' = 0 /\ up' = FALSE /\ connections' = InitialConfig
        /\ mode' = "ocs" /\ revision' = 0
    BY <1>7 DEF Exit, Free
  <2>2. Outstanding' = {}
    BY <1>1, <1>7, DeathKeepsInv DEF Exit
  <2> QED
    BY <2>1, <2>2 DEF SlotHeld, Alive
<1>8. CASE Works
  <2>1. Outstanding' \subseteq Outstanding /\ UNCHANGED <<up, connections, mode, revision, pending>>
    BY <1>1, <1>8, CallsShrink DEF Works, coreVars, stateVars
  <2>2. awaited' = awaited
    BY <1>8, WorkerLeavesClient DEF Works
  <2> QED
    BY <1>1, <2>1, <2>2 DEF SlotHeld, Alive
<1> QED
  BY <1>1, <1>2, <1>3, <1>4, <1>5, <1>6, <1>7, <1>8, Steps

\* The call the client waits for.
LEMMA LinkKept == ASSUME Inv, [Next]_vars PROVE Link'
<1>1. TypeOK /\ WorkerInv /\ SlotHeld /\ Link
  BY DEF Inv
<1>2. \A c \in Outstanding : c.id # 0
  BY <1>1, WorkerAssumption DEF WorkerInv, WorkerTypeOK, Outstanding, Calls
<1>3. CASE awaited' = 0 /\ reply' = NoReply /\ Outstanding' \subseteq Outstanding
  BY <1>2, <1>3 DEF Link
<1>4. CASE UNCHANGED vars \/ Looks
  <2>1. UNCHANGED <<workerVars, up, stateVars, pending>>
    BY <1>4 DEF vars, coreVars, Looks, Expire, Acquire, ReadSnapshot
  <2> QED
    BY <1>1, <2>1 DEF Link, Desired, CurrentPairs, RPC, Outstanding, workerVars, channelVars,
       stateVars
<1>5. CASE Asks
  <2> DEFINE c == Request(RPC(pending'), CurrentPairs, Desired', cgen, revision)
  <2>1. Send(RPC(pending'), CurrentPairs, Desired', cgen, revision)
        /\ CurrentPairs' = CurrentPairs
    BY <1>5 DEF Asks, CurrentPairs
  <2>2. /\ \A d \in Outstanding : d.id # awaited'
        /\ Outstanding' = IF wup THEN Outstanding \cup {c} ELSE Outstanding
        /\ reply' = NoReply
    BY <1>1, <2>1, SendAddresses
  <2>3. c.target = Desired' /\ c.kind = RPC(pending') /\ c.expected = CurrentPairs'
    BY <2>1 DEF Request
  <2>4. RPC(pending)' = RPC(pending')
    BY DEF RPC
  <2> HIDE DEF c
  <2> QED
    BY <2>2, <2>3, <2>4 DEF Link
<1>6. CASE StartReapply
  <2> DEFINE c == Request("apply", entries, CurrentPairs, generation, 0)
  <2>1. /\ pending'.kind = "startup" /\ RPC(pending') = "apply" /\ Desired' = CurrentPairs
        /\ Send("apply", entries, CurrentPairs, generation, 0)
    BY <1>1, <1>6, StartupAsks
  <2>2. /\ \A d \in Outstanding : d.id # awaited'
        /\ Outstanding' = IF wup THEN Outstanding \cup {c} ELSE Outstanding
        /\ reply' = NoReply
    BY <1>1, <2>1, SendAddresses
  <2>3. c.target = Desired' /\ c.kind = RPC(pending')
    BY <2>1 DEF Request
  <2>4. RPC(pending)' = RPC(pending')
    BY DEF RPC
  <2> HIDE DEF c
  <2> QED
    BY <2>1, <2>2, <2>3, <2>4 DEF Link
<1>7. CASE Respond \/ Unanswered
  BY <1>3, <1>7, ResponseFrees
<1>8. CASE StartMatch \/ StartMismatch
  <2>1. awaited = 0 /\ reply = NoReply /\ UNCHANGED workerVars
    BY <1>1, <1>8, StartSends DEF StartMatch, StartMismatch
  <2> QED
    BY <1>3, <2>1 DEF workerVars, channelVars, Outstanding
<1>9. CASE Exit
  <2>1. awaited' = 0 /\ reply' = NoReply /\ Outstanding' = {}
    BY <1>1, <1>9, DeathKeepsInv DEF Exit
  <2> QED
    BY <1>3, <2>1
<1>10. CASE Works
  <2>1. /\ Outstanding' \subseteq Outstanding /\ awaited' = awaited
        /\ Desired' = Desired /\ CurrentPairs' = CurrentPairs /\ pending' = pending
        /\ WorkerMoves
    BY <1>1, <1>10, CallsShrink, WorkerLeavesClient DEF Works, coreVars, stateVars, Desired,
       CurrentPairs
  <2>2. reply' # NoReply /\ pending.kind = "reconcile" => reply'.outcome = "ok"
    <3>1. CASE UNCHANGED reply
      BY <1>1, <3>1 DEF Link
    <3>2. CASE wup /\ wup'
      <4>1. ASSUME NEW call \in Outstanding, Compares(call) \/ Fails(call) \/ Commits(call),
                   pending.kind = "reconcile", reply' # NoReply
            PROVE  reply'.outcome = "ok"
        <5>1. CASE call.id # awaited
          BY <1>1, <4>1, <5>1 DEF Link, Compares, Fails, Commits, Answer
        <5>2. CASE call.id = awaited
          <6>1. call.kind = "reconcile"
            BY <1>1, <4>1, <5>2 DEF Link, RPC
          <6> QED
            BY <4>1, <5>2, <6>1 DEF Compares, Fails, Commits, Answer
        <5> QED
          BY <5>1, <5>2
      <4> QED
        BY <1>1, <2>1, <3>1, <3>2, <4>1, WorkerEffects
    <3>3. CASE ~wup \/ ~wup'
      <4>1. UNCHANGED reply
        <5>1. CASE ~wup
          <6>1. calls = {} /\ running = NoCall /\ phase = "idle"
            BY <1>1, <5>1 DEF WorkerInv, Served
          <6>2. ~FinishCall
            BY <6>1 DEF FinishCall, FinishApply, FinishRecover, FailRecover, Finish, Txn!Return
          <6> QED
            BY <2>1, <6>1, <6>2 DEF WorkerMoves, WorkerCrash, WorkerStart, CallBackend, Programmed,
               channelVars, Interfere
        <5>2. CASE wup /\ ~wup'
          BY <2>1, <5>2 DEF WorkerMoves, WorkerCrash, WorkerStart, Handler, RefuseApply,
             FindDrift, Unreadable, RecoverUnread, Reconcile, StartApply, StartRecover, Start,
             Drop, CallBackend, Programmed, Interfere, FinishCall, FinishApply, FinishRecover,
             FailRecover, Finish
        <5> QED
          BY <3>3, <5>1, <5>2
      <4> QED
        BY <3>1, <4>1
    <3> QED
      BY <3>2, <3>3
  <2>3. RPC(pending)' = RPC(pending)
    BY <2>1 DEF RPC
  <2> QED
    BY <1>1, <2>1, <2>2, <2>3 DEF Link
<1> QED
  BY <1>1, <1>4, <1>5, <1>6, <1>7, <1>8, <1>9, <1>10, Steps

\* What a client knows.
LEMMA KnowledgeKept == ASSUME Inv, [Next]_vars PROVE Knowledge'
<1>1. TypeOK /\ WorkerInv /\ SlotHeld /\ Knowledge
  BY DEF Inv
<1>2. revision \in Nat /\ DOMAIN view = Clients /\ \A c \in Clients : view[c].revision \in Nat
  <2>1. DOMAIN view = Clients /\ \A c \in Clients : view[c].revision \in 0..MaxRevision
    BY <1>1 DEF TypeOK, Snapshots
  <2> QED
    BY <1>1, <2>1, CountsTyped
<1> DEFINE Reads == \A c \in Clients : view[c].alive =>
                /\ view[c].revision <= revision
                /\ view[c].revision = revision => view[c].config = connections /\ view[c].mode = mode
<1>3. CASE UNCHANGED <<connections, mode, revision, view>> /\
           (pending' = pending \/ pending'.kind \notin {"edit", "mode"})
  BY <1>1, <1>3 DEF Knowledge
<1>4. CASE UNCHANGED vars \/ Works
  BY <1>3, <1>4 DEF vars, Works, coreVars, stateVars
<1>5. CASE Looks
  <2>1. ASSUME NEW c \in Clients, ReadSnapshot(c) PROVE Knowledge'
    <3>1. /\ view' = [view EXCEPT ![c] = [revision |-> revision, config |-> connections,
                                          mode |-> mode, alive |-> TRUE]]
          /\ UNCHANGED <<connections, mode, revision, pending>>
      BY <2>1 DEF ReadSnapshot, stateVars
    <3>2. view'[c] = [revision |-> revision, config |-> connections, mode |-> mode, alive |-> TRUE]
          /\ \A d \in Clients \ {c} : view'[d] = view[d]
      BY <1>2, <3>1
    <3> QED
      BY <1>1, <1>2, <3>1, <3>2 DEF Knowledge
  <2>2. CASE \A c \in Clients : ~ReadSnapshot(c)
    BY <1>3, <1>5, <2>2 DEF Looks, Expire, Acquire, stateVars
  <2> QED
    BY <2>1, <2>2
<1>6. CASE Asks
  BY <1>1, <1>6 DEF Asks, Knowledge
<1>7. CASE Respond \/ Unanswered
  <2>1. pending'.kind = "none"
    BY <1>7, ResponseFrees DEF Free
  <2>2. CASE Committed
    <3>1. pending.client \in Clients
      BY <1>1, <2>2 DEF Committed, Knowledge
    <3>2. view' = [view EXCEPT ![pending.client] =
                [revision |-> revision', config |-> connections', mode |-> mode', alive |-> TRUE]]
          /\ revision' = revision + 1
      BY <2>2 DEF Committed
    <3>3. view'[pending.client] = [revision |-> revision', config |-> connections',
                                   mode |-> mode', alive |-> TRUE]
          /\ \A d \in Clients \ {pending.client} : view'[d] = view[d]
      BY <1>2, <3>1, <3>2
    <3>4. ASSUME NEW d \in Clients \ {pending.client}, view[d].alive
          PROVE  view[d].revision <= revision' /\ view[d].revision # revision'
      <4>1. view[d].revision <= revision
        BY <1>1, <3>4 DEF Knowledge
      <4> QED
        BY <1>2, <3>2, <4>1
    <3>5. revision' <= revision'
      BY <1>2, <3>2
    <3>6. Reads'
      BY <3>3, <3>4, <3>5
    <3> QED
      BY <2>1, <3>6 DEF Knowledge
  <2>3. CASE Recovered
    <3>1. view' = view /\ revision' = revision + 1
      BY <2>3 DEF Recovered
    <3>2. ASSUME NEW d \in Clients, view[d].alive
          PROVE  view[d].revision <= revision' /\ view[d].revision # revision'
      <4>1. view[d].revision <= revision
        BY <1>1, <3>2 DEF Knowledge
      <4> QED
        BY <1>2, <3>1, <4>1
    <3>3. Reads'
      BY <3>1, <3>2
    <3> QED
      BY <2>1, <3>3 DEF Knowledge
  <2>4. CASE TransitionFailed \/ Reconciled \/ Started \/ Unanswered
    BY <1>3, <2>1, <2>4 DEF TransitionFailed, Reconciled, Started, Unanswered
  <2> QED
    BY <1>7, <2>2, <2>3, <2>4 DEF Respond
<1>8. CASE StartMatch \/ StartMismatch \/ StartReapply
  <2>1. pending' = pending \/ pending'.kind = "startup"
    BY <1>1, <1>8, StartupAsks DEF StartMatch, StartMismatch
  <2> QED
    BY <1>1, <1>3, <1>8, <2>1, StartSends
<1>9. CASE Exit
  <2>1. pending'.kind = "none" /\ view' = [c \in Clients |-> [view[c] EXCEPT !.alive = FALSE]]
    BY <1>9 DEF Exit, Free
  <2>2. \A c \in Clients : ~view'[c].alive
    BY <1>1, <2>1 DEF TypeOK, Snapshots
  <2> QED
    BY <2>1, <2>2 DEF Knowledge
<1> QED
  BY <1>1, <1>4, <1>5, <1>6, <1>7, <1>8, <1>9, Steps

\* Generations and revisions.
LEMMA FenceKept == ASSUME Inv, [Next]_vars PROVE Fence'
<1> SUFFICES ASSUME ~Outlives, wup' PROVE Fence'
  BY DEF Fence
<1>1. TypeOK /\ WorkerInv /\ SlotHeld /\ Fence /\ Link
  BY DEF Inv
<1>2. revision \in Nat /\ cgen \in Nat /\ generation \in Nat
  BY <1>1, CountsTyped
<1>3. \A c \in Outstanding : c.generation \in Nat /\ c.revision \in Nat
  BY <1>1 DEF TypeOK, WorkerTypeOK, Outstanding, Calls
<1>4. ASSUME wup
      PROVE  /\ Alive => cgen <= generation
             /\ \A c \in Outstanding :
                 /\ c.generation <= generation /\ c.revision <= revision
                 /\ c.revision < revision => c.generation < generation
             /\ reply # NoReply /\ reply.outcome = "ok" /\ pending.kind # "reconcile" =>
                 \A c \in Outstanding : c.generation < generation
             /\ reply # NoReply => reply.generation <= generation
  BY <1>1, <1>4 DEF Fence
<1>5. CASE UNCHANGED vars \/ Looks
  <2>1. UNCHANGED <<workerVars, up, stateVars, clientVars, pending>>
    BY <1>5 DEF vars, coreVars, Looks, Expire, Acquire, ReadSnapshot
  <2> QED
    BY <1>1, <2>1 DEF Fence, Alive, Outstanding, workerVars, channelVars, cacheVars, stateVars,
       clientVars
<1>6. CASE Asks
  <2> DEFINE call == Request(RPC(pending'), CurrentPairs, Desired', cgen, revision)
  <2>1. /\ Send(RPC(pending'), CurrentPairs, Desired', cgen, revision)
        /\ UNCHANGED <<up, revision, cgen>> /\ up
    BY <1>6 DEF Asks, clientVars, SlotFree
  <2>2. /\ Outstanding' = IF wup THEN Outstanding \cup {call} ELSE Outstanding
        /\ reply' = NoReply /\ wup' = wup /\ generation' = generation
    BY <1>1, <2>1, SendAddresses DEF cacheVars
  <2>3. call.generation = cgen /\ call.revision = revision
    BY DEF Request
  <2>4. cgen <= generation /\ ~(revision < revision)
    BY <1>2, <1>4, <2>1, <2>2 DEF Alive
  <2> HIDE DEF call
  <2> QED
    BY <1>2, <1>4, <2>1, <2>2, <2>3, <2>4 DEF Fence
<1>7. CASE StartReapply
  <2> DEFINE call == Request("apply", entries, CurrentPairs, generation, 0)
  <2>1. Send("apply", entries, CurrentPairs, generation, 0)
    BY <1>1, <1>7, StartupAsks
  <2>2. /\ Outstanding' = IF wup THEN Outstanding \cup {call} ELSE Outstanding
        /\ reply' = NoReply /\ wup' = wup /\ generation' = generation
    BY <1>1, <2>1, SendAddresses DEF cacheVars
  <2>3. call.generation = generation /\ call.revision = 0
    BY DEF Request
  <2>4. Outstanding = {} /\ revision' = 0 /\ cgen' = generation
    BY <1>1, <1>7, StartSends
  <2>5. generation <= generation /\ 0 <= 0 /\ ~(0 < 0)
    BY <1>2
  <2> HIDE DEF call
  <2> QED
    BY <2>2, <2>3, <2>4, <2>5 DEF Fence
<1>8. CASE StartMatch \/ StartMismatch
  <2>1. /\ Outstanding = {} /\ reply = NoReply /\ cgen' = generation
        /\ UNCHANGED workerVars
    BY <1>1, <1>8, StartSends DEF StartMatch, StartMismatch
  <2>2. Outstanding' = {} /\ reply' = NoReply /\ cgen' = generation'
    BY <2>1 DEF workerVars, channelVars, cacheVars, Outstanding
  <2>3. cgen' <= generation'
    BY <1>2, <2>1, <2>2
  <2> QED
    BY <2>2, <2>3 DEF Fence
<1>9. CASE Respond \/ Unanswered
  <2>1. /\ reply' = NoReply /\ wup' = wup /\ generation' = generation
        /\ Outstanding' = Outstanding
        /\ Respond => reply # NoReply /\ cgen' = reply.generation
    BY <1>9, ResponseFrees DEF cacheVars
  <2>2. wup
    BY <2>1
  <2>3. Alive /\ (Unanswered => cgen' = cgen /\ revision' = revision)
    BY <1>9 DEF Alive, Respond, Committed, Recovered, TransitionFailed, Reconciled, Started,
       Unanswered
  <2>4. cgen' <= generation
    <3>1. CASE Respond
      BY <1>4, <2>1, <2>2, <3>1
    <3>2. CASE Unanswered
      BY <1>4, <2>2, <2>3, <3>2
    <3> QED
      BY <1>9, <3>1, <3>2
  <2>5. \A c \in Outstanding : /\ c.generation <= generation /\ c.revision <= revision'
                               /\ c.revision < revision' => c.generation < generation
    <3>1. CASE revision' = revision
      BY <1>4, <2>2, <3>1
    <3>2. CASE Committed \/ Recovered
      <4>1. /\ reply # NoReply /\ reply.outcome = "ok" /\ pending.kind # "reconcile"
            /\ revision' = revision + 1
        BY <3>2 DEF Committed, Recovered
      <4>2. \A c \in Outstanding : c.generation < generation /\ c.generation <= generation
                                   /\ c.revision <= revision
        BY <1>4, <2>2, <4>1
      <4> QED
        BY <1>2, <1>3, <4>1, <4>2
    <3> QED
      BY <1>9, <2>3, <3>1, <3>2 DEF Respond, TransitionFailed, Reconciled, Started
  <2> QED
    BY <2>1, <2>4, <2>5 DEF Fence
<1>10. CASE Exit
  BY <1>10 DEF Exit, WorkerDies
<1>11. CASE Works
  <2>1. /\ Outstanding' \subseteq Outstanding /\ awaited' = awaited
        /\ UNCHANGED <<up, revision, cgen, pending>> /\ Alive' = Alive
        /\ WorkerMoves
    BY <1>1, <1>11, CallsShrink, WorkerLeavesClient DEF Works, coreVars, stateVars, clientVars,
       Alive
  <2>2. CASE ~wup
    <3>1. ~Alive
      BY <1>11, <2>2 DEF Works
    <3>2. Outstanding' = {} /\ awaited = 0
      BY <1>1, <2>1, <3>1 DEF SlotHeld, Alive, TypeOK, Slots
    <3>3. reply' = NoReply
      BY <2>1, <3>2, WorkerPartKept DEF WorkerInv, Replies
    <3> QED
      BY <2>1, <3>1, <3>2, <3>3 DEF Fence
  <2>3. CASE wup /\ UNCHANGED <<generation, reply>>
    BY <1>4, <2>1, <2>3 DEF Fence
  <2>4. ASSUME wup, NEW call \in Outstanding, Compares(call) \/ Fails(call) PROVE Fence'
    <3>1. generation' = generation
      BY <2>4 DEF Compares, Fails
    <3>2. reply' # NoReply => reply'.generation <= generation
      <4>1. reply' = reply \/ reply'.generation = generation
        BY <2>4, <3>1 DEF Compares, Fails, Answer
      <4> QED
        BY <1>2, <1>4, <2>4, <4>1
    <3>3. reply' # NoReply /\ reply'.outcome = "ok" /\ pending.kind # "reconcile" => reply' = reply
      <4>1. CASE call.id # awaited
        BY <2>4, <4>1 DEF Compares, Fails, Answer
      <4>2. CASE call.id = awaited
        <5>1. call.kind = "reconcile" => pending.kind = "reconcile"
          BY <1>1, <4>2 DEF Link, RPC
        <5> QED
          BY <2>4, <4>2, <5>1 DEF Compares, Fails, Answer
      <4> QED
        BY <4>1, <4>2
    <3> QED
      BY <1>4, <2>1, <2>4, <3>1, <3>2, <3>3 DEF Fence
  <2>5. ASSUME wup, NEW call \in Outstanding, Commits(call) PROVE Fence'
    <3>1. generation' = generation + 1
      BY <2>5 DEF Commits
    <3>2. reply' # NoReply => reply'.generation <= generation'
      <4>1. reply' = reply \/ reply'.generation = generation'
        BY <2>5 DEF Commits, Answer
      <4>2. reply # NoReply => reply.generation \in Nat
        BY <1>1 DEF TypeOK, WorkerTypeOK
      <4> QED
        BY <1>2, <1>4, <2>5, <3>1, <4>1, <4>2
    <3>3. \A c \in Outstanding : c.generation < generation' /\ c.generation <= generation'
                                 /\ c.revision <= revision
      BY <1>2, <1>3, <1>4, <2>5, <3>1
    <3>4. Alive => cgen <= generation'
      BY <1>2, <1>4, <2>5, <3>1
    <3> QED
      BY <2>1, <3>2, <3>3, <3>4 DEF Fence
  <2> QED
    BY <1>1, <2>1, <2>2, <2>3, <2>4, <2>5, WorkerEffects
<1> QED
  BY <1>1, <1>5, <1>6, <1>7, <1>8, <1>9, <1>10, <1>11, Steps

\* What the Core believes when it has had its response.
LEMMA AgreedKept == ASSUME Inv, [Next]_vars PROVE Agreed'
<1>1. TypeOK /\ WorkerInv /\ SlotHeld /\ Agreed /\ AgreedReply /\ Link
  BY DEF Inv
<1>2. cgen \in Nat /\ generation \in Nat
  BY <1>1, CountsTyped
<1>3. CASE UNCHANGED vars \/ Looks
  <2>1. UNCHANGED <<workerVars, up, stateVars, clientVars, pending>>
    BY <1>3 DEF vars, coreVars, Looks, Expire, Acquire, ReadSnapshot
  <2> QED
    BY <1>1, <2>1 DEF Agreed, Stranger, CurrentPairs, Outstanding, workerVars, channelVars,
       cacheVars, stateVars, clientVars
<1>4. CASE Asks
  BY <1>4 DEF Asks, Agreed
<1>5. CASE StartReapply
  BY <1>1, <1>5, StartupAsks DEF Agreed
<1>6. CASE StartMatch \/ StartMismatch
  <2>1. /\ cgen' = generation /\ CurrentPairs = PairsOf[InitialConfig]
        /\ UNCHANGED <<workerVars, connections, mode>>
    BY <1>1, <1>6, StartSends DEF StartMatch, StartMismatch
  <2>2. entries' = entries /\ cgen' = generation' /\ CurrentPairs' = PairsOf[InitialConfig]
    BY <2>1 DEF workerVars, cacheVars, CurrentPairs
  <2>3. status' = "ready" => entries = PairsOf[InitialConfig]
    BY <1>6 DEF StartMatch, StartMismatch
  <2>4. cgen' <= generation'
    BY <1>2, <2>1, <2>2
  <2> QED
    BY <2>2, <2>3, <2>4 DEF Agreed
<1>7. CASE Unanswered
  BY <1>7 DEF Unanswered, Agreed
<1>8. CASE Respond
  <2>1. /\ reply # NoReply /\ ccache' = reply.cache /\ cgen' = reply.generation
        /\ Stranger' = Stranger
        /\ UNCHANGED <<wup, entries, generation>>
    BY <1>8, ResponseFrees DEF cacheVars, Stranger
  <2> SUFFICES ASSUME wup, ccache' = "READY", ~Stranger
               PROVE  cgen' <= generation
                      /\ (cgen' = generation /\ status' = "ready" => entries = CurrentPairs')
    BY <2>1 DEF Agreed
  <2>2. /\ reply.generation <= generation
        /\ reply.generation = generation =>
            /\ reply.outcome = "ok" => entries = Desired
            /\ reply.outcome = "restored" /\ pending.kind # "startup" => entries = CurrentPairs
    BY <1>1, <2>1 DEF AgreedReply
  <2>3. ASSUME cgen' = generation, status' = "ready" PROVE entries = CurrentPairs'
    <3>1. CASE Committed
      <4>1. CurrentPairs' = Desired
        BY <3>1 DEF Committed, Desired, CurrentPairs
      <4> QED
        BY <2>1, <2>2, <2>3, <3>1, <4>1 DEF Committed
    <3>2. CASE Recovered
      <4>1. CurrentPairs' = Desired
        BY <3>2 DEF Recovered, Desired, CurrentPairs
      <4> QED
        BY <2>1, <2>2, <2>3, <3>2, <4>1 DEF Recovered
    <3>3. CASE TransitionFailed
      <4>1. CurrentPairs' = CurrentPairs /\ reply.outcome = "restored" /\ pending.kind # "startup"
        BY <2>3, <3>3 DEF TransitionFailed, CurrentPairs
      <4> QED
        BY <2>1, <2>2, <2>3, <4>1
    <3>4. CASE Reconciled
      <4>1. CurrentPairs' = Desired /\ reply.outcome = "ok"
        BY <1>1, <3>4 DEF Reconciled, Desired, CurrentPairs, Link
      <4> QED
        BY <2>1, <2>2, <2>3, <4>1
    <3>5. CASE Started
      <4>1. CurrentPairs' = Desired
        BY <3>5 DEF Started, Desired, CurrentPairs
      <4> QED
        BY <2>1, <2>2, <2>3, <3>5, <4>1 DEF Started
    <3> QED
      BY <1>8, <3>1, <3>2, <3>3, <3>4, <3>5 DEF Respond
  <2> QED
    BY <2>1, <2>2, <2>3
<1>9. CASE Exit
  BY <1>9 DEF Exit, Agreed
<1>10. CASE Works
  <2>1. WorkerMoves /\ UNCHANGED <<up, pending, ccache, cgen, status>> /\ CurrentPairs' = CurrentPairs
        /\ (~wup /\ wup' => unseen' = Alive)
    BY <1>10 DEF Works, coreVars, stateVars, clientVars, CurrentPairs
  <2> SUFFICES ASSUME up, wup', pending.kind = "none", ccache = "READY"
               PROVE  Stranger' \/ (cgen <= generation'
                        /\ (cgen = generation' /\ status = "ready" => entries' = CurrentPairs))
    BY <2>1 DEF Agreed
  <2>2. CASE ~wup
    <3>1. unseen' /\ Outstanding' = {}
      BY <1>1, <2>1, <2>2, CallsShrink DEF Alive, WorkerInv, Served, Outstanding
    <3> QED
      BY <3>1 DEF Stranger
  <2>3. CASE wup
    <3>1. Stranger \/ (cgen <= generation
                        /\ (cgen = generation /\ status = "ready" => entries = CurrentPairs))
      BY <1>1, <2>3 DEF Agreed
    <3>2. CASE Stranger
      BY <1>1, <2>1, <2>3, <3>2, WorkerEffects
    <3>3. CASE UNCHANGED <<entries, generation>> /\ ~Stranger
      BY <3>1, <3>3
    <3>4. CASE generation' = generation + 1 /\ ~Stranger
      <4>1. cgen <= generation' /\ cgen # generation'
        BY <1>2, <3>1, <3>4
      <4> QED
        BY <4>1
    <3>5. UNCHANGED <<entries, generation>> \/ generation' = generation + 1
      BY <1>1, <2>1, <2>3, WorkerEffects DEF Compares, Fails, Commits
    <3> QED
      BY <3>2, <3>3, <3>4, <3>5
  <2> QED
    BY <2>2, <2>3
<1> QED
  BY <1>1, <1>3, <1>4, <1>5, <1>6, <1>7, <1>8, <1>9, <1>10, Steps

\* What the response on its way says.
LEMMA AgreedReplyKept == ASSUME Inv, [Next]_vars PROVE AgreedReply'
<1>1. TypeOK /\ WorkerInv /\ SlotHeld /\ AgreedReply /\ Link
  BY DEF Inv
<1>2. generation \in Nat /\ (reply # NoReply => reply.generation \in Nat)
  BY <1>1, CountsTyped DEF TypeOK, WorkerTypeOK
<1>3. CASE reply' = NoReply
  BY <1>3 DEF AgreedReply
<1>4. CASE UNCHANGED vars \/ Looks
  <2>1. UNCHANGED <<workerVars, up, stateVars, clientVars, pending>>
    BY <1>4 DEF vars, coreVars, Looks, Expire, Acquire, ReadSnapshot
  <2> QED
    BY <1>1, <2>1 DEF AgreedReply, Stranger, Desired, CurrentPairs, Outstanding, workerVars,
       channelVars, cacheVars, stateVars
<1>5. CASE Asks
  <2>1. Send(RPC(pending'), CurrentPairs, Desired', cgen, revision)
    BY <1>5 DEF Asks
  <2> QED
    BY <1>1, <1>3, <2>1, SendAddresses
<1>6. CASE StartMatch \/ StartMismatch \/ StartReapply
  BY <1>1, <1>3, <1>6, StartSends
<1>7. CASE Respond \/ Unanswered
  BY <1>3, <1>7, ResponseFrees
<1>8. CASE Exit
  BY <1>3, <1>8 DEF Exit
<1>9. CASE Works
  <2>1. /\ WorkerMoves /\ pending' = pending
        /\ CurrentPairs' = CurrentPairs /\ Desired' = Desired
        /\ (~wup /\ wup' => unseen' = Alive)
    BY <1>9 DEF Works, coreVars, stateVars, CurrentPairs, Desired
  <2> DEFINE True(answer, gen, held) ==
        /\ answer.generation <= gen
        /\ answer.cache = "READY" /\ answer.generation = gen =>
            /\ answer.outcome = "ok" => held = Desired
            /\ answer.outcome = "restored" /\ pending.kind # "startup" => held = CurrentPairs
  <2> SUFFICES ASSUME wup', reply' # NoReply, ~Stranger'
               PROVE  True(reply', generation', entries')
    BY <2>1 DEF AgreedReply
  <2>2. CASE ~wup
    <3>1. /\ Outstanding' = {}
      BY <1>1, <2>1, <2>2, CallsShrink DEF WorkerInv, Served, Outstanding
    <3>2. pending.kind # "none"
      <4>1. awaited # 0
        BY <2>1, WorkerPartKept, WorkerLeavesClient DEF WorkerInv, Replies
      <4> QED
        BY <1>1, <4>1 DEF SlotHeld
    <3>3. Alive
      BY <1>1, <3>2 DEF SlotHeld, Alive
    <3> QED
      BY <2>1, <2>2, <3>1, <3>3 DEF Stranger
  <2>3. ASSUME wup, reply' = reply PROVE True(reply, generation, entries)
    <3>1. ~Stranger
      BY <1>1, <2>1, <2>3, WorkerEffects
    <3> QED
      BY <1>1, <2>3, <3>1 DEF AgreedReply
  <2>4. CASE wup /\ UNCHANGED <<entries, generation, reply>>
    BY <2>3, <2>4
  <2>5. ASSUME wup, NEW call \in Outstanding, Compares(call) \/ Fails(call)
        PROVE  True(reply', generation', entries')
    <3>1. UNCHANGED <<entries, generation>>
      BY <2>5 DEF Compares, Fails
    <3>2. CASE reply' = reply
      BY <2>3, <2>5, <3>1, <3>2
    <3>3. CASE reply' # reply
      <4>1. call.id = awaited
        BY <2>5, <3>3 DEF Compares, Fails, Answer
      <4>2. /\ call.target = Desired /\ call.kind = RPC(pending)
            /\ pending.kind \in {"edit", "mode"} => call.expected = CurrentPairs
        BY <1>1, <4>1 DEF Link
      <4>3. reply'.generation = generation /\ reply'.cache = wcache' /\ generation <= generation
        BY <1>2, <2>5, <3>1, <4>1 DEF Compares, Fails, Answer
      <4>4. CASE Compares(call)
        BY <3>1, <4>1, <4>2, <4>3, <4>4 DEF Compares, Answer
      <4>5. CASE Fails(call)
        <5>1. reply'.outcome # "ok"
          BY <4>1, <4>5 DEF Fails, Answer
        <5>2. ASSUME reply'.outcome = "restored", wcache' = "READY", pending.kind # "startup"
              PROVE  entries = CurrentPairs
          <6>1. call.kind = "apply" /\ call.expected = entries
            BY <4>1, <4>5, <5>2 DEF Fails, Answer
          <6>2. pending.kind \in {"edit", "mode"}
            BY <1>1, <4>2, <5>2, <6>1 DEF RPC, TypeOK, Slots
          <6> QED
            BY <4>2, <6>1, <6>2
        <5> QED
          BY <3>1, <4>3, <5>1, <5>2
      <4> QED
        BY <2>5, <4>4, <4>5
    <3> QED
      BY <3>2, <3>3
  <2>6. ASSUME wup, NEW call \in Outstanding, Commits(call)
        PROVE  True(reply', generation', entries')
    <3>1. generation' = generation + 1 /\ entries' = call.target
      BY <2>6 DEF Commits
    <3>2. CASE reply' = reply
      <4>1. reply.generation <= generation
        BY <2>3, <2>6, <3>2
      <4>2. reply'.generation <= generation' /\ reply'.generation # generation'
        BY <1>2, <3>1, <3>2, <4>1
      <4> QED
        BY <4>2
    <3>3. CASE reply' # reply
      <4>1. /\ call.id = awaited
            /\ reply'.generation = generation' /\ reply'.outcome = "ok"
        BY <2>6, <3>3 DEF Commits, Answer
      <4>2. call.target = Desired
        BY <1>1, <4>1 DEF Link
      <4>3. generation' <= generation'
        BY <1>2, <3>1
      <4> QED
        BY <3>1, <4>1, <4>2, <4>3
    <3> QED
      BY <3>2, <3>3
  <2> HIDE DEF True
  <2> QED
    BY <1>1, <2>1, <2>2, <2>3, <2>4, <2>5, <2>6, WorkerEffects
<1> QED
  BY <1>1, <1>4, <1>5, <1>6, <1>7, <1>8, <1>9, Steps

\* The first Core and the first Worker are still to be started.
LEMMA InitInv == Init => Inv
<1> SUFFICES ASSUME Init PROVE Inv
  OBVIOUS
<1>1. WorkerInv
  BY WorkerInitInv DEF Init
<1>2. TypeOK
  <2>1. WorkerTypeOK
    BY <1>1 DEF WorkerInv
  <2>2. 0 \in 0..MaxRevision /\ 0 \in 0..MaxGeneration
    BY CoreAssumption, WorkerAssumption
  <2>3. view \in [Clients -> Snapshots]
    BY <2>2, CoreAssumption DEF Init, Snapshots
  <2> QED
    BY <2>1, <2>2, <2>3, CoreAssumption DEF Init, TypeOK, Slots, Free, CacheStates
<1>3. Outstanding = {} /\ ~wup /\ awaited = 0 /\ reply = NoReply /\ pending.kind = "none"
  BY DEF Init, WorkerInit, Outstanding, Free
<1>4. \A c \in Clients : ~view[c].alive
  BY DEF Init
<1>5. SlotHeld /\ Link /\ Fence /\ Agreed /\ AgreedReply /\ Knowledge
  BY <1>3, <1>4 DEF Init, SlotHeld, Link, Fence, Agreed, AgreedReply, Knowledge
<1> QED
  BY <1>1, <1>2, <1>5 DEF Inv

----------------------------------------------------------------------------------
(* Theorems *)

\* The copies the Core and the Worker keep of each other's state are never further
\* apart than the invariant says.
THEOREM Invariance == Spec => []Inv
<1>1. Inv /\ [Next]_vars => Inv'
  BY TypesKept, WorkerPartKept, SlotKept, LinkKept, FenceKept, AgreedKept, AgreedReplyKept,
     KnowledgeKept DEF Inv
<1> QED
  BY InitInv, <1>1, PTL DEF Spec

\* Every variable keeps its type; the generation, the revision and the calls stay
\* within the bounds that Send and the slot check.
THEOREM TypeCorrect == Spec => []TypeOK
BY Invariance, PTL DEF Inv

\* A READY cache of the Worker is a copy of the device table, whatever handlers,
\* failed writes, recoveries and restarts came before (ApplyTransition, Recover and
\* Reconcile of device_worker.py), unless somebody else wrote the table.
THEOREM WorkerCacheIsTrue == Spec => []WorkerCacheTruth
BY Invariance, PTL DEF Inv, WorkerInv

\* The conditions under which the Core takes its cache for the truth (status ready,
\* READY, the same generation) are enough, with a Worker that is restarted beside the
\* Core or not.
THEOREM AgreementHolds == Spec => []AgreementIsTruth
<1>1. Inv => AgreementIsTruth
  <2> SUFFICES ASSUME Inv, SlotFree, Unlocked, status = "ready", ccache = "READY",
                      wcache = "READY", cgen = generation, ~unseen
               PROVE  table = CurrentPairs
    BY DEF AgreementIsTruth
  <2>1. table = entries
    BY DEF Inv, WorkerInv, WorkerCacheTruth
  <2>2. entries = CurrentPairs
    BY DEF Inv, Agreed, Stranger, SlotFree, Unlocked
  <2> QED
    BY <2>1, <2>2
<1> QED
  BY Invariance, <1>1, PTL

\* Where the Worker lives as long as its Core, the generation fences an Apply that the
\* Core gave up on: it does not program the device after a later commit.
THEOREM AppliesFenced == ASSUME ~Outlives PROVE Spec => []AppliesAreFenced
<1>1. Inv => AppliesAreFenced
  <2> SUFFICES ASSUME Inv, running # NoCall, running.kind = "apply"
               PROVE  running.revision = revision
    BY DEF AppliesAreFenced
  <2>1. wup /\ running \in Outstanding /\ running.generation = generation
    BY DEF Inv, WorkerInv, Served, Programs, Accepted, Outstanding
  <2>2. /\ running.revision <= revision
        /\ running.revision < revision => running.generation < generation
    BY <2>1 DEF Inv, Fence
  <2>3. running.revision \in Nat /\ revision \in Nat /\ generation \in Nat
    BY <2>1, CountsTyped DEF Inv, TypeOK, WorkerTypeOK, Outstanding, Calls
  <2> QED
    BY <2>1, <2>2, <2>3
<1> QED
  BY Invariance, <1>1, PTL

\* With STRICT_DEVICE the pre-read of ApplyTransition keeps every Apply off a device
\* that is not what its sender expects, unless somebody else writes between the pre-read
\* and the call of apply: what the read has found is still true when the call is made
\* (TableKnown), and so is what the sender expects (Programs).
THEOREM StrictAppliesInSync == Spec => StrictWritesStartInSync
<1> DEFINE InSync == Consistency = "STRICT_DEVICE" /\ phase = "idle" /\ phase' = "busy"
                        /\ running.kind = "apply" /\ ~unseen => table = running.expected
<1>1. Inv => InSync
  <2> SUFFICES ASSUME Inv, phase = "idle", running.kind = "apply", ~unseen
               PROVE  table = running.expected
    OBVIOUS
  <2>1. running # NoCall
    BY DEF NoCall
  <2>2. running.expected = entries /\ job.previous = entries
    BY <2>1 DEF Inv, WorkerInv, Programs, Accepted
  <2>3. table = job.previous
    BY <2>1 DEF Inv, WorkerInv, TableKnown
  <2> QED
    BY <2>2, <2>3
<1>2. Inv /\ [Next]_vars => [InSync]_vars
  BY <1>1
<1> QED
  BY Invariance, <1>2, PTL DEF Spec, StrictWritesStartInSync

\* A commit replaces the very state its client had read: nobody's commit is lost,
\* although the lease may pass to another client while the call is out
\* (applyConnectionsAcquired checks the revision with the commit slot in hand).
THEOREM NoLostUpdate == Spec => CommitsFromKnownState
<1> DEFINE Moves == up /\ up' /\ (connections' # connections \/ mode' # mode)
           Known == LET known == view[pending.client]
                    IN  known.alive =>
                            known.revision = revision /\ known.config = connections /\
                            known.mode = mode
<1>1. ASSUME Inv, [Next]_vars, Moves PROVE Known
  <2>1. TypeOK /\ WorkerInv /\ SlotHeld /\ Knowledge
    BY <1>1 DEF Inv
  <2>2. Committed
    <3>1. ~(UNCHANGED <<connections, mode>>) /\ up /\ up'
      BY <1>1
    <3>2. ~UNCHANGED vars /\ ~Looks /\ ~Asks /\ ~Unanswered /\ ~Works /\ ~Exit
      BY <3>1 DEF vars, coreVars, stateVars, Looks, Expire, Acquire, ReadSnapshot, Asks,
         Unanswered, Works, Exit
    <3>3. ~StartMatch /\ ~StartMismatch /\ ~StartReapply
      BY <2>1, <3>1, StartSends
    <3>4. Respond
      BY <1>1, <2>1, <3>2, <3>3, Steps
    <3> QED
      BY <3>1, <3>4 DEF Respond, Recovered, TransitionFailed, Reconciled, Started
  <2>3. pending.kind \in {"edit", "mode"}
    BY <2>2 DEF Committed
  <2> QED
    BY <2>1, <2>3 DEF Knowledge
<1>2. Inv /\ [Next]_vars => [Moves => Known]_vars
  BY <1>1
<1> QED
  BY Invariance, <1>2, PTL DEF Spec, CommitsFromKnownState

=================================================================================
