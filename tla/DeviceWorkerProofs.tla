--------------------------- MODULE DeviceWorkerProofs ---------------------------
(***************************************************************************)
(* What one Worker process guarantees by itself, for every set of tables,  *)
(* calls and generations: its calls are told apart, the one that holds the *)
(* lock was accepted, and a READY cache is a copy of the table.  The       *)
(* lemmas are about one step; SplitAgentProofs puts them together with the *)
(* Core's.                                                                 *)
(***************************************************************************)
EXTENDS DeviceWorker, FiniteSetTheorems, TLAPS

----------------------------------------------------------------------------------
(* The inductive invariant *)

\* The device is programmed for the call that holds the lock; a dead Worker has no calls,
\* and those of a living one are told apart by their ids.
Served ==
    /\ ~wup => calls = {} /\ running = NoCall
    /\ running = NoCall => phase = "idle"
    /\ phase = "done" <=> verdict # "none"
    /\ running \notin calls
    /\ \A c, d \in Outstanding : c.id = d.id => c = d

\* A response is for the call the client waits for, and its handler has ended.
Replies ==
    reply # NoReply => awaited # 0 /\ \A c \in Outstanding : c.id # awaited

\* The checks of ApplyTransition stay true while its call holds the lock.
Programs ==
    running # NoCall =>
        /\ running.kind \in {"apply", "recover"}
        /\ job.target = running.target
        /\ running.kind = "apply" => Accepted(running) /\ job.previous = entries

\* What is known of the table while it is written, if nobody else writes it.
TableKnown ==
    ~unseen =>
        /\ running # NoCall /\ phase = "idle" => table = job.previous
        /\ phase = "busy" => ~disturbed /\ table = job.previous
        /\ phase = "done" /\ verdict = "ok" => table = job.target
        /\ phase = "done" /\ verdict = "restored" => table = job.previous

\* The bound on generations leaves room for every write that is under way.
Bounded ==
    /\ IsFiniteSet(Writes)
    /\ wup => generation + Cardinality(Writes) <= MaxGeneration
    /\ reply # NoReply => reply.generation <= MaxGeneration

WorkerInv ==
    /\ WorkerTypeOK
    /\ Served /\ Replies /\ Programs /\ TableKnown /\ Bounded
    /\ WorkerCacheTruth

\* A step of the Worker or of somebody else on its device.
WorkerMoves ==
    \/ \E call \in calls : Handler(call) \/ Drop(call)
    \/ CallBackend \/ Programmed \/ FinishCall
    \/ \E t \in ForeignTables : Interfere(t)
    \/ WorkerCrash
    \/ \E watched \in BOOLEAN : WorkerStart(watched)

----------------------------------------------------------------------------------
(* Types *)

\* There is a table whenever there is a device.
LEMMA NoJobTyped ==
    ASSUME WorkerTypeOK PROVE NoJob \in [previous : Tables, target : Tables]
<1>1. table \in Tables
  BY DEF WorkerTypeOK, Txn!AtomicTypeOK
<1> QED
  BY <1>1 DEF NoJob

\* A call that is answered and forgotten.
LEMMA DismissedTyped ==
    ASSUME WorkerTypeOK, NEW call \in calls, calls' = calls \ {call},
           UNCHANGED <<txnVars, wup, entries, generation, running, awaited>>,
           wcache' \in CacheStates, unseen' \in BOOLEAN,
           NEW outcome \in Outcomes, reply' = reply \/ Answer(call, outcome)
    PROVE  WorkerTypeOK'
<1>1. Txn!AtomicTypeOK'
  BY DEF WorkerTypeOK, Txn!AtomicTypeOK, txnVars
<1>2. reply' \in [outcome : Outcomes, cache : CacheStates, generation : Nat] \cup {NoReply}
  <2>1. generation' \in Nat
    BY WorkerAssumption DEF WorkerTypeOK
  <2> QED
    BY <2>1 DEF WorkerTypeOK, Answer
<1> QED
  BY <1>1, <1>2 DEF WorkerTypeOK

\* The call that has ended.
LEMMA FinishTyped ==
    ASSUME WorkerTypeOK, NEW outcome \in Outcomes, Finish(outcome), entries' \in Tables,
           wcache' \in CacheStates, generation' \in 0..MaxGeneration, unseen' \in BOOLEAN
    PROVE  WorkerTypeOK'
<1>1. Txn!AtomicTypeOK'
  BY NoJobTyped DEF WorkerTypeOK, Txn!AtomicTypeOK, Finish, Txn!Return, Txn!Verdicts
<1>2. reply' \in [outcome : Outcomes, cache : CacheStates, generation : Nat] \cup {NoReply}
  <2>1. generation' \in Nat
    BY WorkerAssumption
  <2> QED
    BY <2>1 DEF WorkerTypeOK, Answer, Finish
<1> QED
  BY <1>1, <1>2 DEF WorkerTypeOK, Finish

\* A write that is under way has a generation to give.
LEMMA RoomForCommit ==
    ASSUME WorkerInv, running # NoCall
    PROVE  generation + 1 \in 0..MaxGeneration
<1>1. running \in Writes /\ wup
  BY DEF WorkerInv, Programs, Served, Writes, Outstanding
<1>2. IsFiniteSet(Writes) /\ generation + Cardinality(Writes) <= MaxGeneration
  BY <1>1 DEF WorkerInv, Bounded
<1>3. Cardinality(Writes) \in Nat /\ Cardinality(Writes) # 0
  BY <1>1, <1>2, FS_CardinalityType, FS_EmptySet
<1>4. generation \in Nat /\ MaxGeneration \in Nat
  BY WorkerAssumption DEF WorkerInv, WorkerTypeOK
<1> HIDE DEF Writes
<1> QED
  BY <1>2, <1>3, <1>4

\* Every step of the Worker keeps its types.
LEMMA WorkerTypesKept == ASSUME WorkerInv, WorkerMoves PROVE WorkerTypeOK'
<1>1. WorkerTypeOK
  BY DEF WorkerInv
<1>2. ASSUME NEW call \in calls, Handler(call) PROVE WorkerTypeOK'
  <2>1. wcache \in CacheStates /\ unseen \in BOOLEAN /\ call \in Calls
    BY <1>1 DEF WorkerTypeOK
  <2>2. CASE RefuseApply(call)
    BY <1>1, <2>1, <2>2, DismissedTyped DEF RefuseApply, cacheVars, Outcomes
  <2>3. CASE FindDrift(call)
    BY <1>1, <2>1, <2>3, DismissedTyped DEF FindDrift, CacheStates, Outcomes
  <2>4. CASE Unreadable(call)
    BY <1>1, <2>1, <2>4, DismissedTyped DEF Unreadable, cacheVars, Outcomes
  <2>5. CASE RecoverUnread(call)
    BY <1>1, <2>1, <2>5, DismissedTyped DEF RecoverUnread, CacheStates, Outcomes
  <2>6. CASE Reconcile(call)
    BY <1>1, <2>1, <2>6, DismissedTyped DEF Reconcile, CacheStates, Outcomes
  <2>7. CASE StartApply(call) \/ StartRecover(call)
    <3>1. /\ \E previous : Start(call, previous)
          /\ unseen' \in BOOLEAN
      BY <2>1, <2>7 DEF StartApply, StartRecover
    <3>2. Txn!AtomicTypeOK'
      <4>1. PICK previous \in Tables : Start(call, previous)
        BY <1>1, <2>7 DEF StartApply, StartRecover, WorkerTypeOK, Txn!AtomicTypeOK
      <4>2. call.target \in Tables
        BY <2>1 DEF Calls
      <4> QED
        BY <1>1, <4>1, <4>2 DEF Start, WorkerTypeOK, Txn!AtomicTypeOK
    <3>3. UNCHANGED <<wup, entries, generation, wcache, awaited, reply>> /\ running' = call
          /\ calls' \subseteq calls
      BY <3>1 DEF Start, cacheVars
    <3> QED
      BY <1>1, <2>1, <3>1, <3>2, <3>3 DEF WorkerTypeOK
  <2> QED
    BY <1>2, <2>2, <2>3, <2>4, <2>5, <2>6, <2>7 DEF Handler
<1>3. ASSUME NEW call \in calls, Drop(call) PROVE WorkerTypeOK'
  BY <1>1, <1>3, DismissedTyped DEF Drop, cacheVars, Outcomes, WorkerTypeOK
<1>9. CASE CallBackend
  <2>1. Txn!AtomicTypeOK'
    BY <1>1, <1>9 DEF CallBackend, WorkerTypeOK, Txn!Begin, Txn!AtomicTypeOK, Txn!Verdicts
  <2> QED
    BY <1>1, <1>9, <2>1 DEF CallBackend, WorkerTypeOK, cacheVars, channelVars
<1>4. CASE Programmed
  <2>1. Txn!AtomicTypeOK' /\ unseen' \in BOOLEAN
    BY <1>1, <1>4 DEF Programmed, WorkerTypeOK, Txn!Commit, Txn!Abort, Txn!Fail, Txn!Finish,
       Txn!AtomicTypeOK, Txn!Verdicts
  <2>2. UNCHANGED <<wup, cacheVars, channelVars>>
    BY <1>4 DEF Programmed
  <2> QED
    BY <1>1, <2>1, <2>2 DEF WorkerTypeOK, cacheVars, channelVars
<1>5. CASE FinishCall
  <2>1. running # NoCall
    BY <1>5 DEF WorkerInv, Served, FinishCall, FinishApply, FinishRecover, FailRecover,
       Finish, Txn!Return
  <2>2. generation + 1 \in 0..MaxGeneration /\ running.target \in Tables
    BY <1>1, <2>1, RoomForCommit DEF WorkerTypeOK, Calls
  <2>3. verdict \in {"none", "ok", "restored", "failed"} /\ verdict # "none"
    BY <1>1, <1>5 DEF WorkerTypeOK, Txn!AtomicTypeOK, Txn!Verdicts, WorkerInv, Served,
       FinishCall, FinishApply, FinishRecover, FailRecover, Finish, Txn!Return
  <2>4. entries \in Tables /\ generation \in 0..MaxGeneration /\ unseen \in BOOLEAN
    BY <1>1 DEF WorkerTypeOK
  <2>5. CASE FinishApply
    BY <1>1, <2>2, <2>3, <2>4, <2>5, FinishTyped DEF FinishApply, Outcomes, CacheStates
  <2>6. CASE FinishRecover
    BY <1>1, <2>2, <2>4, <2>6, FinishTyped DEF FinishRecover, Outcomes, CacheStates
  <2>7. CASE FailRecover
    BY <1>1, <2>4, <2>7, FinishTyped DEF FailRecover, Outcomes, CacheStates
  <2> QED
    BY <1>5, <2>5, <2>6, <2>7 DEF FinishCall
<1>6. ASSUME NEW t \in ForeignTables, Interfere(t) PROVE WorkerTypeOK'
  <2>1. Txn!AtomicTypeOK'
    BY <1>1, <1>6 DEF Interfere, Txn!Interfere, WorkerTypeOK, Txn!AtomicTypeOK
  <2> QED
    BY <1>1, <1>6, <2>1 DEF Interfere, WorkerTypeOK, cacheVars, channelVars
<1>7. CASE WorkerCrash
  <2>1. Txn!AtomicTypeOK'
    BY <1>1, <1>7, NoJobTyped DEF WorkerCrash, WorkerDies, WorkerTypeOK, Txn!AtomicTypeOK,
       Txn!Verdicts
  <2>2. NoJob.previous \in Tables
    BY <1>1, NoJobTyped
  <2>3. 0 \in 0..MaxGeneration
    BY WorkerAssumption
  <2>4. /\ wup' = FALSE /\ entries' = NoJob.previous /\ generation' = 0
        /\ wcache' = "UNKNOWN" /\ calls' = {} /\ running' = NoCall
        /\ unseen' = TRUE /\ UNCHANGED <<awaited, reply>>
    BY <1>7 DEF WorkerCrash, WorkerDies
  <2> QED
    BY <1>1, <2>1, <2>2, <2>3, <2>4 DEF WorkerTypeOK, CacheStates
<1>8. ASSUME NEW watched \in BOOLEAN, WorkerStart(watched) PROVE WorkerTypeOK'
  <2>1. Txn!AtomicTypeOK' /\ table \in Tables
    BY <1>1, <1>8 DEF WorkerStart, WorkerTypeOK, Txn!AtomicTypeOK, txnVars
  <2>2. 1 \in 0..MaxGeneration
    BY WorkerAssumption
  <2> QED
    BY <1>1, <1>8, <2>1, <2>2 DEF WorkerStart, WorkerTypeOK, CacheStates, channelVars
<1> QED
  BY <1>2, <1>3, <1>4, <1>5, <1>6, <1>7, <1>8, <1>9 DEF WorkerMoves

----------------------------------------------------------------------------------
(* The calls and the lock *)

\* A call that is answered without the lock.
Dismiss(call) ==
    /\ call \in calls /\ calls' = calls \ {call}
    /\ UNCHANGED <<txnVars, wup, entries, generation, running, awaited>>

\* A handler that does not program the device dismisses its call.
LEMMA HandlersDismiss ==
    ASSUME NEW call \in calls, Handler(call), ~StartApply(call), ~StartRecover(call)
    PROVE  Dismiss(call) /\ Unlocked
BY DEF Handler, RefuseApply, FindDrift, Unreadable, RecoverUnread, Reconcile, Dismiss, cacheVars

\* A call that starts moves from the waiting ones to the lock.
LEMMA StartsRunning ==
    ASSUME WorkerInv, NEW call \in calls, StartApply(call) \/ StartRecover(call)
    PROVE  /\ running = NoCall /\ phase = "idle" /\ wup
           /\ running' = call /\ calls' = calls \ {call} /\ call # NoCall
           /\ call.kind \in {"apply", "recover"}
           /\ job'.target = call.target
           /\ UNCHANGED <<table, phase, verdict, disturbed, wup, entries, generation, wcache, awaited, reply>>
<1>1. call \in Calls
  BY DEF WorkerInv, WorkerTypeOK
<1>2. call # NoCall
  BY <1>1 DEF Calls, NoCall
<1> QED
  BY <1>2 DEF StartApply, StartRecover, Start, Unlocked, WorkerInv, Served, cacheVars

\* The lock is released with the verdict.
LEMMA FinishReleases ==
    ASSUME WorkerInv, FinishCall
    PROVE  /\ running # NoCall /\ phase = "done" /\ wup
           /\ running' = NoCall /\ phase' = "idle" /\ verdict' = "none"
           /\ UNCHANGED <<table, wup, calls, awaited>>
           /\ \E outcome : Answer(running, outcome)
BY DEF FinishCall, FinishApply, FinishRecover, FailRecover, Finish, Txn!Return, WorkerInv, Served

\* No step makes a call of the Worker's own.
LEMMA CallsShrink ==
    ASSUME WorkerInv, WorkerMoves
    PROVE  Outstanding' \subseteq Outstanding
<1>1. ASSUME NEW call \in calls, Handler(call) \/ Drop(call)
      PROVE  Outstanding' \subseteq Outstanding
  <2>1. CASE Dismiss(call) \/ Drop(call)
    BY <2>1 DEF Outstanding, Dismiss, Drop
  <2>2. CASE StartApply(call) \/ StartRecover(call)
    BY <2>2, StartsRunning DEF Outstanding
  <2> QED
    BY <1>1, <2>1, <2>2, HandlersDismiss
<1>2. CASE CallBackend \/ Programmed \/ \E t \in ForeignTables : Interfere(t)
  BY <1>2 DEF CallBackend, Programmed, Interfere, channelVars, Outstanding
<1>3. CASE FinishCall
  BY <1>3, FinishReleases DEF Outstanding
<1>4. CASE WorkerCrash
  BY <1>4 DEF WorkerCrash, WorkerDies, Outstanding
<1>5. CASE \E watched \in BOOLEAN : WorkerStart(watched)
  BY <1>5 DEF WorkerStart, channelVars, Outstanding
<1> QED
  BY <1>1, <1>2, <1>3, <1>4, <1>5 DEF WorkerMoves

\* The lock.
LEMMA ServedKept == ASSUME WorkerInv, WorkerMoves PROVE Served'
<1>1. Served /\ Outstanding' \subseteq Outstanding
  BY CallsShrink DEF WorkerInv
<1>2. (\A c, d \in Outstanding : c.id = d.id => c = d)'
  <2>1. \A c, d \in Outstanding : c.id = d.id => c = d
    BY <1>1 DEF Served
  <2> QED
    BY <1>1, <2>1
<1> DEFINE Lock == /\ ~wup => calls = {} /\ running = NoCall
                   /\ running = NoCall => phase = "idle"
                   /\ phase = "done" <=> verdict # "none"
                   /\ running \notin calls
<1>3. Lock'
  <2>1. ASSUME NEW call \in calls, Handler(call) \/ Drop(call) PROVE Lock'
    <3>1. CASE Dismiss(call) \/ Drop(call)
      BY <1>1, <2>1, <3>1 DEF Served, Dismiss, Drop, txnVars
    <3>2. CASE StartApply(call) \/ StartRecover(call)
      BY <1>1, <3>2, StartsRunning DEF Served
    <3> QED
      BY <2>1, <3>1, <3>2, HandlersDismiss
  <2>7. CASE CallBackend
    BY <1>1, <2>7 DEF CallBackend, channelVars, Txn!Begin, Served
  <2>2. CASE Programmed
    BY <1>1, <2>2 DEF Programmed, channelVars, Txn!Commit, Txn!Abort, Txn!Fail, Txn!Finish, Served
  <2>3. CASE \E t \in ForeignTables : Interfere(t)
    BY <1>1, <2>3 DEF Interfere, Txn!Interfere, channelVars, Served
  <2>4. CASE FinishCall
    <3>1. NoCall \notin calls
      BY DEF WorkerInv, WorkerTypeOK, Calls, NoCall
    <3> QED
      BY <1>1, <2>4, <3>1, FinishReleases DEF Served
  <2>5. CASE WorkerCrash
    BY <2>5 DEF WorkerCrash, WorkerDies
  <2>6. CASE \E watched \in BOOLEAN : WorkerStart(watched)
    BY <1>1, <2>6 DEF WorkerStart, channelVars, txnVars, Served
  <2> QED
    BY <2>1, <2>2, <2>3, <2>4, <2>5, <2>6, <2>7 DEF WorkerMoves
<1> QED
  BY <1>2, <1>3 DEF Served

\* A step that answers has ended its call; no other step answers.
LEMMA RepliesKept == ASSUME WorkerInv, WorkerMoves PROVE Replies'
<1>1. Replies /\ Outstanding' \subseteq Outstanding /\ awaited' = awaited
  BY CallsShrink DEF WorkerInv, WorkerMoves, Handler, RefuseApply, FindDrift, Unreadable,
     RecoverUnread, Reconcile, StartApply, StartRecover, Start, Drop, CallBackend, Programmed, channelVars,
     FinishCall, FinishApply, FinishRecover, FailRecover, Finish, Interfere, WorkerCrash,
     WorkerStart
<1>2. CASE reply' = reply
  BY <1>1, <1>2 DEF Replies
<1>3. ASSUME NEW c \in Outstanding, c.id = awaited, c \notin Outstanding' PROVE Replies'
  <2>1. \A d \in Outstanding : c.id = d.id => c = d
    BY <1>3 DEF WorkerInv, Served
  <2>2. \A d \in Outstanding' : d.id # awaited'
    BY <1>1, <1>3, <2>1
  <2>3. awaited # 0
    BY <1>3, WorkerAssumption DEF WorkerInv, WorkerTypeOK, Outstanding, Calls
  <2> QED
    BY <1>1, <2>2, <2>3 DEF Replies
<1>4. reply' = reply \/ \E c \in Outstanding : c.id = awaited /\ c \notin Outstanding'
  <2>1. ASSUME NEW call \in calls, Handler(call) \/ Drop(call) PROVE <1>4
    <3>1. call \in Outstanding
      BY DEF Outstanding
    <3>2. reply' = reply \/ call.id = awaited
      BY <2>1 DEF Handler, RefuseApply, FindDrift, Unreadable, RecoverUnread, Reconcile,
         StartApply, StartRecover, Start, Drop, Answer
    <3>3. CASE Dismiss(call)
      <4>1. call \notin Outstanding'
        <5>1. call # running
          BY DEF WorkerInv, Served
        <5> QED
          BY <3>3, <5>1 DEF Dismiss, Outstanding
      <4> QED
        BY <3>1, <3>2, <4>1
    <3>4. CASE StartApply(call) \/ StartRecover(call)
      BY <3>4, StartsRunning
    <3>5. CASE Drop(call)
      BY <3>5 DEF Drop
    <3> QED
      BY <2>1, <3>3, <3>4, <3>5, HandlersDismiss
  <2>2. CASE FinishCall
    <3>1. running \in Outstanding
      BY <2>2, FinishReleases DEF Outstanding
    <3>2. running \notin Outstanding'
      BY <2>2, FinishReleases DEF Outstanding, WorkerInv, Served
    <3>3. reply' = reply \/ running.id = awaited
      BY <2>2, FinishReleases DEF Answer
    <3> QED
      BY <3>1, <3>2, <3>3
  <2>3. CASE CallBackend \/ Programmed \/ WorkerCrash \/ (\E t \in ForeignTables : Interfere(t))
             \/ (\E watched \in BOOLEAN : WorkerStart(watched))
    BY <2>3 DEF CallBackend, Programmed, WorkerCrash, Interfere, WorkerStart, channelVars
  <2> QED
    BY <2>1, <2>2, <2>3 DEF WorkerMoves
<1> QED
  BY <1>2, <1>3, <1>4

----------------------------------------------------------------------------------
(* The table and the cache *)

\* The arguments of apply() are those of the call that holds the lock.
LEMMA ProgramsKept == ASSUME WorkerInv, WorkerMoves PROVE Programs'
<1>1. Programs /\ Served
  BY DEF WorkerInv
<1>2. CASE /\ UNCHANGED <<running, job>>
           /\ running = NoCall \/ UNCHANGED <<entries, generation, wcache>>
  BY <1>1, <1>2 DEF Programs, Accepted
<1>3. CASE running' = NoCall
  BY <1>3 DEF Programs
<1>4. ASSUME NEW call \in calls, StartApply(call) \/ StartRecover(call) PROVE Programs'
  <2>1. /\ running' = call /\ call.kind \in {"apply", "recover"}
        /\ job'.target = call.target
        /\ UNCHANGED <<entries, generation, wcache>>
    BY <1>4, StartsRunning
  <2>2. ASSUME call.kind = "apply" PROVE Accepted(call) /\ job'.previous = entries
    BY <1>4, <2>2 DEF StartApply, StartRecover, Start
  <2> QED
    BY <2>1, <2>2 DEF Programs, Accepted
<1>5. ASSUME NEW call \in calls, Handler(call) \/ Drop(call) PROVE Programs'
  <2>1. CASE Dismiss(call) /\ Unlocked
    BY <1>2, <2>1 DEF Dismiss, Unlocked, txnVars
  <2>2. CASE Drop(call)
    BY <1>2, <2>2 DEF Drop, txnVars, cacheVars
  <2> QED
    BY <1>4, <1>5, <2>1, <2>2, HandlersDismiss
<1>6. CASE CallBackend \/ Programmed \/ \E t \in ForeignTables : Interfere(t)
  BY <1>2, <1>6 DEF CallBackend, Programmed, Interfere, Txn!Commit, Txn!Abort, Txn!Fail, Txn!Finish,
     Txn!Interfere, cacheVars, channelVars
<1>7. CASE FinishCall
  BY <1>3, <1>7, FinishReleases
<1>8. CASE WorkerCrash
  BY <1>3, <1>8 DEF WorkerCrash, WorkerDies
<1>9. CASE \E watched \in BOOLEAN : WorkerStart(watched)
  BY <1>1, <1>3, <1>9 DEF WorkerStart, channelVars, Served
<1> QED
  BY <1>5, <1>6, <1>7, <1>8, <1>9 DEF WorkerMoves

\* The table, as long as nobody else writes it: a transaction starts on the table its
\* call was accepted for.
LEMMA TableKept == ASSUME WorkerInv, WorkerMoves PROVE TableKnown'
<1>1. TableKnown /\ WorkerCacheTruth /\ Served /\ Programs
  BY DEF WorkerInv
<1>2. CASE UNCHANGED <<txnVars, running>> /\ running = NoCall
  BY <1>1, <1>2 DEF Served, TableKnown, txnVars
<1>3. ASSUME NEW call \in calls, Handler(call) \/ Drop(call) PROVE TableKnown'
  <2>1. CASE Dismiss(call) /\ Unlocked
    BY <1>2, <2>1 DEF Dismiss, Unlocked
  <2>2. CASE Drop(call)
    BY <1>1, <2>2 DEF Drop, txnVars, TableKnown
  <2>3. CASE StartApply(call) \/ StartRecover(call)
    <3>1. /\ phase' = "idle" /\ table' = table /\ Unlocked
      BY <2>3, StartsRunning DEF Unlocked
    <3>2. ~unseen' => table = job'.previous
      <4>1. CASE StartRecover(call)
        BY <4>1 DEF StartRecover, Start
      <4>2. CASE StartApply(call)
        <5>1. /\ job'.previous = entries /\ wcache = "READY" /\ ~Stale
              /\ unseen' = (unseen /\ Consistency # "STRICT_DEVICE")
          BY <4>2 DEF StartApply, Start, Accepted
        <5> QED
          BY <1>1, <3>1, <5>1 DEF WorkerCacheTruth, Stale
      <4> QED
        BY <2>3, <4>1, <4>2
    <3> QED
      BY <3>1, <3>2 DEF TableKnown
  <2> QED
    BY <1>3, <2>1, <2>2, <2>3, HandlersDismiss
<1>8. CASE CallBackend
  <2>1. /\ phase = "idle" /\ running # NoCall
        /\ phase' = "busy" /\ disturbed' = FALSE /\ UNCHANGED <<table, job, unseen>>
    BY <1>8 DEF CallBackend, Txn!Begin
  <2> QED
    BY <1>1, <2>1 DEF TableKnown
<1>4. CASE Programmed
  <2>1. CASE Txn!Commit /\ unseen' = (unseen /\ ~Verify)
    <3>1. phase = "busy" /\ phase' = "done" /\ verdict' = "ok" /\ job' = job
      BY <2>1 DEF Txn!Commit, Txn!Finish
    <3>2. ~unseen' => Txn!Trustworthy
      BY <1>1, <2>1, <3>1 DEF TableKnown, Txn!Trustworthy
    <3>3. ~unseen' => table' = job.target
      BY <2>1, <3>2 DEF Txn!Commit
    <3> QED
      BY <3>1, <3>3 DEF TableKnown
  <2>2. CASE Txn!Abort
    BY <2>2 DEF Txn!Abort, Txn!Finish, TableKnown
  <2>3. CASE Txn!Fail
    BY <2>3 DEF Txn!Fail, Txn!Finish, TableKnown
  <2> QED
    BY <1>4, <2>1, <2>2, <2>3 DEF Programmed
<1>5. CASE FinishCall
  BY <1>5, FinishReleases DEF TableKnown
<1>6. CASE (\E t \in ForeignTables : Interfere(t)) \/ WorkerCrash
  BY <1>6 DEF Interfere, WorkerCrash, WorkerDies, TableKnown
<1>7. CASE \E watched \in BOOLEAN : WorkerStart(watched)
  BY <1>1, <1>2, <1>7 DEF WorkerStart, Served, channelVars
<1> QED
  BY <1>3, <1>4, <1>5, <1>6, <1>7, <1>8 DEF WorkerMoves

\* The cache: READY is said by a comparison, by a verified write, and by a start.
LEMMA CacheKept == ASSUME WorkerInv, WorkerMoves PROVE WorkerCacheTruth'
<1>1. TableKnown /\ WorkerCacheTruth /\ Served /\ Programs
  BY DEF WorkerInv
<1>2. CASE running' # NoCall \/ unseen'
  BY <1>2 DEF WorkerCacheTruth, Unlocked
<1>3. ASSUME NEW call \in calls, Handler(call) \/ Drop(call) PROVE WorkerCacheTruth'
  <2>1. CASE RefuseApply(call) \/ Unreadable(call) \/ Drop(call)
    BY <1>1, <2>1 DEF RefuseApply, Unreadable, Drop, txnVars, cacheVars, WorkerCacheTruth,
       Unlocked
  <2>2. CASE FindDrift(call) \/ RecoverUnread(call)
    BY <2>2 DEF FindDrift, RecoverUnread, WorkerCacheTruth
  <2>3. CASE Reconcile(call)
    BY <2>3 DEF Reconcile, txnVars, WorkerCacheTruth
  <2>4. CASE StartApply(call) \/ StartRecover(call)
    BY <1>2, <2>4, StartsRunning
  <2> QED
    BY <1>3, <2>1, <2>2, <2>3, <2>4 DEF Handler
<1>4. CASE CallBackend \/ Programmed
  <2>1. running # NoCall /\ running' = running
    BY <1>1, <1>4 DEF CallBackend, Programmed, channelVars, Served, Txn!Commit, Txn!Abort, Txn!Fail, Txn!Finish
  <2> QED
    BY <1>2, <2>1
<1>5. CASE FinishCall
  <2>1. running # NoCall /\ phase = "done" /\ table' = table
    BY <1>5, FinishReleases
  <2>2. verdict \in {"ok", "restored", "failed"}
    BY <1>1, <2>1 DEF Served, WorkerInv, WorkerTypeOK, Txn!AtomicTypeOK, Txn!Verdicts
  <2>3. CASE FinishApply
    <3>1. job.target = running.target /\ job.previous = entries
      BY <1>1, <2>1, <2>3 DEF Programs, FinishApply
    <3>2. /\ unseen' = unseen
          /\ entries' = IF verdict = "ok" THEN running.target ELSE entries
          /\ wcache' = IF verdict = "failed" THEN "UNKNOWN" ELSE "READY"
      BY <2>3 DEF FinishApply
    <3> QED
      BY <1>1, <2>1, <2>2, <3>1, <3>2 DEF TableKnown, WorkerCacheTruth
  <2>4. CASE FinishRecover
    BY <2>1, <2>4 DEF FinishRecover, WorkerCacheTruth
  <2>5. CASE FailRecover
    BY <2>5 DEF FailRecover, WorkerCacheTruth
  <2> QED
    BY <1>5, <2>3, <2>4, <2>5 DEF FinishCall
<1>6. CASE (\E t \in ForeignTables : Interfere(t)) \/ WorkerCrash
  BY <1>2, <1>6 DEF Interfere, WorkerCrash, WorkerDies
<1>7. CASE \E watched \in BOOLEAN : WorkerStart(watched)
  BY <1>7 DEF WorkerStart, txnVars, WorkerCacheTruth
<1> QED
  BY <1>3, <1>4, <1>5, <1>6, <1>7 DEF WorkerMoves

\* A commit takes its generation out of the room its call had.
LEMMA BoundKept == ASSUME WorkerInv, WorkerMoves PROVE Bounded'
<1>1. /\ IsFiniteSet(Writes) /\ Cardinality(Writes) \in Nat
      /\ wup => generation + Cardinality(Writes) <= MaxGeneration
      /\ reply # NoReply => reply.generation <= MaxGeneration
      /\ generation \in 0..MaxGeneration
  BY FS_CardinalityType DEF WorkerInv, Bounded, WorkerTypeOK
<1>2. MaxGeneration \in Nat /\ MaxGeneration >= 1
  BY WorkerAssumption
<1>3. generation' \in 0..MaxGeneration
  BY WorkerTypesKept DEF WorkerTypeOK
<1>4. Outstanding' \subseteq Outstanding /\ Writes' \in SUBSET Writes
  BY CallsShrink DEF Writes
<1>5. IsFiniteSet(Writes') /\ Cardinality(Writes') \in Nat /\ Cardinality(Writes') <= Cardinality(Writes)
  BY <1>1, <1>4, FS_Subset, FS_CardinalityType
<1>6. reply' # NoReply => reply'.generation <= MaxGeneration
  <2>1. reply' = reply \/ reply'.generation = generation'
    BY DEF WorkerMoves, Handler, RefuseApply, FindDrift, Unreadable, RecoverUnread, Reconcile,
       StartApply, StartRecover, Start, Drop, CallBackend, Programmed, channelVars, FinishCall, FinishApply,
       FinishRecover, FailRecover, Finish, Interfere, WorkerCrash, WorkerStart, Answer
  <2> QED
    BY <1>1, <1>2, <1>3, <2>1
<1>7. wup' => generation' + Cardinality(Writes') <= MaxGeneration
  <2>1. CASE wup' = wup /\ generation' = generation
    BY <1>1, <1>2, <1>5, <2>1
  <2>2. CASE FinishCall /\ generation' = generation + 1
    <3>1. running \in Writes /\ running' = NoCall /\ calls' = calls /\ wup
      BY <2>2, FinishReleases DEF WorkerInv, Programs, Writes, Outstanding
    <3>2. Writes' \in SUBSET (Writes \ {running})
      <4>1. running \notin Outstanding'
        BY <3>1 DEF WorkerInv, Served, Outstanding
      <4> QED
        BY <1>4, <4>1 DEF Writes
    <3>3. /\ IsFiniteSet(Writes \ {running})
          /\ Cardinality(Writes \ {running}) = Cardinality(Writes) - 1
      BY <1>1, <3>1, FS_RemoveElement
    <3>4. Cardinality(Writes') <= Cardinality(Writes) - 1
      BY <3>2, <3>3, FS_Subset
    <3> QED
      BY <1>1, <1>2, <1>5, <2>2, <3>1, <3>4
  <2>3. CASE ~wup'
    BY <2>3
  <2>4. CASE \E watched \in BOOLEAN : WorkerStart(watched)
    <3>1. Writes' = {} /\ generation' = 1
      BY <2>4 DEF WorkerStart, channelVars, WorkerInv, Served, Writes, Outstanding
    <3> QED
      BY <1>2, <3>1, FS_EmptySet
  <2>5. \/ wup' = wup /\ generation' = generation
        \/ FinishCall /\ generation' = generation + 1
        \/ ~wup'
        \/ \E watched \in BOOLEAN : WorkerStart(watched)
    BY DEF WorkerMoves, Handler, RefuseApply, FindDrift, Unreadable, RecoverUnread, Reconcile,
       StartApply, StartRecover, Start, Drop, CallBackend, Programmed, cacheVars, FinishCall, FinishApply,
       FinishRecover, FailRecover, Finish, Interfere, WorkerCrash, WorkerDies
  <2> QED
    BY <2>1, <2>2, <2>3, <2>4, <2>5
<1> QED
  BY <1>5, <1>6, <1>7 DEF Bounded

\* The Worker's invariant.
LEMMA WorkerKeepsInv == ASSUME WorkerInv, WorkerMoves PROVE WorkerInv'
BY WorkerTypesKept, ServedKept, RepliesKept, ProgramsKept, TableKept, CacheKept, BoundKept
   DEF WorkerInv

----------------------------------------------------------------------------------
(* The client's end *)

\* The request that a call of Send carries.
Request(kind, expected, target, gen, rev) ==
    [id |-> awaited', kind |-> kind, expected |-> expected, target |-> target,
     generation |-> gen, revision |-> rev]

\* A call is sent under an id of its own, and no response is on its way then.
LEMMA SendAddresses ==
    ASSUME WorkerInv, NEW kind, NEW expected, NEW target, NEW gen, NEW rev,
           Send(kind, expected, target, gen, rev)
    PROVE  /\ awaited = 0 /\ awaited' \in CallIds /\ awaited' # 0
           /\ reply = NoReply /\ reply' = NoReply
           /\ \A c \in Outstanding : c.id # awaited'
           /\ calls' = IF wup THEN calls \cup {Request(kind, expected, target, gen, rev)} ELSE calls
           /\ Outstanding' = IF wup THEN Outstanding \cup {Request(kind, expected, target, gen, rev)}
                             ELSE Outstanding
           /\ kind # "reconcile" => MayWrite
           /\ UNCHANGED <<txnVars, wup, cacheVars, running, unseen>>
<1>1. /\ awaited = 0 /\ awaited' \in FreeIds
      /\ kind # "reconcile" => MayWrite
      /\ UNCHANGED <<txnVars, wup, cacheVars, running, reply, unseen>>
  BY DEF Send
<1>2. awaited' \in CallIds /\ awaited' # 0 /\ \A c \in Outstanding : c.id # awaited'
  BY <1>1, WorkerAssumption DEF FreeIds
<1>3. reply = NoReply
  BY <1>1 DEF WorkerInv, Replies
<1>4. calls' = IF wup THEN calls \cup {Request(kind, expected, target, gen, rev)} ELSE calls
  BY DEF Send, Request
<1>5. Outstanding' = IF wup THEN Outstanding \cup {Request(kind, expected, target, gen, rev)}
                     ELSE Outstanding
  BY <1>1, <1>4 DEF Outstanding
<1> QED
  BY <1>1, <1>2, <1>3, <1>4, <1>5

\* The Worker's invariant holds with one call more.
LEMMA SendKeepsInv ==
    ASSUME WorkerInv, NEW kind \in {"apply", "recover", "reconcile"}, NEW expected \in Tables,
           NEW target \in Tables, NEW gen \in Nat, NEW rev \in Nat,
           Send(kind, expected, target, gen, rev)
    PROVE  WorkerInv'
<1> DEFINE c == Request(kind, expected, target, gen, rev)
<1>1. /\ awaited = 0 /\ awaited' \in CallIds /\ awaited' # 0
      /\ reply = NoReply /\ reply' = NoReply
      /\ \A d \in Outstanding : d.id # awaited'
      /\ calls' = IF wup THEN calls \cup {c} ELSE calls
      /\ Outstanding' = IF wup THEN Outstanding \cup {c} ELSE Outstanding
      /\ kind # "reconcile" => MayWrite
      /\ UNCHANGED <<txnVars, wup, cacheVars, running, unseen>>
  BY SendAddresses
<1>2. c \in Calls /\ c.id = awaited' /\ c.kind = kind
  BY <1>1 DEF Calls, Request
<1> HIDE DEF c
<1>3. WorkerTypeOK'
  <2>1. Txn!AtomicTypeOK'
    BY <1>1 DEF WorkerInv, WorkerTypeOK, Txn!AtomicTypeOK, txnVars
  <2> QED
    BY <1>1, <1>2, <2>1 DEF WorkerInv, WorkerTypeOK, cacheVars
<1>4. Served'
  <2>1. running # c
    BY <1>1, <1>2 DEF WorkerInv, WorkerTypeOK, Outstanding, Calls, NoCall
  <2>2. (\A d, e \in Outstanding : d.id = e.id => d = e)'
    BY <1>1, <1>2 DEF WorkerInv, Served
  <2> QED
    BY <1>1, <2>1, <2>2 DEF WorkerInv, Served, txnVars
<1>5. Replies' /\ Programs' /\ TableKnown' /\ WorkerCacheTruth'
  BY <1>1 DEF WorkerInv, Replies, Programs, TableKnown, WorkerCacheTruth, txnVars, cacheVars,
     Accepted, Unlocked
<1>6. Bounded'
  <2>1. /\ IsFiniteSet(Writes) /\ Cardinality(Writes) \in Nat
        /\ wup => generation + Cardinality(Writes) <= MaxGeneration
        /\ generation \in Nat /\ MaxGeneration \in Nat
    BY FS_CardinalityType, WorkerAssumption DEF WorkerInv, Bounded, WorkerTypeOK
  <2>2. CASE Writes' = Writes
    BY <1>1, <2>1, <2>2 DEF Bounded, cacheVars
  <2>3. CASE wup /\ kind # "reconcile" /\ Writes' = Writes \cup {c}
    <3>1. /\ IsFiniteSet(Writes') /\ Cardinality(Writes') \in Nat
          /\ Cardinality(Writes') = Cardinality(Writes) \/ Cardinality(Writes') = Cardinality(Writes) + 1
      BY <2>1, <2>3, FS_AddElement, FS_CardinalityType
    <3>2. generation + Cardinality(Writes) < MaxGeneration
      BY <1>1, <2>3 DEF MayWrite
    <3>3. generation' = generation
      BY <1>1 DEF cacheVars
    <3>4. generation' + Cardinality(Writes') <= MaxGeneration
      BY <2>1, <3>1, <3>2, <3>3
    <3> QED
      BY <1>1, <3>1, <3>4 DEF Bounded
  <2>4. Writes' = Writes \/ (wup /\ kind # "reconcile" /\ Writes' = Writes \cup {c})
    BY <1>1, <1>2 DEF Writes
  <2> QED
    BY <2>2, <2>3, <2>4
<1> QED
  BY <1>3, <1>4, <1>5, <1>6 DEF WorkerInv

\* So it does when the client has its response, or waits no longer.
LEMMA ClientKeepsInv == ASSUME WorkerInv, Receive \/ GiveUp PROVE WorkerInv'
<1>1. /\ awaited' = 0 /\ reply' = NoReply
      /\ UNCHANGED <<txnVars, wup, cacheVars, calls, running, unseen>>
  BY DEF Receive, GiveUp
<1>2. WorkerTypeOK'
  <2>1. Txn!AtomicTypeOK'
    BY <1>1 DEF WorkerInv, WorkerTypeOK, Txn!AtomicTypeOK, txnVars
  <2> QED
    BY <1>1, <2>1 DEF WorkerInv, WorkerTypeOK, cacheVars
<1>3. Served' /\ Replies' /\ Programs' /\ TableKnown' /\ WorkerCacheTruth'
  BY <1>1 DEF WorkerInv, Served, Replies, Programs, TableKnown, WorkerCacheTruth, txnVars,
     cacheVars, Accepted, Unlocked, Outstanding
<1>4. Bounded'
  <2>1. Writes' = Writes
    BY <1>1 DEF Writes, Outstanding
  <2> QED
    BY <1>1, <2>1 DEF WorkerInv, Bounded, cacheVars
<1> QED
  BY <1>2, <1>3, <1>4 DEF WorkerInv

\* And when both processes end.
LEMMA DeathKeepsInv ==
    ASSUME WorkerInv, NEW writing, WorkerDies(writing), awaited' = 0, reply' = NoReply
    PROVE  WorkerInv' /\ Outstanding' = {} /\ ~wup'
<1>1. /\ wup' = FALSE /\ entries' = NoJob.previous /\ generation' = 0
      /\ wcache' = "UNKNOWN" /\ calls' = {} /\ running' = NoCall /\ unseen' = TRUE
      /\ phase' = "idle" /\ verdict' = "none" /\ disturbed' = FALSE /\ job' = NoJob
      /\ table' \in Tables
  BY DEF WorkerDies, WorkerInv, WorkerTypeOK, Txn!AtomicTypeOK
<1>2. NoJob \in [previous : Tables, target : Tables]
  BY NoJobTyped DEF WorkerInv
<1>3. 0 \in 0..MaxGeneration
  BY WorkerAssumption
<1>4. WorkerTypeOK'
  <2>1. Txn!AtomicTypeOK'
    BY <1>1, <1>2 DEF Txn!AtomicTypeOK, Txn!Verdicts
  <2> QED
    BY <1>1, <1>2, <1>3, <2>1 DEF WorkerTypeOK, CacheStates
<1>5. Outstanding' = {} /\ Writes' = {}
  BY <1>1 DEF Outstanding, Writes
<1>6. Served' /\ Replies' /\ Programs' /\ TableKnown' /\ WorkerCacheTruth'
  BY <1>1, <1>5 DEF Served, Replies, Programs, TableKnown, WorkerCacheTruth
<1>7. Bounded'
  BY <1>1, <1>5, FS_EmptySet DEF Bounded
<1> QED
  BY <1>1, <1>4, <1>5, <1>6, <1>7 DEF WorkerInv

\* Before the first Worker there is a device.
LEMMA WorkerInitInv == WorkerInit => WorkerInv
<1> SUFFICES ASSUME WorkerInit PROVE WorkerInv
  OBVIOUS
<1>1. NoJob \in [previous : Tables, target : Tables]
  BY DEF WorkerInit, NoJob
<1>2. 0 \in 0..MaxGeneration
  BY WorkerAssumption
<1>3. Txn!AtomicTypeOK
  BY <1>1 DEF WorkerInit, Txn!AtomicTypeOK, Txn!Verdicts
<1>4. WorkerTypeOK
  BY <1>1, <1>2, <1>3 DEF WorkerInit, WorkerTypeOK, CacheStates
<1>5. Outstanding = {} /\ Writes = {}
  BY DEF WorkerInit, Outstanding, Writes
<1>6. Served /\ Replies /\ Programs /\ TableKnown /\ WorkerCacheTruth
  BY <1>5 DEF WorkerInit, Served, Replies, Programs, TableKnown, WorkerCacheTruth
<1>7. Bounded
  BY <1>5, FS_EmptySet DEF WorkerInit, Bounded
<1> QED
  BY <1>4, <1>6, <1>7 DEF WorkerInv
================================================================================
