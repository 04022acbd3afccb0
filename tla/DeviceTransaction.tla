---------------------------- MODULE DeviceTransaction ----------------------------
(***************************************************************************)
(* apply() and _restore() of the two southbound backends,                  *)
(* src/agent/python/ocs_agent/backends/p4app.py and bfrt.py, one device    *)
(* write or read per step.  apply deletes what must go, waits for the      *)
(* requested gap, inserts what must come, reads the table back, and on any *)
(* exception restores the previous entries and verifies them.              *)
(*                                                                         *)
(* The OCS permission table is external: it is modelled from how the       *)
(* backends use it.  A write the device accepts takes effect before it is  *)
(* acknowledged; any write may fail having taken effect in full, in part   *)
(* or not at all; a delete of an absent and an insert of a present entry   *)
(* are refused; other writers (a CLI, another controller) can add and      *)
(* remove entries between any two steps.                                   *)
(***************************************************************************)
EXTENDS Naturals, FiniteSets

CONSTANTS
    Ports,          \* logical ports, 1..N
    Configurations, \* entry sets the agent programs: matchings, all-to-all
    ForeignPairs,   \* entries other writers may add or remove
    Backend,        \* "p4app" or "bfrt"
    Verify,         \* FALSE only for bfrt in CACHED_ACK: no readback
    Transports,     \* transports the backend advertises
    Delays          \* values of delay_us a caller may pass

Pairs == {pair \in Ports \X Ports : pair[1] # pair[2]}

ASSUME PortsAssumption == Ports \subseteq Nat
ASSUME ConfigurationsAssumption == Configurations \subseteq SUBSET Pairs
ASSUME ForeignAssumption == ForeignPairs \subseteq Pairs
ASSUME BackendAssumption ==
    /\ Backend \in {"p4app", "bfrt"}
    /\ Verify \in BOOLEAN
    /\ Backend = "p4app" => Verify
    /\ Transports \subseteq {"SEQUENTIAL", "NATIVE_BATCH"}
    /\ Delays \subseteq Nat

VARIABLES
    table,      \* entries in the device
    phase,      \* where apply() is
    job,        \* the arguments of apply()
    todo,       \* entries the current write loop still has to write
    current,    \* what _restore() read from the device
    verdict,    \* how apply() ended
    \* history, read only by properties:
    startTable, \* device contents when apply() was called
    disturbed,  \* somebody else wrote the table since
    faulted     \* the device failed a call it should have served

vars == <<table, phase, job, todo, current, verdict,
          startTable, disturbed, faulted>>

UpdatePhases == {"delete", "insert"}
RestorePhases == {"restore_delete", "restore_insert"}
WritePhases == UpdatePhases \cup RestorePhases
ReadPhases == {"readback", "restore_read", "restore_verify"}
Phases == {"idle", "gap", "done"} \cup WritePhases \cup ReadPhases

Verdicts == {"none", "ok", "restored", "failed"}

Jobs == [previous : SUBSET Pairs, target : SUBSET Pairs,
         strategy : {"FULL", "DELTA"},
         transport : {"SEQUENTIAL", "NATIVE_BATCH"}, delay : Nat]

\* Type invariant.
TypeOK ==
    /\ table \in SUBSET Pairs
    /\ phase \in Phases
    /\ job \in Jobs
    /\ todo \in SUBSET Pairs
    /\ current \in SUBSET Pairs
    /\ verdict \in Verdicts
    /\ startTable \in SUBSET Pairs
    /\ disturbed \in BOOLEAN
    /\ faulted \in BOOLEAN

----------------------------------------------------------------------------------
(* Planning *)

\* The entries the plan deletes and inserts.
Removed(j) == IF j.strategy = "FULL" THEN j.previous ELSE j.previous \ j.target

\* bug: DELTA installs the whole target
AddedWholeTarget(j) == j.target

Added(j) == IF j.strategy = "FULL" THEN j.target ELSE j.target \ j.previous

\* sorted(pairs): the order of the write loops.
PairLeq(p, q) == p[1] < q[1] \/ (p[1] = q[1] /\ p[2] <= q[2])

IsFirst(pair, S) == pair \in S /\ \A other \in S : PairLeq(pair, other)

\* P4App restores entry by entry, BFRT with one batch per direction.
RestoreTransport == IF Backend = "bfrt" THEN "NATIVE_BATCH" ELSE "SEQUENTIAL"

Transport == IF phase \in UpdatePhases THEN job.transport ELSE RestoreTransport

Deleting == phase \in {"delete", "restore_delete"}

\* The arguments between two calls.
NoJob == [previous |-> {}, target |-> {}, strategy |-> "FULL",
          transport |-> "SEQUENTIAL", delay |-> 0]

Init ==
    /\ table \in Configurations
    /\ phase = "idle"
    /\ job = NoJob
    /\ todo = {}
    /\ current = {}
    /\ verdict = "none"
    /\ startTable = {}
    /\ disturbed = FALSE
    /\ faulted = FALSE

\* The caller passes what it believes the table holds (the committed
\* configuration) or, at startup and in recovery, what it has just read.
Begin(previous, target, strategy, transport, delay) ==
    /\ phase = "idle"
    /\ job' = [previous |-> previous, target |-> target, strategy |-> strategy,
               transport |-> transport, delay |-> delay]
    /\ phase' = "delete"
    /\ todo' = Removed(job')
    /\ verdict' = "none"
    /\ startTable' = table
    /\ disturbed' = FALSE
    /\ faulted' = FALSE
    /\ UNCHANGED <<table, current>>

----------------------------------------------------------------------------------
(* The device *)

Accepts(S) == IF Deleting THEN S \subseteq table ELSE S \cap table = {}

Effect(S) == IF Deleting THEN table \ S ELSE table \cup S

\* The entries the next device request carries: all of them, or the first.
Requests ==
    IF Transport = "NATIVE_BATCH"
    THEN {todo} \ {{}}
    ELSE {{pair} : pair \in {p \in todo : IsFirst(p, todo)}}

\* bug: the update failed, but apply() reports that it was rolled back
GiveUpRestored ==
    IF phase \in {"gap", "readback"} \cup UpdatePhases
    THEN /\ phase' = "restore_read"
         /\ UNCHANGED verdict
    ELSE /\ phase' = "done"
         /\ verdict' = "restored"

\* bug: a failed rollback ends in a verdict nobody handles
GiveUpUnknown ==
    IF phase \in {"gap", "readback"} \cup UpdatePhases
    THEN /\ phase' = "restore_read"
         /\ UNCHANGED verdict
    ELSE /\ phase' = "done"
         /\ verdict' = "unknown"

\* An exception: the update is rolled back, a failed rollback is reported.
GiveUp ==
    IF phase \in {"gap", "readback"} \cup UpdatePhases
    THEN /\ phase' = "restore_read"
         /\ UNCHANGED verdict
    ELSE /\ phase' = "done"
         /\ verdict' = "failed"

Write(S) ==
    /\ phase \in WritePhases
    /\ Accepts(S)
    /\ table' = Effect(S)
    /\ todo' = todo \ S
    /\ UNCHANGED <<phase, job, current, verdict, startTable, disturbed, faulted>>

\* A refused request, or an error on a request the device should have served:
\* any part of it may have been carried out.
WriteFault(S, done) ==
    /\ phase \in WritePhases
    /\ table' = Effect(done)
    /\ faulted' = (faulted \/ Accepts(S))
    /\ GiveUp
    /\ UNCHANGED <<job, todo, current, startTable, disturbed>>

ReadFault ==
    /\ phase \in ReadPhases
    /\ phase = "readback" => Verify
    /\ faulted' = TRUE
    /\ GiveUp
    /\ UNCHANGED <<table, job, todo, current, startTable, disturbed>>

\* Somebody else adds or removes an entry.
Interfere(pair) ==
    /\ table' \in {table \cup {pair}, table \ {pair}}
    /\ table' # table
    /\ disturbed' = (phase # "idle" \/ disturbed)
    /\ UNCHANGED <<phase, job, todo, current, verdict, startTable, faulted>>

----------------------------------------------------------------------------------
(* apply() *)

\* bug: the gap is skipped and the inserts start before the deletes
InsertFirst ==
    /\ phase = "delete"
    /\ phase' = "insert"
    /\ todo' = Added(job)
    /\ UNCHANGED <<table, job, current, verdict, startTable, disturbed, faulted>>

Deleted ==
    /\ phase = "delete"
    /\ todo = {}
    /\ phase' = "gap"
    /\ UNCHANGED <<table, job, todo, current, verdict, startTable, disturbed, faulted>>

\* p4app.py never imports time, so time.sleep raises NameError there for
\* every delay_us other than zero, and the update is rolled back.
Gap ==
    /\ phase = "gap"
    /\ IF job.delay > 0 /\ Backend = "p4app"
       THEN GiveUp /\ UNCHANGED todo
       ELSE /\ phase' = "insert"
            /\ todo' = Added(job)
            /\ UNCHANGED verdict
    /\ UNCHANGED <<table, job, current, startTable, disturbed, faulted>>

Inserted ==
    /\ phase = "insert"
    /\ todo = {}
    /\ phase' = "readback"
    /\ UNCHANGED <<table, job, todo, current, verdict, startTable, disturbed, faulted>>

\* bug: readback only checks that the target entries are present
ReadbackInclusion ==
    /\ phase = "readback"
    /\ IF ~Verify \/ job.target \subseteq table
       THEN phase' = "done" /\ verdict' = "ok"
       ELSE GiveUp
    /\ UNCHANGED <<table, job, todo, current, startTable, disturbed, faulted>>

Readback ==
    /\ phase = "readback"
    /\ IF ~Verify \/ table = job.target
       THEN phase' = "done" /\ verdict' = "ok"
       ELSE GiveUp
    /\ UNCHANGED <<table, job, todo, current, startTable, disturbed, faulted>>

----------------------------------------------------------------------------------
(* _restore() *)

\* bug: the rollback removes every entry before it re-inserts the previous set
RestoreReadAll ==
    /\ phase = "restore_read"
    /\ current' = {}
    /\ todo' = table
    /\ phase' = "restore_delete"
    /\ UNCHANGED <<table, job, verdict, startTable, disturbed, faulted>>

RestoreRead ==
    /\ phase = "restore_read"
    /\ current' = table
    /\ todo' = table \ job.previous
    /\ phase' = "restore_delete"
    /\ UNCHANGED <<table, job, verdict, startTable, disturbed, faulted>>

RestoreDeleted ==
    /\ phase = "restore_delete"
    /\ todo = {}
    /\ phase' = "restore_insert"
    /\ todo' = job.previous \ current
    /\ UNCHANGED <<table, job, current, verdict, startTable, disturbed, faulted>>

RestoreInserted ==
    /\ phase = "restore_insert"
    /\ todo = {}
    /\ phase' = "restore_verify"
    /\ UNCHANGED <<table, job, todo, current, verdict, startTable, disturbed, faulted>>

\* bug: the rollback is repeated until the table is right
RestoreVerifyRetry ==
    /\ phase = "restore_verify"
    /\ IF table = job.previous
       THEN phase' = "done" /\ verdict' = "restored"
       ELSE phase' = "restore_read" /\ UNCHANGED verdict
    /\ UNCHANGED <<table, job, todo, current, startTable, disturbed, faulted>>

RestoreVerify ==
    /\ phase = "restore_verify"
    /\ phase' = "done"
    /\ verdict' = IF table = job.previous THEN "restored" ELSE "failed"
    /\ UNCHANGED <<table, job, todo, current, startTable, disturbed, faulted>>

\* The verdict reaches the caller; the locals of apply() die.
Return ==
    /\ phase = "done"
    /\ phase' = "idle"
    /\ job' = NoJob
    /\ verdict' = "none"
    /\ todo' = {}
    /\ current' = {}
    /\ startTable' = {}
    /\ disturbed' = FALSE
    /\ faulted' = FALSE
    /\ UNCHANGED table

----------------------------------------------------------------------------------
Call ==
    \E previous \in Configurations \cup {table}, target \in Configurations :
        \E strategy \in {"FULL", "DELTA"}, transport \in Transports, delay \in Delays :
            Begin(previous, target, strategy, transport, delay)

\* One step of the backend's thread.
Step ==
    \/ \E S \in Requests : Write(S)
    \/ \E S \in Requests : \E done \in SUBSET S : WriteFault(S, done)
    \/ ReadFault
    \/ Deleted
    \/ Gap
    \/ Inserted
    \/ Readback
    \/ RestoreRead
    \/ RestoreDeleted
    \/ RestoreInserted
    \/ RestoreVerify
    \/ Return

Next ==
    \/ Call
    \/ Step
    \/ \E pair \in ForeignPairs : Interfere(pair)

Spec == Init /\ [][Next]_vars

\* The thread that runs apply() is scheduled, and the device is assumed to answer every
\* call or to fail it: p4app.py gives its calls no deadline.
FairSpec == Spec /\ WF_vars(Step)

----------------------------------------------------------------------------------
(* Properties *)

\* apply() was called with the table it says it replaces, and nobody else wrote.
Undisturbed == ~disturbed /\ startTable = job.previous

\* Break before make, through failure and rollback too: at no instant does the
\* table hold an entry that only the old set has next to one that only the new
\* set has, whatever request fails and however much of it was carried out
\* (p4app.py and bfrt.py, apply and _restore).
BreakBeforeMake ==
    phase # "idle" /\ Undisturbed =>
        table \subseteq job.previous \/ table \subseteq job.target

\* A DELTA update never touches an entry both sets share, not even while it is
\* rolled back: _restore deletes only current - previous and inserts only
\* previous - current.
UnchangedEntriesPreserved ==
    phase # "idle" /\ Undisturbed /\ job.strategy = "DELTA" =>
        job.previous \cap job.target \subseteq table

\* The verdict tells the truth about the table at the instant it is reached: a
\* verified commit and a reported restoration even if other writers interfered,
\* an ACK-only commit when they did not (apply's readback and _restore's).
VerdictIsTruth ==
    [][phase # "done" /\ phase' = "done" =>
        /\ verdict' = "ok" /\ (Verify \/ Undisturbed) => table' = job.target
        /\ verdict' = "restored" => table' = job.previous]_vars

\* An update is rolled back only for a reason: the device failed a call,
\* somebody interfered, or the caller was wrong about the table.
RollbackOnlyAfterFault ==
    phase \in RestorePhases \cup {"restore_read", "restore_verify"} =>
        faulted \/ ~Undisturbed

\* Every apply() comes back with a verdict, whatever the device does.
ApplyTerminates == phase = "delete" ~> phase = "done" /\ verdict # "none"

\* apply() implements the atomic transaction the Agent Core relies on.
AtomicPhase ==
    IF phase \in {"idle", "done"} THEN phase ELSE "busy"

AtomicTable ==
    IF phase \in {"idle", "done"} THEN table ELSE startTable

Atomic == INSTANCE AtomicTransaction WITH
    Tables <- SUBSET Pairs,
    table <- AtomicTable,
    phase <- AtomicPhase,
    job <- [previous |-> job.previous, target |-> job.target]

ImplementsAtomic == Atomic!AtomicSpec
==================================================================================
