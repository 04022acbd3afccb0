-------------------------- MODULE DeviceTransactionProofs --------------------------
(***************************************************************************)
(* Proofs about apply() and _restore(), for every number of ports, every   *)
(* set of configurations (Debug Mode's all-to-all set included), both      *)
(* backends, both transports and any number of device faults and foreign   *)
(* writes.                                                                 *)
(***************************************************************************)
EXTENDS DeviceTransaction, TLAPS

(***************************************************************************)
(* The inductive invariant.  As long as nobody else wrote the table, each  *)
(* phase knows its contents exactly: what the plan keeps, and the part of  *)
(* todo the write loop has not reached.  Only a failed request loses that  *)
(* knowledge, and it leaves the table inside one of the two sets.          *)
(***************************************************************************)
Kept(j) == j.previous \ Removed(j)

\* S holds no mixture of the two sets, and still holds what a DELTA shares.
Separated(S) ==
    /\ S \subseteq job.previous \/ S \subseteq job.target
    /\ job.strategy = "DELTA" => job.previous \cap job.target \subseteq S

UpdateInv ==
    /\ phase = "delete" =>
        todo \subseteq Removed(job) /\ table = Kept(job) \cup todo
    /\ phase = "gap" => table = Kept(job)
    /\ phase = "insert" =>
        todo \subseteq Added(job) /\ table = Kept(job) \cup (Added(job) \ todo)
    /\ phase = "readback" => table = job.target

RestoreInv ==
    /\ phase = "restore_read" => Separated(table)
    /\ phase = "restore_delete" =>
        /\ Separated(current)
        /\ todo \subseteq current \ job.previous
        /\ table = (current \cap job.previous) \cup todo
    /\ phase = "restore_insert" =>
        /\ Separated(current)
        /\ todo \subseteq job.previous \ current
        /\ table = job.previous \ todo
    /\ phase = "restore_verify" => table = job.previous

DoneInv ==
    phase = "done" =>
        /\ Separated(table)
        /\ verdict = "ok" => table = job.target

Inv == TypeOK /\ (Undisturbed => UpdateInv /\ RestoreInv /\ DoneInv)

-----------------------------------------------------------------------------------
\* A request carries entries of todo, and nothing else.
LEMMA RequestsAreTodo == ASSUME NEW S \in Requests PROVE S \subseteq todo
  BY DEF Requests

\* The plan only speaks of entries of its two sets, and installs exactly what
\* the deletes have left out of the target.
LEMMA PlanIsExact ==
  ASSUME NEW j \in Jobs
  PROVE  /\ Removed(j) \subseteq j.previous
         /\ Added(j) \subseteq j.target
         /\ Kept(j) \subseteq j.target
         /\ Kept(j) \cup Added(j) = j.target
         /\ Kept(j) \cup Removed(j) = j.previous
         /\ Kept(j) \cap Added(j) = {}
         /\ j.strategy = "DELTA" => j.previous \cap j.target = Kept(j)
  <1>1. CASE j.strategy = "FULL"
    BY <1>1 DEF Removed, Added, Kept, Jobs
  <1>2. CASE j.strategy = "DELTA"
    BY <1>2 DEF Removed, Added, Kept, Jobs
  <1>3. QED
    BY <1>1, <1>2 DEF Jobs

-----------------------------------------------------------------------------------
\* The initial states are well typed.
LEMMA InitTypeOK == Init => TypeOK
  <1> SUFFICES ASSUME Init PROVE TypeOK
    OBVIOUS
  <1>1. table \in SUBSET Pairs
    BY ConfigurationsAssumption DEF Init
  <1>2. job \in Jobs
    BY DEF Init, NoJob, Jobs
  <1>3. QED
    BY <1>1, <1>2 DEF Init, TypeOK, Phases, Verdicts

\* Every variable keeps its type.
THEOREM TypeCorrect == Spec => []TypeOK
  <1>2. TypeOK /\ [Next]_vars => TypeOK'
    <2> SUFFICES ASSUME TypeOK, [Next]_vars PROVE TypeOK'
      OBVIOUS
    <2> USE DEF TypeOK, Phases, WritePhases, UpdatePhases, RestorePhases,
                ReadPhases, Verdicts
    <2>1. CASE Call
      <3>1. PICK previous \in Configurations \cup {table}, target \in Configurations,
                 strategy \in {"FULL", "DELTA"}, transport \in Transports,
                 delay \in Delays : Begin(previous, target, strategy, transport, delay)
        BY <2>1 DEF Call
      <3>2. job' \in Jobs
        BY <3>1, ConfigurationsAssumption, BackendAssumption DEF Begin, Jobs
      <3>3. QED
        BY <3>1, <3>2 DEF Begin, Removed, Jobs
    <2>2. ASSUME NEW S \in Requests, Write(S) PROVE TypeOK'
      <3>1. S \subseteq Pairs
        BY RequestsAreTodo
      <3>2. QED
        BY <2>2, <3>1 DEF Write, Effect
    <2>3. ASSUME NEW S \in Requests, NEW done \in SUBSET S, WriteFault(S, done)
          PROVE TypeOK'
      <3>1. done \subseteq Pairs
        BY RequestsAreTodo
      <3>2. faulted' \in BOOLEAN
        BY <2>3 DEF WriteFault, Accepts
      <3>3. QED
        BY <2>3, <3>1, <3>2 DEF WriteFault, Effect, GiveUp
    <2>4. CASE ReadFault
      BY <2>4 DEF ReadFault, GiveUp
    <2>5. CASE Deleted
      BY <2>5 DEF Deleted
    <2>6. CASE Gap
      BY <2>6 DEF Gap, GiveUp, Added, Jobs
    <2>7. CASE Inserted
      BY <2>7 DEF Inserted
    <2>8. CASE Readback
      BY <2>8 DEF Readback, GiveUp
    <2>9. CASE RestoreRead
      BY <2>9 DEF RestoreRead
    <2>10. CASE RestoreDeleted
      BY <2>10 DEF RestoreDeleted, Jobs
    <2>11. CASE RestoreInserted
      BY <2>11 DEF RestoreInserted
    <2>12. CASE RestoreVerify
      BY <2>12 DEF RestoreVerify
    <2>13. CASE Return
      BY <2>13 DEF Return, NoJob, Jobs
    <2>14. ASSUME NEW pair \in ForeignPairs, Interfere(pair) PROVE TypeOK'
      BY <2>14, ForeignAssumption DEF Interfere
    <2>15. CASE UNCHANGED vars
      BY <2>15 DEF vars
    <2>16. QED
      BY <2>1, <2>2, <2>3, <2>4, <2>5, <2>6, <2>7, <2>8, <2>9, <2>10, <2>11,
         <2>12, <2>13, <2>14, <2>15 DEF Next, Step
  <1>3. QED
    BY InitTypeOK, <1>2, PTL DEF Spec
-----------------------------------------------------------------------------------
\* A call starts from what its caller believes: nothing is promised otherwise.
LEMMA BeginInv ==
  ASSUME TypeOK, Call, Undisturbed' PROVE (UpdateInv /\ RestoreInv /\ DoneInv)'
  <1>1. PICK previous \in Configurations \cup {table}, target \in Configurations,
             strategy \in {"FULL", "DELTA"}, transport \in Transports,
             delay \in Delays : Begin(previous, target, strategy, transport, delay)
    BY DEF Call
  <1>2. job' \in Jobs
    BY <1>1, ConfigurationsAssumption, BackendAssumption DEF Begin, Jobs, TypeOK
  <1>3. /\ phase' = "delete" /\ todo' = Removed(job') /\ table' = table
        /\ table' = job'.previous
    BY <1>1 DEF Begin, Undisturbed
  <1>4. Kept(job') \cup Removed(job') = job'.previous
    BY <1>2, PlanIsExact
  <1>5. QED
    BY <1>3, <1>4 DEF UpdateInv, RestoreInv, DoneInv

\* A served request moves the table and todo together.
LEMMA WriteInv ==
  ASSUME TypeOK, UpdateInv, RestoreInv, DoneInv, NEW S \in Requests, Write(S)
  PROVE  (UpdateInv /\ RestoreInv /\ DoneInv)'
  <1>1. S \subseteq todo
    BY RequestsAreTodo
  <1>2. UNCHANGED <<phase, job, current, verdict>> /\ todo' = todo \ S
    BY DEF Write
  <1>3. job \in Jobs
    BY DEF TypeOK
  <1>4. Kept(job) \cap Removed(job) = {}
    BY DEF Kept
  <1>5. Kept(job) \cap Added(job) = {} /\ job' = job
    BY <1>2, <1>3, PlanIsExact
  <1>6. CASE phase = "delete"
    <2>1. table' = table \ S
      BY <1>6 DEF Write, Effect, Deleting
    <2>2. todo' \subseteq Removed(job) /\ table' = Kept(job) \cup todo'
      BY <1>1, <1>2, <1>4, <1>6, <2>1 DEF UpdateInv
    <2>3. QED
      BY <1>2, <1>6, <2>2 DEF UpdateInv, RestoreInv, DoneInv
  <1>7. CASE phase = "insert"
    <2>1. table' = table \cup S
      BY <1>7 DEF Write, Effect, Deleting
    <2>2. todo' \subseteq Added(job) /\ table' = Kept(job) \cup (Added(job) \ todo')
      BY <1>1, <1>2, <1>7, <2>1 DEF UpdateInv
    <2>3. QED
      BY <1>2, <1>7, <2>2 DEF UpdateInv, RestoreInv, DoneInv
  <1>8. CASE phase = "restore_delete"
    <2>1. table' = table \ S
      BY <1>8 DEF Write, Effect, Deleting
    <2>2. /\ Separated(current)
          /\ todo' \subseteq current \ job.previous
          /\ table' = (current \cap job.previous) \cup todo'
      BY <1>1, <1>2, <1>8, <2>1 DEF RestoreInv
    <2>3. QED
      BY <1>2, <1>8, <2>2 DEF UpdateInv, RestoreInv, DoneInv, Separated
  <1>9. CASE phase = "restore_insert"
    <2>1. table' = table \cup S
      BY <1>9 DEF Write, Effect, Deleting
    <2>2. /\ Separated(current)
          /\ todo' \subseteq job.previous \ current
          /\ table' = job.previous \ todo'
      BY <1>1, <1>2, <1>9, <2>1 DEF RestoreInv
    <2>3. QED
      BY <1>2, <1>9, <2>2 DEF UpdateInv, RestoreInv, DoneInv, Separated
  <1>10. QED
    BY <1>6, <1>7, <1>8, <1>9 DEF Write, WritePhases, UpdatePhases, RestorePhases

\* A failed request leaves the table inside one of the two sets, however much
\* of it was carried out.
LEMMA WriteFaultInv ==
  ASSUME TypeOK, UpdateInv, RestoreInv, DoneInv, NEW S \in Requests,
         NEW done \in SUBSET S, WriteFault(S, done)
  PROVE  (UpdateInv /\ RestoreInv /\ DoneInv)'
  <1>1. done \subseteq todo
    BY RequestsAreTodo
  <1>2. UNCHANGED <<job, todo, current>> /\ GiveUp /\ table' = Effect(done)
    BY DEF WriteFault
  <1>3. job \in Jobs
    BY DEF TypeOK
  <1>4. CASE phase \in UpdatePhases
    <2>1. phase' = "restore_read" /\ verdict' = verdict
      BY <1>2, <1>4 DEF GiveUp
    <2>2. CASE phase = "delete"
      <3>1. table' = table \ done
        BY <1>2, <2>2 DEF Effect, Deleting
      <3>2. table = Kept(job) \cup todo /\ todo \subseteq Removed(job)
        BY <2>2 DEF UpdateInv
      <3>3. Kept(job) \subseteq table' /\ table' \subseteq job.previous
        BY <1>1, <1>3, <3>1, <3>2, PlanIsExact DEF Kept
      <3>4. Separated(table)'
        BY <1>2, <1>3, <3>3, PlanIsExact DEF Separated
      <3>5. QED
        BY <2>1, <3>4 DEF UpdateInv, RestoreInv, DoneInv
    <2>3. CASE phase = "insert"
      <3>1. table' = table \cup done
        BY <1>2, <2>3 DEF Effect, Deleting
      <3>2. table = Kept(job) \cup (Added(job) \ todo) /\ todo \subseteq Added(job)
        BY <2>3 DEF UpdateInv
      <3>3. Kept(job) \subseteq table' /\ table' \subseteq job.target
        BY <1>1, <1>3, <3>1, <3>2, PlanIsExact
      <3>4. Separated(table)'
        BY <1>2, <1>3, <3>3, PlanIsExact DEF Separated
      <3>5. QED
        BY <2>1, <3>4 DEF UpdateInv, RestoreInv, DoneInv
    <2>4. QED
      BY <1>4, <2>2, <2>3 DEF UpdatePhases
  <1>5. CASE phase \in RestorePhases
    <2>1. phase' = "done" /\ verdict' = "failed"
      BY <1>2, <1>5 DEF GiveUp, UpdatePhases, RestorePhases
    <2>2. CASE phase = "restore_delete"
      <3>1. table' = table \ done
        BY <1>2, <2>2 DEF Effect, Deleting
      <3>2. Separated(table)'
        BY <1>1, <1>2, <2>2, <3>1 DEF RestoreInv, Separated
      <3>3. QED
        BY <2>1, <3>2 DEF UpdateInv, RestoreInv, DoneInv
    <2>3. CASE phase = "restore_insert"
      <3>1. table' = table \cup done
        BY <1>2, <2>3 DEF Effect, Deleting
      <3>2. Separated(table)'
        BY <1>1, <1>2, <2>3, <3>1 DEF RestoreInv, Separated
      <3>3. QED
        BY <2>1, <3>2 DEF UpdateInv, RestoreInv, DoneInv
    <2>4. QED
      BY <1>5, <2>2, <2>3 DEF RestorePhases
  <1>6. QED
    BY <1>4, <1>5 DEF WriteFault, WritePhases

\* Every other step of apply() and _restore().
LEMMA OtherStepsInv ==
  ASSUME TypeOK, UpdateInv, RestoreInv, DoneInv,
         \/ ReadFault \/ Deleted \/ Gap \/ Inserted \/ Readback \/ RestoreRead
         \/ RestoreDeleted \/ RestoreInserted \/ RestoreVerify \/ Return
  PROVE  (UpdateInv /\ RestoreInv /\ DoneInv)'
  <1>1. job \in Jobs
    BY DEF TypeOK
  <1>2. /\ Kept(job) \cup Added(job) = job.target
        /\ Kept(job) \subseteq job.previous
        /\ Kept(job) \subseteq job.target
        /\ job.strategy = "DELTA" => job.previous \cap job.target = Kept(job)
    BY <1>1, PlanIsExact DEF Kept
  <1>3. CASE ReadFault
    <2>1. CASE phase = "readback"
      BY <1>2, <1>3, <2>1 DEF ReadFault, GiveUp, UpdatePhases, UpdateInv, RestoreInv,
         DoneInv, Separated
    <2>2. CASE phase = "restore_read"
      BY <1>3, <2>2 DEF ReadFault, GiveUp, UpdatePhases, UpdateInv, RestoreInv,
         DoneInv, Separated
    <2>3. CASE phase = "restore_verify"
      BY <1>3, <2>3 DEF ReadFault, GiveUp, UpdatePhases, UpdateInv, RestoreInv,
         DoneInv, Separated
    <2>4. QED
      BY <1>3, <2>1, <2>2, <2>3 DEF ReadFault, ReadPhases
  <1>4. CASE Deleted
    BY <1>4 DEF Deleted, UpdateInv, RestoreInv, DoneInv, Kept, Removed
  <1>5. CASE Gap
    <2>1. job' = job /\ table' = table /\ table = Kept(job)
      BY <1>5 DEF Gap, UpdateInv
    <2>2. CASE phase' = "restore_read"
      <3>1. Separated(table)'
        BY <1>2, <2>1 DEF Separated
      <3>2. QED
        BY <2>2, <3>1 DEF UpdateInv, RestoreInv, DoneInv
    <2>3. CASE phase' = "insert" /\ todo' = Added(job)
      BY <2>1, <2>3 DEF UpdateInv, RestoreInv, DoneInv
    <2>4. QED
      BY <1>5, <2>2, <2>3 DEF Gap, GiveUp
  <1>6. CASE Inserted
    BY <1>2, <1>6 DEF Inserted, UpdateInv, RestoreInv, DoneInv
  <1>7. CASE Readback
    BY <1>7 DEF Readback, GiveUp, UpdateInv, RestoreInv, DoneInv, Separated
  <1>8. CASE RestoreRead
    BY <1>8 DEF RestoreRead, UpdateInv, RestoreInv, DoneInv, Separated
  <1>9. CASE RestoreDeleted
    BY <1>9 DEF RestoreDeleted, UpdateInv, RestoreInv, DoneInv, Separated
  <1>10. CASE RestoreInserted
    BY <1>10 DEF RestoreInserted, UpdateInv, RestoreInv, DoneInv
  <1>11. CASE RestoreVerify
    BY <1>11 DEF RestoreVerify, UpdateInv, RestoreInv, DoneInv, Separated
  <1>12. CASE Return
    BY <1>12 DEF Return, UpdateInv, RestoreInv, DoneInv
  <1>13. QED
    BY <1>3, <1>4, <1>5, <1>6, <1>7, <1>8, <1>9, <1>10, <1>11, <1>12

\* Inv is an invariant of apply().
THEOREM Inductive == Spec => []Inv
  <1>1. Init => Inv
    BY InitTypeOK DEF Init, Inv, Undisturbed, UpdateInv, RestoreInv, DoneInv
  <1>2. TypeOK /\ TypeOK' /\ Inv /\ [Next]_vars => Inv'
    <2> SUFFICES ASSUME TypeOK, TypeOK', Inv, [Next]_vars, Undisturbed'
                 PROVE  (UpdateInv /\ RestoreInv /\ DoneInv)'
      BY DEF Inv
    <2>1. CASE Call
      BY <2>1, BeginInv
    <2>2. CASE Return
      BY <2>2 DEF Return, UpdateInv, RestoreInv, DoneInv
    <2>3. ASSUME NEW pair \in ForeignPairs, Interfere(pair)
          PROVE  (UpdateInv /\ RestoreInv /\ DoneInv)'
      BY <2>3 DEF Interfere, Undisturbed, UpdateInv, RestoreInv, DoneInv, TypeOK
    <2>4. CASE UNCHANGED vars
      <3>1. UpdateInv /\ RestoreInv /\ DoneInv
        BY <2>4 DEF vars, Inv, Undisturbed
      <3>2. QED
        BY <2>4, <3>1 DEF vars, UpdateInv, RestoreInv, DoneInv, Separated
    <2>5. CASE Step /\ ~Return
      <3>1. Undisturbed
        BY <2>5 DEF Step, Write, WriteFault, ReadFault, Deleted, Gap, Inserted,
           Readback, RestoreRead, RestoreDeleted, RestoreInserted, RestoreVerify,
           Undisturbed
      <3>2. UpdateInv /\ RestoreInv /\ DoneInv
        BY <3>1 DEF Inv
      <3>3. QED
        BY <2>5, <3>2, WriteInv, WriteFaultInv, OtherStepsInv DEF Step
    <2>6. QED
      BY <2>1, <2>2, <2>3, <2>4, <2>5 DEF Next, Step
  <1>3. QED
    BY <1>1, <1>2, TypeCorrect, PTL DEF Spec

-----------------------------------------------------------------------------------
\* Break before make: at no instant of an update or of its rollback is an entry
\* that only the old set has in the table next to one that only the new set has.
THEOREM NeverMixed == Spec => []BreakBeforeMake
  <1>1. Inv => BreakBeforeMake
    <2> SUFFICES ASSUME Inv, phase # "idle", Undisturbed
                 PROVE  table \subseteq job.previous \/ table \subseteq job.target
      BY DEF BreakBeforeMake
    <2> USE DEF Inv, TypeOK
    <2>1. job \in Jobs
      OBVIOUS
    <2>2. CASE phase \in UpdatePhases \cup {"gap", "readback"}
      BY <2>1, <2>2, PlanIsExact DEF UpdatePhases, UpdateInv
    <2>3. CASE phase \notin UpdatePhases \cup {"gap", "readback"}
      BY <2>3 DEF Phases, WritePhases, UpdatePhases, RestorePhases, ReadPhases,
         RestoreInv, DoneInv, Separated
    <2>4. QED
      BY <2>2, <2>3
  <1>2. QED
    BY <1>1, Inductive, PTL

\* A DELTA update and its rollback never touch an entry both sets share.
THEOREM SharedEntriesStay == Spec => []UnchangedEntriesPreserved
  <1>1. Inv => UnchangedEntriesPreserved
    <2> SUFFICES ASSUME Inv, phase # "idle", Undisturbed, job.strategy = "DELTA"
                 PROVE  job.previous \cap job.target \subseteq table
      BY DEF UnchangedEntriesPreserved
    <2> USE DEF Inv, TypeOK
    <2>1. job \in Jobs
      OBVIOUS
    <2>2. CASE phase \in UpdatePhases \cup {"gap", "readback"}
      BY <2>1, <2>2, PlanIsExact DEF UpdatePhases, UpdateInv
    <2>3. CASE phase \notin UpdatePhases \cup {"gap", "readback"}
      BY <2>3 DEF Phases, WritePhases, UpdatePhases, RestorePhases, ReadPhases,
         RestoreInv, DoneInv, Separated
    <2>4. QED
      BY <2>2, <2>3
  <1>2. QED
    BY <1>1, Inductive, PTL

\* A verdict is true when it is reached.
THEOREM VerdictsAreTrue == Spec => VerdictIsTruth
  <1> DEFINE Truth == phase # "done" /\ phase' = "done" =>
                 /\ verdict' = "ok" /\ (Verify \/ Undisturbed) => table' = job.target
                 /\ verdict' = "restored" => table' = job.previous
  <1>1. Inv /\ [Next]_vars => [Truth]_vars
    <2> SUFFICES ASSUME Inv, Next, phase # "done", phase' = "done" PROVE Truth
      OBVIOUS
    <2>1. CASE Readback
      BY <2>1 DEF Readback, GiveUp, Inv, UpdateInv
    <2>2. CASE RestoreVerify
      BY <2>2 DEF RestoreVerify
    <2>3. CASE ~Readback /\ ~RestoreVerify
      <3>1. GiveUp
        BY <2>3 DEF Next, Call, Begin, Step, Write, WriteFault, ReadFault, Deleted,
           Gap, Inserted, RestoreRead, RestoreDeleted, RestoreInserted, Return,
           Interfere
      <3>2. QED
        BY <3>1 DEF GiveUp
    <2>4. QED
      BY <2>1, <2>2, <2>3
  <1>2. QED
    BY <1>1, Inductive, PTL DEF Spec, VerdictIsTruth

-----------------------------------------------------------------------------------
(***************************************************************************)
(* Why an update is rolled back.  In an undisturbed transaction the device *)
(* accepts every request the plan makes, so only a fault can stop it.  The *)
(* assumption excludes P4App's gap, where the code itself raises.          *)
(***************************************************************************)
GapIsServed == Backend = "bfrt" \/ Delays = {0}

RollbackPhases == RestorePhases \cup {"restore_read", "restore_verify"}

FaultInv ==
    /\ phase # "idle" => job.delay \in Delays
    /\ RollbackOnlyAfterFault

\* The device serves every request of the plan, and of its rollback.
LEMMA RequestsAreServed ==
  ASSUME TypeOK, UpdateInv, RestoreInv, NEW S \in Requests, phase \in WritePhases
  PROVE  Accepts(S)
  <1>1. S \subseteq todo
    BY RequestsAreTodo
  <1>2. Kept(job) \cap Added(job) = {}
    BY PlanIsExact DEF TypeOK
  <1>3. CASE phase = "delete"
    BY <1>1, <1>3 DEF UpdateInv, Accepts, Deleting
  <1>4. CASE phase = "insert"
    BY <1>1, <1>2, <1>4 DEF UpdateInv, Accepts, Deleting
  <1>5. CASE phase = "restore_delete"
    BY <1>1, <1>5 DEF RestoreInv, Accepts, Deleting
  <1>6. CASE phase = "restore_insert"
    BY <1>1, <1>6 DEF RestoreInv, Accepts, Deleting
  <1>7. QED
    BY <1>3, <1>4, <1>5, <1>6 DEF WritePhases, UpdatePhases, RestorePhases

\* When the gap cannot raise, an update is rolled back only because the device
\* failed a call, somebody interfered or the caller was wrong about the table.
THEOREM RollbacksAreExplained ==
  ASSUME GapIsServed PROVE Spec => []RollbackOnlyAfterFault
  <1>1. Init => FaultInv
    BY DEF Init, FaultInv, RollbackOnlyAfterFault, RestorePhases
  <1>2. Inv /\ FaultInv /\ [Next]_vars => FaultInv'
    <2> SUFFICES ASSUME Inv, FaultInv, [Next]_vars PROVE FaultInv'
      OBVIOUS
    <2> USE DEF FaultInv, RollbackOnlyAfterFault, Undisturbed, RestorePhases
    <2>1. CASE Call
      BY <2>1 DEF Call, Begin
    <2>2. ASSUME NEW S \in Requests, Write(S) PROVE FaultInv'
      BY <2>2 DEF Write
    <2>3. ASSUME NEW S \in Requests, NEW done \in SUBSET S, WriteFault(S, done)
          PROVE FaultInv'
      <3>1. phase # "idle" /\ UNCHANGED <<job, startTable, disturbed>>
        BY <2>3 DEF WriteFault, WritePhases, UpdatePhases
      <3>2. Undisturbed => faulted'
        <4>1. Undisturbed => Accepts(S)
          BY <2>3, RequestsAreServed DEF Inv, WriteFault
        <4>2. QED
          BY <2>3, <4>1 DEF WriteFault
      <3>3. QED
        BY <3>1, <3>2
    <2>4. CASE ReadFault
      BY <2>4 DEF ReadFault, ReadPhases
    <2>5. CASE Deleted
      BY <2>5 DEF Deleted
    <2>6. CASE Gap
      <3>1. ~(job.delay > 0 /\ Backend = "p4app")
        BY <2>6 DEF GapIsServed, Gap
      <3>2. QED
        BY <2>6, <3>1 DEF Gap
    <2>7. CASE Inserted
      BY <2>7 DEF Inserted
    <2>8. CASE Readback
      BY <2>8 DEF Readback, GiveUp, Inv, UpdateInv
    <2>9. CASE RestoreRead
      BY <2>9 DEF RestoreRead
    <2>10. CASE RestoreDeleted
      BY <2>10 DEF RestoreDeleted
    <2>11. CASE RestoreInserted
      BY <2>11 DEF RestoreInserted
    <2>12. CASE RestoreVerify
      BY <2>12 DEF RestoreVerify
    <2>13. CASE Return
      BY <2>13 DEF Return
    <2>14. ASSUME NEW pair \in ForeignPairs, Interfere(pair) PROVE FaultInv'
      BY <2>14 DEF Interfere
    <2>15. CASE UNCHANGED vars
      BY <2>15 DEF vars
    <2>16. QED
      BY <2>1, <2>2, <2>3, <2>4, <2>5, <2>6, <2>7, <2>8, <2>9, <2>10, <2>11,
         <2>12, <2>13, <2>14, <2>15 DEF Next, Step
  <1>3. FaultInv => RollbackOnlyAfterFault
    BY DEF FaultInv
  <1>4. QED
    BY <1>1, <1>2, <1>3, Inductive, PTL DEF Spec

-----------------------------------------------------------------------------------
\* apply() and _restore() implement the atomic transaction of AtomicTransaction.
THEOREM Refinement == Spec => ImplementsAtomic
  <1> USE DEF AtomicPhase, AtomicTable
  <1>1. Init => Atomic!AtomicInit
    BY InitTypeOK DEF Init, TypeOK, NoJob, Atomic!AtomicInit
  <1>2. Inv /\ Inv' /\ [Next]_vars => [Atomic!AtomicNext]_(Atomic!atomicVars)
    <2> SUFFICES ASSUME Inv, Inv', [Next]_vars
                 PROVE  [Atomic!AtomicNext]_(Atomic!atomicVars)
      OBVIOUS
    <2> USE DEF Atomic!atomicVars, Inv, TypeOK
    <2>j. /\ job.previous \in SUBSET Pairs /\ job.target \in SUBSET Pairs
          /\ job'.previous \in SUBSET Pairs /\ job'.target \in SUBSET Pairs
      BY DEF Jobs
    <2>1. CASE Call
      BY <2>1, <2>j DEF Call, Begin, Atomic!AtomicNext, Atomic!Begin
    <2>2. ASSUME NEW S \in Requests, Write(S)
          PROVE  [Atomic!AtomicNext]_(Atomic!atomicVars)
      BY <2>2 DEF Write, WritePhases, UpdatePhases, RestorePhases
    <2>3. ASSUME GiveUp, phase \in WritePhases \cup ReadPhases \cup {"gap"},
                 UNCHANGED <<job, startTable, disturbed>>
          PROVE  [Atomic!AtomicNext]_(Atomic!atomicVars)
      <3> USE DEF WritePhases, UpdatePhases, RestorePhases, ReadPhases
      <3>1. CASE phase' = "restore_read"
        BY <2>3, <3>1 DEF GiveUp
      <3>2. CASE phase' = "done"
        BY <2>3, <3>2 DEF GiveUp, Atomic!AtomicNext, Atomic!Fail, Atomic!Finish
      <3>3. QED
        BY <2>3, <3>1, <3>2 DEF GiveUp
    <2>4. CASE Deleted \/ Inserted \/ RestoreRead \/ RestoreDeleted \/ RestoreInserted
      BY <2>4 DEF Deleted, Inserted, RestoreRead, RestoreDeleted, RestoreInserted
    <2>5. CASE Gap /\ ~GiveUp
      BY <2>5 DEF Gap
    <2>6. CASE Readback /\ ~GiveUp
      <3>1. /\ phase = "readback" /\ phase' = "done" /\ verdict' = "ok"
            /\ UNCHANGED <<table, job, startTable, disturbed>>
        BY <2>6 DEF Readback
      <3>2. Atomic!Trustworthy => table = job.target
        BY <2>6, <3>1 DEF Atomic!Trustworthy, Readback, Undisturbed, UpdateInv
      <3>3. QED
        BY <3>1, <3>2 DEF Atomic!AtomicNext, Atomic!Commit, Atomic!Finish
    <2>7. CASE RestoreVerify
      BY <2>7 DEF RestoreVerify, Atomic!AtomicNext, Atomic!Abort, Atomic!Fail, Atomic!Finish
    <2>8. CASE Return
      BY <2>8, <2>j DEF Return, Atomic!AtomicNext, Atomic!Return
    <2>9. ASSUME NEW pair \in ForeignPairs, Interfere(pair)
          PROVE  [Atomic!AtomicNext]_(Atomic!atomicVars)
      BY <2>9 DEF Interfere, Atomic!AtomicNext, Atomic!Interfere
    <2>10. CASE UNCHANGED vars
      BY <2>10 DEF vars
    <2>11. ASSUME NEW S \in Requests, NEW done \in SUBSET S, WriteFault(S, done)
           PROVE  [Atomic!AtomicNext]_(Atomic!atomicVars)
      BY <2>3, <2>11 DEF WriteFault
    <2>12. CASE (ReadFault \/ Gap \/ Readback) /\ GiveUp
      BY <2>3, <2>12 DEF ReadFault, Gap, Readback, ReadPhases
    <2>13. CASE ReadFault
      BY <2>12, <2>13 DEF ReadFault
    <2>14. QED
      BY <2>1, <2>2, <2>4, <2>5, <2>6, <2>7, <2>8, <2>9, <2>10, <2>11, <2>12, <2>13
         DEF Next, Step
  <1>3. QED
    BY <1>1, <1>2, Inductive, PTL DEF Spec, ImplementsAtomic, Atomic!AtomicSpec
===================================================================================
