---------------------------- MODULE AtomicTransaction ----------------------------
(***************************************************************************)
(* What a backend's apply(previous, target) promises to the Agent Core: a  *)
(* transaction on the OCS permission table that takes place in one step    *)
(* and ends in one of three verdicts.                                      *)
(*   "ok"        the table holds the target;                               *)
(*   "restored"  the update failed and the table holds the previous set    *)
(*               again (BackendTransitionError with restored = True);      *)
(*   "failed"    the update and its rollback failed: nothing is known.     *)
(* DeviceTransaction is shown to implement this module; the agent modules  *)
(* are built on it.  Writers other than the agent may change the table at  *)
(* any time (Interfere).                                                   *)
(***************************************************************************)
CONSTANTS
    Tables,     \* the contents the device table can have
    Verify      \* TRUE when a changed write is read back before it commits

VARIABLES
    table,      \* contents of the device table, up to the running transaction
    phase,      \* "idle", "busy" or "done"
    job,        \* the (previous, target) pair of the running transaction
    verdict,    \* how the last transaction ended
    disturbed   \* somebody else wrote the table during the transaction

atomicVars == <<table, phase, job, verdict, disturbed>>

Verdicts == {"none", "ok", "restored", "failed"}

AtomicTypeOK ==
    /\ table \in Tables
    /\ phase \in {"idle", "busy", "done"}
    /\ job \in [previous : Tables, target : Tables]
    /\ verdict \in Verdicts
    /\ disturbed \in BOOLEAN

AtomicInit ==
    /\ table \in Tables
    /\ phase = "idle"
    /\ job \in [previous : Tables, target : Tables]
    /\ verdict = "none"
    /\ disturbed = FALSE

Begin ==
    /\ phase = "idle"
    /\ phase' = "busy"
    /\ job' \in [previous : Tables, target : Tables]
    /\ verdict' = "none"
    /\ disturbed' = FALSE
    /\ UNCHANGED table

\* A verified commit, and an acknowledged one that started from the table the
\* caller believed in and was left alone, end with exactly the target.
Trustworthy == Verify \/ (~disturbed /\ table = job.previous)

Finish(result) ==
    /\ phase = "busy"
    /\ phase' = "done"
    /\ verdict' = result
    /\ table' \in Tables
    /\ UNCHANGED <<job, disturbed>>

Commit == Finish("ok") /\ (Trustworthy => table' = job.target)

Abort == Finish("restored") /\ table' = job.previous

Fail == Finish("failed")

\* Control returns to the caller, who has read the verdict; the arguments die.
Return ==
    /\ phase = "done"
    /\ phase' = "idle"
    /\ verdict' = "none"
    /\ job' \in [previous : Tables, target : Tables]
    /\ disturbed' = FALSE
    /\ UNCHANGED table

\* Somebody else writes.  A change made while the transaction runs is overtaken
\* by its single step, so only the fact that it happened is kept.
Interfere ==
    /\ IF phase = "busy" THEN table' = table ELSE table' \in Tables
    /\ disturbed' = (phase # "idle" \/ disturbed)
    /\ UNCHANGED <<phase, job, verdict>>

AtomicNext ==
    \/ Begin
    \/ Commit
    \/ Abort
    \/ Fail
    \/ Return
    \/ Interfere

AtomicSpec == AtomicInit /\ [][AtomicNext]_atomicVars
==================================================================================
