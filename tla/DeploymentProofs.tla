--------------------------- MODULE DeploymentProofs ---------------------------
(***************************************************************************)
(* What Deployment checks of two launchers, two handlers and a hundred     *)
(* files, for any number of launchers and handlers, every set of files and *)
(* every number of kills.  Lemmas first, by the invariant they preserve.   *)
(***************************************************************************)
EXTENDS Deployment, ConfigurationProofs, SequenceTheorems

----------------------------------------------------------------------------------
(* Types *)

\* TypeOK, and what the other components range over.
Typed ==
    /\ TypeOK
    /\ file \in [Launchers -> Files \cup {Absent}]
    /\ DOMAIN plan = Launchers
    /\ DOMAIN todo = Launchers
    /\ queue \in [Launchers -> Seq(Callers \cup {"close"})]

\* What a launcher has read is what it goes to work with.
Boot ==
    \A l \in Launchers :
        /\ phase[l] = "loaded" => file[l] \in Files /\ LoadFor(platform, file[l]) # Rejected
        /\ phase[l] \notin {"off", "loaded", "exited"} => Profile(l) \in {Monolith, Split}
        /\ phase[l] = "worker" => Profile(l) = Split
        /\ Tofino => phase[l] # "waiting"

\* A step of one launcher, its Go Agent or one of its threads.
StepOf(l) ==
    \/ Startup(l)
    \/ GoAgent(l)
    \/ Southbound(l)
    \/ CloseDown(l)
    \/ Kill(l)
    \/ \E c \in Callers : Request(l, c) \/ Enter(l, c) \/ Finish(l, c)

\* Which steps touch what.
LEMMA Touches ==
    ASSUME NEW l \in Launchers, StepOf(l)
    PROVE  /\ UNCHANGED platform
           /\ \/ phase' = phase \/ LoadConfig(l) \/ TakeLock(l) \/ OpenBackend(l)
              \/ BackendFails(l) \/ StartMonolith(l) \/ StartWorker(l) \/ StartFails(l)
              \/ StartGo(l) \/ WaitForGoAgent(l) \/ Stop(l) \/ Exit(l) \/ Kill(l)
           /\ \/ todo' = todo \/ BackendFails(l) \/ StartFails(l) \/ StartGo(l)
              \/ WaitForGoAgent(l) \/ Stop(l) \/ GoGone(l) \/ KillGo(l) \/ StopHttp(l)
              \/ StopWorker(l) \/ CloseBackend(l) \/ SubmitClose(l) \/ AwaitClose(l)
              \/ JoinExecutor(l) \/ ReleaseLock(l) \/ Kill(l)
           /\ file' = file \/ LoadConfig(l) \/ TakeLock(l) \/ Kill(l)
           /\ plan' = plan \/ TakeLock(l)
           /\ lock' = lock \/ TakeLock(l) \/ BackendFails(l) \/ ReleaseLock(l) \/ Kill(l)
           /\ socket' = socket \/ StartWorker(l) \/ StartFails(l) \/ StopWorker(l)
           /\ \/ port' = port \/ StartMonolith(l) \/ GoListen(l) \/ GoExit(l)
              \/ KillGo(l) \/ StopHttp(l) \/ Kill(l)
           /\ \/ session' = session \/ OpenBackend(l) \/ CloseSession(l)
              \/ CloseBackend(l) \/ Exit(l) \/ Kill(l)
           /\ \/ server' = server \/ StartMonolith(l) \/ StartWorker(l)
              \/ StopHttp(l) \/ StopWorker(l) \/ Exit(l) \/ Kill(l)
           /\ \/ go' = go \/ StartGo(l) \/ GoLoad(l) \/ GoListen(l) \/ GoExit(l)
              \/ TerminateGo(l) \/ KillGo(l)
           /\ \/ call' = call \/ Take(l) \/ Exit(l) \/ Kill(l)
              \/ (\E c \in Callers : Request(l, c) \/ Enter(l, c) \/ Finish(l, c))
           /\ \/ queue' = queue \/ Take(l) \/ SubmitClose(l) \/ Exit(l) \/ Kill(l)
              \/ (\E c \in Callers : Enter(l, c))
           /\ \/ busy' = busy \/ Take(l) \/ CloseSession(l) \/ Exit(l) \/ Kill(l)
              \/ (\E c \in Callers : Finish(l, c))
           /\ shut' = shut \/ ShutExecutor(l)
           /\ kills' = kills \/ Kill(l)
BY DEF StepOf, Startup, LoadConfig, TakeLock, OpenBackend, BackendFails, StartMonolith,
       StartWorker, StartFails, StartGo, WaitForGoAgent, Stop, GoAgentExited, CloseDown,
       TerminateGo, GoGone, KillGo, StopHttp, StopWorker, CloseBackend, SubmitClose,
       AwaitClose, ShutExecutor, JoinExecutor, ReleaseLock, Exit, GoAgent, GoLoad,
       GoListen, GoExit, GoRest, Southbound, Take, CloseSession, CallRest, Request,
       Enter, Finish, Kill, PartRest, bootVars, sharedVars, threadVars, Vanish, Become

Targets == {"loaded", "owner", "opened", "worker", "waiting", "running", "exited"}

\* How a launcher gets from one phase to another, and on with its teardown.
LEMMA Moves ==
    ASSUME NEW l \in Launchers, StepOf(l)
    PROVE  \/ UNCHANGED <<phase, todo>>
           \/ \E p \in Targets : Become(l, p)
           \/ BeginTeardown(l)
           \/ UNCHANGED phase /\ Proceed(l)
           \/ UNCHANGED phase /\ todo' = [todo EXCEPT ![l] = <<"lock">>]
           \/ /\ phase' = [phase EXCEPT ![l] = "exited"]
              /\ UNCHANGED todo \/ todo' = [todo EXCEPT ![l] = <<>>]
BY DEF StepOf, Startup, LoadConfig, TakeLock, OpenBackend, BackendFails, StartMonolith,
       StartWorker, StartFails, StartGo, WaitForGoAgent, Stop, GoAgentExited, CloseDown,
       TerminateGo, GoGone, KillGo, StopHttp, StopWorker, CloseBackend, SubmitClose,
       AwaitClose, ShutExecutor, JoinExecutor, ReleaseLock, Exit, GoAgent, GoLoad,
       GoListen, GoExit, GoRest, Southbound, Take, CloseSession, CallRest, Request,
       Enter, Finish, Kill, PartRest, bootVars, Vanish, Targets

\* Nothing of another launcher.
LEMMA Local ==
    ASSUME Typed, NEW l \in Launchers, StepOf(l), NEW k \in Launchers, k # l
    PROVE  /\ phase'[k] = phase[k] /\ todo'[k] = todo[k]
           /\ file'[k] = file[k] /\ plan'[k] = plan[k]
           /\ session'[k] = session[k] /\ server'[k] = server[k] /\ go'[k] = go[k]
           /\ call'[k] = call[k] /\ queue'[k] = queue[k]
           /\ busy'[k] = busy[k] /\ shut'[k] = shut[k]
<1>1. /\ DOMAIN phase = Launchers /\ DOMAIN todo = Launchers
      /\ DOMAIN file = Launchers /\ DOMAIN plan = Launchers
      /\ DOMAIN session = Launchers /\ DOMAIN server = Launchers /\ DOMAIN go = Launchers
      /\ DOMAIN call = Launchers /\ DOMAIN queue = Launchers
      /\ DOMAIN busy = Launchers /\ DOMAIN shut = Launchers
  BY DEF Typed, TypeOK
<1>2. phase'[k] = phase[k] /\ todo'[k] = todo[k]
  BY <1>1, Moves DEF Become, BeginTeardown, Proceed
<1>3. file'[k] = file[k] /\ plan'[k] = plan[k] /\ shut'[k] = shut[k]
  BY <1>1, Touches DEF LoadConfig, TakeLock, Kill, ShutExecutor
<1>4. session'[k] = session[k]
  <2>1. CASE OpenBackend(l) \/ CloseSession(l) \/ CloseBackend(l) \/ Exit(l) \/ Kill(l)
    BY <1>1, <2>1 DEF OpenBackend, CloseSession, CloseBackend, Exit, Vanish, Kill
  <2> QED
    BY Touches, <2>1
<1>5. server'[k] = server[k]
  <2>1. CASE StartMonolith(l) \/ StartWorker(l) \/ StopHttp(l) \/ StopWorker(l) \/ Exit(l) \/ Kill(l)
    BY <1>1, <2>1 DEF StartMonolith, StartWorker, StopHttp, StopWorker, Exit, Vanish, Kill
  <2> QED
    BY Touches, <2>1
<1>6. go'[k] = go[k]
  <2>1. CASE StartGo(l) \/ GoLoad(l) \/ GoListen(l) \/ GoExit(l) \/ TerminateGo(l) \/ KillGo(l)
    BY <1>1, <2>1 DEF StartGo, GoLoad, GoListen, GoExit, TerminateGo, KillGo
  <2> QED
    BY Touches, <2>1
<1>7. call'[k] = call[k]
  <2>1. CASE Take(l) \/ Exit(l) \/ Kill(l)
    BY <1>1, <2>1 DEF Take, Move, Exit, Vanish, Kill
  <2>2. ASSUME NEW c \in Callers, Request(l, c) \/ Enter(l, c) \/ Finish(l, c)
       PROVE  call'[k] = call[k]
    BY <1>1, <2>2 DEF Request, Move, Enter, Finish
  <2> QED
    BY Touches, <2>1, <2>2
<1>8. queue'[k] = queue[k]
  <2>1. CASE Take(l) \/ SubmitClose(l) \/ Exit(l) \/ Kill(l)
    BY <1>1, <2>1 DEF Take, Move, SubmitClose, Exit, Vanish, Kill
  <2>2. ASSUME NEW c \in Callers, Enter(l, c)
       PROVE  queue'[k] = queue[k]
    BY <1>1, <2>2 DEF Enter, Move
  <2> QED
    BY Touches, <2>1, <2>2
<1>9. busy'[k] = busy[k]
  <2>1. CASE Take(l) \/ CloseSession(l) \/ Exit(l) \/ Kill(l)
    BY <1>1, <2>1 DEF Take, Move, CloseSession, Exit, Vanish, Kill
  <2>2. ASSUME NEW c \in Callers, Finish(l, c)
       PROVE  busy'[k] = busy[k]
    BY <1>1, <2>2 DEF Finish, Move
  <2> QED
    BY Touches, <2>1, <2>2
<1> QED
  BY <1>2, <1>3, <1>4, <1>5, <1>6, <1>7, <1>8, <1>9

\* Every step keeps the types.
LEMMA TypedStep ==
    ASSUME Typed, Boot, NEW l \in Launchers, StepOf(l) PROVE Typed'
<1>1. phase' \in [Launchers -> Phases] /\ DOMAIN todo' = Launchers
  <2>1. phase \in [Launchers -> Phases] /\ DOMAIN todo = Launchers
    BY DEF Typed, TypeOK
  <2>2. Targets \cup {"closing", "exited"} \subseteq Phases
    BY DEF Targets, Phases
  <2>3. CASE \E p \in Targets : Become(l, p)
    BY <2>1, <2>2, <2>3 DEF Become
  <2>4. CASE BeginTeardown(l)
    BY <2>1, <2>2, <2>4 DEF BeginTeardown
  <2> QED
    BY Moves, <2>1, <2>2, <2>3, <2>4 DEF Proceed
<1>2. file' \in [Launchers -> Files \cup {Absent}]
  <2>1. file \in [Launchers -> Files \cup {Absent}]
    BY DEF Typed, TypeOK
  <2>2. CASE LoadConfig(l) \/ TakeLock(l) \/ Kill(l)
    BY <2>1, <2>2 DEF LoadConfig, TakeLock, Kill, Vanish
  <2> QED
    BY Touches, <2>1, <2>2
<1>3. port' \in [{Monolith, Split} -> Launchers \cup {Nobody}]
  <2>1. port \in [{Monolith, Split} -> Launchers \cup {Nobody}]
    BY DEF Typed, TypeOK
  <2>2. CASE StartMonolith(l) \/ GoListen(l) \/ GoExit(l) \/ KillGo(l) \/ StopHttp(l) \/ Kill(l)
    BY <2>1, <2>2 DEF StartMonolith, GoListen, GoExit, Hangup, KillGo, StopHttp, Kill, Vanish
  <2> QED
    BY Touches, <2>1, <2>2
<1>4. session' \in [Launchers -> {"none", "open", "closed", "broken"}]
  <2>1. session \in [Launchers -> {"none", "open", "closed", "broken"}]
    BY DEF Typed, TypeOK
  <2>2. CASE OpenBackend(l) \/ CloseSession(l) \/ CloseBackend(l) \/ Exit(l) \/ Kill(l)
    BY <2>1, <2>2 DEF OpenBackend, CloseSession, CloseBackend, Exit, Vanish, Kill
  <2> QED
    BY Touches, <2>1, <2>2
<1>5. server' \in [Launchers -> {"none", "up", "down"}]
  <2>1. server \in [Launchers -> {"none", "up", "down"}]
    BY DEF Typed, TypeOK
  <2>2. CASE StartMonolith(l) \/ StartWorker(l) \/ StopHttp(l) \/ StopWorker(l) \/ Exit(l) \/ Kill(l)
    BY <2>1, <2>2 DEF StartMonolith, StartWorker, StopHttp, StopWorker, Exit, Vanish, Kill
  <2> QED
    BY Touches, <2>1, <2>2
<1>6. go' \in [Launchers -> {"none", "starting", "calling", "serving", "stopping", "exited"}]
  <2>1. go \in [Launchers -> {"none", "starting", "calling", "serving", "stopping", "exited"}]
    BY DEF Typed, TypeOK
  <2>2. CASE StartGo(l) \/ GoLoad(l) \/ GoListen(l) \/ GoExit(l) \/ TerminateGo(l) \/ KillGo(l)
    BY <2>1, <2>2 DEF StartGo, GoLoad, GoListen, GoExit, Hangup, TerminateGo, KillGo
  <2> QED
    BY Touches, <2>1, <2>2
<1>7. call' \in [Launchers -> [Callers -> {"idle", "waiting", "submitted", "writing"}]]
  <2>1. call \in [Launchers -> [Callers -> {"idle", "waiting", "submitted", "writing"}]]
    BY DEF Typed, TypeOK
  <2>2. CASE Take(l) \/ Exit(l) \/ Kill(l)
    BY <2>1, <2>2 DEF Take, Move, Exit, Vanish, Kill
  <2>3. ASSUME NEW c \in Callers, Request(l, c) \/ Enter(l, c) \/ Finish(l, c)
       PROVE  call' \in [Launchers -> [Callers -> {"idle", "waiting", "submitted", "writing"}]]
    BY <2>1, <2>3 DEF Request, Move, Enter, Finish
  <2> QED
    BY Touches, <2>1, <2>2, <2>3
<1>8. queue' \in [Launchers -> Seq(Callers \cup {"close"})]
  <2>1. queue \in [Launchers -> Seq(Callers \cup {"close"})]
    BY DEF Typed
  <2>2. ASSUME NEW q \in Seq(Callers \cup {"close"}), queue' = [queue EXCEPT ![l] = q]
        PROVE  queue' \in [Launchers -> Seq(Callers \cup {"close"})]
    BY <2>1, <2>2
  <2>3. CASE SubmitClose(l) \/ Exit(l) \/ Kill(l)
    <3>1. \/ queue' = [queue EXCEPT ![l] = Append(@, "close")]
          \/ queue' = [queue EXCEPT ![l] = <<>>]
      BY <2>3 DEF SubmitClose, Exit, Vanish, Kill
    <3>2. Append(queue[l], "close") \in Seq(Callers \cup {"close"})
      BY <2>1
    <3>3. <<>> \in Seq(Callers \cup {"close"})
      OBVIOUS
    <3> QED
      BY <2>2, <3>1, <3>2, <3>3
  <2>4. ASSUME NEW c \in Callers, Enter(l, c)
        PROVE  queue' \in [Launchers -> Seq(Callers \cup {"close"})]
    <3>1. UNCHANGED queue \/ queue' = [queue EXCEPT ![l] = Append(@, c)]
      BY <2>4 DEF Enter
    <3> QED
      BY <2>1, <3>1
  <2>5. CASE Take(l)
    <3>1. queue' = [queue EXCEPT ![l] = Tail(@)] /\ queue[l] # <<>>
      BY <2>5 DEF Take
    <3> QED
      BY <2>1, <3>1
  <2> QED
    BY Touches, <2>1, <2>3, <2>4, <2>5
<1>9. busy' \in [Launchers -> Callers \cup {"close", Nobody}]
  <2>1. busy \in [Launchers -> Callers \cup {"close", Nobody}]
    BY DEF Typed, TypeOK
  <2>2. CASE CloseSession(l) \/ Exit(l) \/ Kill(l)
    BY <2>1, <2>2 DEF CloseSession, Exit, Vanish, Kill
  <2>3. CASE Take(l)
    <3>1. Head(queue[l]) \in Callers \cup {"close"}
      BY <2>3 DEF Take, Typed
    <3>2. busy' = [busy EXCEPT ![l] = Head(queue[l])]
      BY <2>3 DEF Take
    <3> QED
      BY <2>1, <3>1, <3>2
  <2>4. ASSUME NEW c \in Callers, Finish(l, c)
        PROVE  busy' \in [Launchers -> Callers \cup {"close", Nobody}]
    BY <2>1, <2>4 DEF Finish
  <2> QED
    BY Touches, <2>1, <2>2, <2>3, <2>4
<1>10. lock' \in Launchers \cup {Nobody}
  <2>1. CASE TakeLock(l) \/ BackendFails(l) \/ ReleaseLock(l) \/ Kill(l)
    BY <2>1 DEF TakeLock, BackendFails, ReleaseLock, Kill, Typed, TypeOK
  <2> QED
    BY Touches, <2>1 DEF Typed, TypeOK
<1>11. socket' \in Launchers \cup {Nobody}
  <2>1. CASE StartWorker(l) \/ StartFails(l) \/ StopWorker(l)
    BY <2>1 DEF StartWorker, StartFails, StopWorker, Typed, TypeOK
  <2> QED
    BY Touches, <2>1 DEF Typed, TypeOK
<1>12. shut' \in [Launchers -> BOOLEAN]
  BY Touches DEF ShutExecutor, Typed, TypeOK
<1>13. kills' \in 0..MaxKills
  <2>1. kills \in 0..MaxKills /\ MaxKills \in Nat
    BY DeploymentAssumption DEF Typed, TypeOK
  <2>2. CASE Kill(l)
    BY <2>1, <2>2 DEF Kill
  <2> QED
    BY Touches, <2>1, <2>2
<1>14. platform' \in Platforms /\ DOMAIN plan' = Launchers
  <2>1. DOMAIN plan = Launchers /\ platform \in Platforms
    BY DEF Typed, TypeOK
  <2>2. TakeLock(l) => DOMAIN plan' = DOMAIN plan
    BY DEF TakeLock
  <2> QED
    BY Touches, <2>1, <2>2
<1>15. ASSUME NEW k \in Launchers PROVE ToSet(queue'[k]) \subseteq Callers \cup {"close"}
  BY <1>8 DEF ToSet
<1>16. ASSUME NEW k \in Launchers
       PROVE  /\ plan'[k].profile \in {"", Monolith, Split}
              /\ plan'[k].core \in BOOLEAN
              /\ plan'[k].ports # Rejected =>
                   \A p, q \in DOMAIN plan'[k].ports : plan'[k].ports[p] = plan'[k].ports[q] => p = q
  <2>1. CASE plan'[k] = plan[k]
    BY <2>1 DEF Typed, TypeOK, Profile
  <2>2. CASE TakeLock(l) /\ k = l
    <3>1. file[l] \in Files /\ LoadFor(platform, file[l]) # Rejected
      BY <2>2 DEF TakeLock, Boot
    <3>2. plan'[l] = [profile |-> file[l].json.deployment_profile,
                      core |-> Load(file[l]) # Rejected,
                      ports |-> IF Tofino THEN NormalizePortMap(file[l].ports) ELSE Rejected]
      BY <2>2 DEF TakeLock, Typed
    <3>3. plan'[l].profile \in {Monolith, Split} /\ plan'[l].core \in BOOLEAN
      BY <3>1, <3>2, ProfileLoaded
    <3>4. plan'[l].ports \in {Rejected, NormalizePortMap(file[l].ports)}
      BY <3>2
    <3>5. NormalizePortMap(file[l].ports) # Rejected =>
            \A p, q \in DOMAIN NormalizePortMap(file[l].ports) :
                NormalizePortMap(file[l].ports)[p] = NormalizePortMap(file[l].ports)[q] => p = q
      BY <3>1, PortMapOneToOne, DeploymentAssumption
    <3>6. plan'[l].ports # Rejected =>
            \A p, q \in DOMAIN plan'[l].ports : plan'[l].ports[p] = plan'[l].ports[q] => p = q
      BY <3>4, <3>5
    <3> QED
      BY <2>2, <3>3, <3>6
  <2>3. CASE TakeLock(l) /\ k # l
    BY <2>1, <2>3 DEF TakeLock, Typed
  <2> QED
    BY Touches, <2>1, <2>2, <2>3
<1>17. ASSUME NEW k \in Launchers PROVE file'[k] # Absent <=> phase'[k] = "loaded"
  <2>1. /\ file[k] # Absent <=> phase[k] = "loaded"
        /\ DOMAIN phase = Launchers /\ DOMAIN file = Launchers
    BY DEF Typed, TypeOK
  <2>2. CASE k # l
    BY <2>1, <2>2, Local
  <2>3. CASE k = l /\ LoadConfig(l)
    BY <2>1, <2>3, DeploymentAssumption DEF LoadConfig, Become
  <2>4. CASE k = l /\ (TakeLock(l) \/ Kill(l))
    BY <2>1, <2>4 DEF TakeLock, Become, Kill, Vanish
  <2>5. CASE k = l /\ UNCHANGED <<phase, file>>
    BY <2>1, <2>5
  <2>6. CASE k = l /\ UNCHANGED file /\ phase[k] # "loaded" /\ phase'[k] # "loaded"
    BY <2>1, <2>6
  <2>7. OpenBackend(l) \/ BackendFails(l) \/ StartMonolith(l) \/ StartWorker(l)
          => phase[l] # "loaded" /\ phase'[l] # "loaded"
    BY <2>1 DEF OpenBackend, BackendFails, StartMonolith, StartWorker, Become, BeginTeardown
  <2>8. StartFails(l) \/ StartGo(l) \/ WaitForGoAgent(l) \/ Stop(l) \/ Exit(l)
          => phase[l] # "loaded" /\ phase'[l] # "loaded"
    BY <2>1 DEF StartFails, StartGo, WaitForGoAgent, Stop, Exit, Vanish, Become, BeginTeardown
  <2> QED
    BY Touches, <2>2, <2>3, <2>4, <2>5, <2>6, <2>7, <2>8
<1> QED
  BY <1>1, <1>2, <1>3, <1>4, <1>5, <1>6, <1>7, <1>8, <1>9, <1>10, <1>11, <1>12, <1>13, <1>14,
     <1>15, <1>16, <1>17 DEF Typed, TypeOK, Profile

----------------------------------------------------------------------------------
(* What a launcher goes to work with *)

\* The profile is settled when the lock is taken.
LEMMA BootStep ==
    ASSUME Typed, Boot, NEW l \in Launchers, StepOf(l) PROVE Boot'
<1> SUFFICES ASSUME NEW k \in Launchers
             PROVE  /\ phase'[k] = "loaded" =>
                         file'[k] \in Files /\ LoadFor(platform', file'[k]) # Rejected
                    /\ phase'[k] \notin {"off", "loaded", "exited"} =>
                         plan'[k].profile \in {Monolith, Split}
                    /\ phase'[k] = "worker" => plan'[k].profile = Split
                    /\ platform' = "tofino" => phase'[k] # "waiting"
  BY DEF Boot, Profile, Tofino
<1>1. /\ phase[k] = "loaded" => file[k] \in Files /\ LoadFor(platform, file[k]) # Rejected
      /\ phase[k] \notin {"off", "loaded", "exited"} => plan[k].profile \in {Monolith, Split}
      /\ phase[k] = "worker" => plan[k].profile = Split
      /\ platform = "tofino" => phase[k] # "waiting"
  BY DEF Boot, Profile, Tofino
<1>2. DOMAIN phase = Launchers /\ DOMAIN file = Launchers /\ DOMAIN plan = Launchers
  BY DEF Typed, TypeOK
<1>3. CASE k # l
  BY <1>1, <1>3, Local, Touches
<1>4. CASE k = l /\ LoadConfig(l)
  BY <1>2, <1>4 DEF LoadConfig, Become
<1>5. CASE k = l /\ TakeLock(l)
  <2>1. plan'[l].profile = file[l].json.deployment_profile
    BY <1>2, <1>5 DEF TakeLock
  <2>2. plan'[l].profile \in {Monolith, Split}
    BY <1>1, <1>5, <2>1, ProfileLoaded DEF TakeLock
  <2>3. phase'[l] \in {"exited", "owner"}
    BY <1>2, <1>5 DEF TakeLock, Become
  <2> QED
    BY <1>5, <2>2, <2>3
<1>6. CASE k = l /\ (Kill(l) \/ Exit(l))
  <2>1. phase'[l] = "exited"
    BY <1>2, <1>6 DEF Kill, Exit, Vanish
  <2> QED
    BY <1>6, <2>1
<1>7. CASE k = l /\ UNCHANGED <<phase, file, plan>>
  BY <1>1, <1>7, Touches
<1>8. CASE /\ k = l /\ UNCHANGED <<file, plan>>
           /\ phase[l] \notin {"off", "loaded", "exited"}
           /\ phase'[l] \in {"exited", "opened", "closing", "running"}
  BY <1>1, <1>8
<1>9. OpenBackend(l) \/ BackendFails(l) \/ StartMonolith(l) \/ StartFails(l)
        => /\ phase[l] \notin {"off", "loaded", "exited"}
           /\ phase'[l] \in {"exited", "opened", "closing", "running"}
  BY <1>2 DEF OpenBackend, BackendFails, StartMonolith, StartFails, Become, BeginTeardown
<1>10. WaitForGoAgent(l) \/ Stop(l)
        => /\ phase[l] \notin {"off", "loaded", "exited"}
           /\ phase'[l] \in {"exited", "opened", "closing", "running"}
  BY <1>2 DEF WaitForGoAgent, Stop, Become, BeginTeardown
<1>11. CASE k = l /\ StartWorker(l)
  <2>1. phase'[l] = "worker" /\ plan'[l].profile = Split
    BY <1>2, <1>11 DEF StartWorker, Become, Profile
  <2> QED
    BY <1>11, <2>1
<1>12. CASE k = l /\ StartGo(l)
  <2>1. phase[l] = "worker" /\ plan'[l].profile = Split
    BY <1>1, <1>2, <1>12 DEF StartGo
  <2>2. phase'[l] \in {"closing", IF platform' = "tofino" THEN "running" ELSE "waiting"}
    BY <1>2, <1>12 DEF StartGo, Become, BeginTeardown, Tofino
  <2> QED
    BY <1>12, <2>1, <2>2
<1> QED
  BY Touches, <1>3, <1>4, <1>5, <1>6, <1>7, <1>8, <1>9, <1>10, <1>11, <1>12

----------------------------------------------------------------------------------
(* Teardown under Tofino *)

\* What is left of the finally clause of run() when it has come to part p.
Rest(p) ==
    CASE p = "go" -> <<"go", "worker", "close", "closed", "shutdown", "lock">>
      [] p = "worker" -> <<"worker", "close", "closed", "shutdown", "lock">>
      [] p = "close" -> <<"close", "closed", "shutdown", "lock">>
      [] p = "closed" -> <<"closed", "shutdown", "lock">>
      [] p = "shutdown" -> <<"shutdown", "lock">>
      [] p = "http" -> <<"http", "backend", "lock">>
      [] p = "backend" -> <<"backend", "lock">>
      [] p = "lock" -> <<"lock">>
      [] p = "end" -> <<>>

Parts == {"go", "worker", "close", "closed", "shutdown", "http", "backend", "lock"}

Following ==
    [go |-> "worker", worker |-> "close", close |-> "closed", closed |-> "shutdown",
     shutdown |-> "lock", http |-> "backend", backend |-> "lock", lock |-> "end"]

PartsOf(profile) ==
    IF profile = Split THEN {"go", "worker", "close", "closed", "shutdown", "lock", "end"}
    ELSE {"http", "backend", "lock", "end"}

At(l, p) == phase[l] = "closing" /\ todo[l] = Rest(p)

\* Teardown is always at one of its parts.
Stages ==
    Tofino => \A l \in Launchers :
        phase[l] = "closing" => \E p \in PartsOf(Profile(l)) : todo[l] = Rest(p)

\* Each part is the first of what is left when it comes, and its successor the next.
LEMMA RestParts ==
    \A p \in Parts :
        Rest(p) # <<>> /\ Head(Rest(p)) = p /\ Tail(Rest(p)) = Rest(Following[p])
<1>1. Rest("go") # <<>> /\ Head(Rest("go")) = "go" /\ Tail(Rest("go")) = Rest("worker")
  BY DEF Rest
<1>2. Rest("worker") # <<>> /\ Head(Rest("worker")) = "worker" /\ Tail(Rest("worker")) = Rest("close")
  BY DEF Rest
<1>3. Rest("close") # <<>> /\ Head(Rest("close")) = "close" /\ Tail(Rest("close")) = Rest("closed")
  BY DEF Rest
<1>4. Rest("closed") # <<>> /\ Head(Rest("closed")) = "closed" /\ Tail(Rest("closed")) = Rest("shutdown")
  BY DEF Rest
<1>5. Rest("shutdown") # <<>> /\ Head(Rest("shutdown")) = "shutdown" /\ Tail(Rest("shutdown")) = Rest("lock")
  BY DEF Rest
<1>6. Rest("http") # <<>> /\ Head(Rest("http")) = "http" /\ Tail(Rest("http")) = Rest("backend")
  BY DEF Rest
<1>7. Rest("backend") # <<>> /\ Head(Rest("backend")) = "backend" /\ Tail(Rest("backend")) = Rest("lock")
  BY DEF Rest
<1>8. Rest("lock") # <<>> /\ Head(Rest("lock")) = "lock" /\ Tail(Rest("lock")) = Rest("end")
  BY DEF Rest
<1> QED
  BY <1>1, <1>2, <1>3, <1>4, <1>5, <1>6, <1>7, <1>8 DEF Parts, Following

\* Nothing is left at the end.
LEMMA RestEnd == Rest("end") = <<>>
BY DEF Rest

\* What is left tells the part.
LEMMA RestOnce ==
    ASSUME NEW p \in Parts \cup {"end"}, NEW q \in Parts \cup {"end"}, Rest(p) = Rest(q)
    PROVE  p = q
BY RestParts, RestEnd

\* The first part of either profile.
LEMMA TeardownStarts ==
    ASSUME Tofino
    PROVE  Teardown(Split) = Rest("go") /\ Teardown(Monolith) = Rest("http")
BY DEF Teardown, Rest, Split, Monolith

\* The main thread is at a part exactly when that part is the next thing to do.
LEMMA PartIsAt ==
    ASSUME Tofino, Stages, NEW l \in Launchers, NEW p \in Parts, Part(l, p)
    PROVE  At(l, p) /\ p \in PartsOf(Profile(l))
<1>1. PICK q \in PartsOf(Profile(l)) : todo[l] = Rest(q)
  BY DEF Stages, Part
<1>2. q # "end"
  BY <1>1, RestEnd DEF Part
<1>3. q \in Parts
  BY <1>1, <1>2 DEF PartsOf, Parts
<1>4. q = p
  BY <1>1, <1>3, RestParts DEF Part
<1> QED
  BY <1>1, <1>4 DEF Part, At

\* From a part to the next.
LEMMA PartProceeds ==
    ASSUME Typed, Tofino, Stages, NEW l \in Launchers, NEW p \in Parts, Part(l, p), Proceed(l)
    PROVE  todo'[l] = Rest(Following[p])
BY PartIsAt, RestParts DEF At, Proceed, Typed

\* The next part is of the same profile's finally clause.
LEMMA FollowingParts ==
    ASSUME NEW profile, NEW p \in PartsOf(profile) \cap Parts
    PROVE  Following[p] \in PartsOf(profile)
BY DEF PartsOf, Parts, Following

\* A part done.
Done(l, p) == Part(l, p) /\ Proceed(l)

\* The steps that change what a launcher that tears down has left to do.
LEMMA TeardownSteps ==
    ASSUME NEW l \in Launchers, StepOf(l), phase[l] = "closing"
    PROVE  \/ UNCHANGED <<phase, todo>>
           \/ UNCHANGED phase /\ \E p \in Parts : Done(l, p)
           \/ AwaitClose(l) /\ UNCHANGED phase /\ todo' = [todo EXCEPT ![l] = <<"lock">>]
           \/ Exit(l) \/ Kill(l)
<1>1. phase' = phase \/ Exit(l) \/ Kill(l)
  BY Touches DEF LoadConfig, TakeLock, OpenBackend, BackendFails, StartMonolith, StartWorker,
     StartFails, StartGo, WaitForGoAgent, Stop
<1>2. \/ todo' = todo \/ GoGone(l) \/ KillGo(l) \/ StopHttp(l) \/ StopWorker(l)
      \/ CloseBackend(l) \/ SubmitClose(l) \/ AwaitClose(l) \/ JoinExecutor(l)
      \/ ReleaseLock(l) \/ Kill(l)
  BY Touches DEF BackendFails, StartFails, StartGo, WaitForGoAgent, Stop
<1>3. GoGone(l) \/ KillGo(l) \/ StopHttp(l) \/ StopWorker(l) \/ CloseBackend(l)
        => \E p \in Parts : Done(l, p)
  BY DEF GoGone, KillGo, StopHttp, StopWorker, CloseBackend, Done, Parts
<1>4. SubmitClose(l) \/ JoinExecutor(l) \/ ReleaseLock(l) => \E p \in Parts : Done(l, p)
  BY DEF SubmitClose, JoinExecutor, ReleaseLock, Done, Parts
<1>5. AwaitClose(l) => \/ \E p \in Parts : Done(l, p)
                       \/ todo' = [todo EXCEPT ![l] = <<"lock">>]
  BY DEF AwaitClose, Done, Parts
<1>6. Exit(l) => UNCHANGED todo
  BY DEF Exit
<1> QED
  BY <1>1, <1>2, <1>3, <1>4, <1>5, <1>6

\* The step that has done a part.
LEMMA PartDone ==
    ASSUME Typed, Tofino, Stages, NEW l \in Launchers, StepOf(l), ~Kill(l),
           NEW p \in Parts, Done(l, p)
    PROVE  CASE p = "go" -> GoGone(l) \/ KillGo(l)
             [] p = "worker" -> StopWorker(l)
             [] p = "close" -> SubmitClose(l)
             [] p = "closed" -> AwaitClose(l)
             [] p = "shutdown" -> JoinExecutor(l)
             [] p = "http" -> StopHttp(l)
             [] p = "backend" -> CloseBackend(l)
             [] p = "lock" -> ReleaseLock(l)
<1>1. todo' # todo
  <2>1. todo[l] = Rest(p) /\ todo'[l] = Rest(Following[p])
    BY PartIsAt, PartProceeds DEF Done, At
  <2>2. Following[p] \in (Parts \cup {"end"}) \ {p}
    BY DEF Following, Parts
  <2> QED
    BY <2>1, <2>2, RestOnce
<1>2. ~BackendFails(l) /\ ~StartFails(l) /\ ~StartGo(l) /\ ~WaitForGoAgent(l) /\ ~Stop(l)
  BY DEF BackendFails, StartFails, StartGo, WaitForGoAgent, Stop, Done, Part
<1>3. \/ GoGone(l) \/ KillGo(l) \/ StopHttp(l) \/ StopWorker(l) \/ CloseBackend(l)
      \/ SubmitClose(l) \/ AwaitClose(l) \/ JoinExecutor(l) \/ ReleaseLock(l)
  BY <1>1, <1>2, Touches
<1>4. \A q : Part(l, q) => q = p
  BY DEF Done, Part
<1>5. GoGone(l) \/ KillGo(l) => p = "go"
  BY <1>4 DEF GoGone, KillGo
<1>6. /\ StopHttp(l) => p = "http"
      /\ StopWorker(l) => p = "worker"
      /\ CloseBackend(l) => p = "backend"
  BY <1>4 DEF StopHttp, StopWorker, CloseBackend
<1>7. /\ SubmitClose(l) => p = "close"
      /\ AwaitClose(l) => p = "closed"
      /\ JoinExecutor(l) => p = "shutdown"
      /\ ReleaseLock(l) => p = "lock"
  BY <1>4 DEF SubmitClose, AwaitClose, JoinExecutor, ReleaseLock
<1> QED
  BY <1>3, <1>5, <1>6, <1>7

\* A launcher enters its finally clause at the first part.
LEMMA TeardownBegins ==
    ASSUME Typed, Boot, Tofino, NEW l \in Launchers, BeginTeardown(l),
           Profile(l) \in {Monolith, Split}
    PROVE  /\ phase'[l] = "closing"
           /\ todo'[l] = Rest(IF Profile(l) = Split THEN "go" ELSE "http")
BY TeardownStarts DEF BeginTeardown, Typed, TypeOK

\* Every step keeps teardown at one of its parts.
LEMMA StagesStep ==
    ASSUME Typed, Boot, Stages, NEW l \in Launchers, StepOf(l) PROVE Stages'
<1> SUFFICES ASSUME Tofino, NEW k \in Launchers, phase'[k] = "closing"
             PROVE  \E p \in PartsOf(plan'[k].profile) : todo'[k] = Rest(p)
  BY Touches DEF Stages, Tofino, Profile
<1>1. DOMAIN phase = Launchers /\ DOMAIN todo = Launchers
  BY DEF Typed, TypeOK
<1>2. CASE k # l
  BY <1>2, Local DEF Stages, Profile
<1>3. CASE k = l /\ phase[l] = "closing"
  <2>1. plan' = plan
    BY <1>3, Touches DEF TakeLock
  <2>2. ~Exit(l) /\ ~Kill(l)
    BY <1>1, <1>3 DEF Exit, Kill, Vanish
  <2>3. CASE UNCHANGED todo
    BY <1>3, <2>1, <2>3 DEF Stages, Profile
  <2>4. ASSUME NEW p \in Parts, Done(l, p) PROVE \E q \in PartsOf(plan'[l].profile) : todo'[l] = Rest(q)
    BY <2>1, <2>4, PartIsAt, PartProceeds, FollowingParts DEF Done, Profile
  <2>5. CASE todo' = [todo EXCEPT ![l] = <<"lock">>]
    <3>1. todo'[l] = Rest("lock")
      BY <1>1, <2>5 DEF Rest
    <3> QED
      BY <1>3, <3>1 DEF PartsOf
  <2> QED
    BY <1>3, <2>2, <2>3, <2>4, <2>5, TeardownSteps
<1>4. CASE k = l /\ phase[l] # "closing"
  <2>1. BeginTeardown(l) /\ phase[l] \in {"opened", "worker", "running"} /\ UNCHANGED plan
    <3>1. phase' # phase
      BY <1>4
    <3>2. ~LoadConfig(l) /\ ~TakeLock(l) /\ ~OpenBackend(l) /\ ~BackendFails(l)
      BY <1>1, <1>4 DEF LoadConfig, TakeLock, OpenBackend, BackendFails, Become
    <3>3. ~StartMonolith(l) /\ ~StartWorker(l)
      BY <1>1, <1>4 DEF StartMonolith, StartWorker, Become
    <3>4. ~Exit(l) /\ ~Kill(l)
      BY <1>1, <1>4 DEF Exit, Kill, Vanish
    <3>5. StartFails(l) \/ Stop(l)
            => BeginTeardown(l) /\ phase[l] \in {"opened", "worker", "running"} /\ UNCHANGED plan
      BY DEF StartFails, Stop
    <3>6. StartGo(l) => BeginTeardown(l) /\ phase[l] = "worker" /\ UNCHANGED plan
      BY <1>1, <1>4 DEF StartGo, Become
    <3>7. ~WaitForGoAgent(l)
      BY DEF WaitForGoAgent, Boot
    <3> QED
      BY Touches, <3>1, <3>2, <3>3, <3>4, <3>5, <3>6, <3>7
  <2>2. Profile(l) \in {Monolith, Split}
    BY <2>1 DEF Boot
  <2> QED
    BY <1>4, <2>1, <2>2, TeardownBegins DEF PartsOf, Profile
<1> QED
  BY <1>2, <1>3, <1>4

----------------------------------------------------------------------------------
(* The ownership lock *)

\* From the lock to the last part of teardown.
Owning(l) ==
    \/ phase[l] \in {"owner", "opened", "worker", "running"}
    \/ phase[l] = "closing" /\ todo[l] # <<>>

Ownership == Tofino => \A l \in Launchers : Owning(l) => lock = l

\* Nobody starts to own the switch but by taking the lock.
LEMMA OwningStarts ==
    ASSUME Typed, Boot, Tofino, NEW l \in Launchers, StepOf(l), ~Owning(l), Owning(l)'
    PROVE  lock = Nobody /\ lock' = l
<1>1. DOMAIN phase = Launchers
  BY DEF Typed, TypeOK
<1>2. CASE phase[l] = "closing"
  <2>1. todo[l] = <<>>
    BY <1>2 DEF Owning
  <2>2. ~Exit(l) /\ ~Kill(l)
    BY <1>1 DEF Exit, Kill, Vanish, Owning
  <2>3. ~AwaitClose(l) /\ \A p \in Parts : ~Done(l, p)
    BY <2>1 DEF AwaitClose, Done, Part
  <2> QED
    BY <1>2, <2>1, <2>2, <2>3, TeardownSteps DEF Owning
<1>3. CASE phase[l] # "closing"
  <2>1. phase' # phase
    BY <1>3 DEF Owning
  <2>2. ~LoadConfig(l)
    BY <1>1 DEF LoadConfig, Become, Owning
  <2>3. ~OpenBackend(l) /\ ~BackendFails(l) /\ ~StartMonolith(l) /\ ~StartWorker(l)
    BY DEF OpenBackend, BackendFails, StartMonolith, StartWorker, Owning
  <2>4. ~StartFails(l) /\ ~StartGo(l) /\ ~Stop(l)
    BY DEF StartFails, StartGo, Stop, Owning
  <2>5. ~WaitForGoAgent(l)
    BY DEF WaitForGoAgent, Boot
  <2>6. ~Exit(l) /\ ~Kill(l)
    BY <1>1 DEF Exit, Kill, Vanish, Owning
  <2>7. TakeLock(l)
    BY Touches, <2>1, <2>2, <2>3, <2>4, <2>5, <2>6
  <2> QED
    BY <1>1, <2>7 DEF TakeLock, Become, Owning
<1> QED
  BY <1>2, <1>3

\* Nobody loses the lock before its teardown has released it.
LEMMA OwnershipStep ==
    ASSUME Typed, Boot, Stages, Ownership, NEW l \in Launchers, StepOf(l) PROVE Ownership'
<1> SUFFICES ASSUME Tofino, NEW k \in Launchers, Owning(k)' PROVE lock' = k
  BY Touches DEF Ownership, Tofino
<1>1. DOMAIN phase = Launchers /\ DOMAIN todo = Launchers
  BY DEF Typed, TypeOK
<1>2. \A j \in Launchers : Owning(j) => lock = j
  BY DEF Ownership
<1>3. k # Nobody
  BY DeploymentAssumption
<1>4. CASE k # l
  <2>1. lock = k
    BY <1>2, <1>4, Local DEF Owning
  <2>2. ~BackendFails(l) /\ ~ReleaseLock(l)
    BY <1>2, <1>4, <2>1 DEF BackendFails, ReleaseLock, Part, Owning
  <2>3. TakeLock(l) \/ Kill(l) => lock' = lock
    BY <1>3, <1>4, <2>1 DEF TakeLock, Kill
  <2> QED
    BY Touches, <2>1, <2>2, <2>3
<1>5. CASE k = l /\ ~Owning(l)
  BY <1>5, OwningStarts
<1>6. CASE k = l /\ Owning(l)
  <2>1. ~TakeLock(l)
    BY <1>6 DEF TakeLock, Owning
  <2>2. ~BackendFails(l)
    BY <1>1, <1>6 DEF BackendFails, Become, Owning
  <2>3. ~Kill(l)
    BY <1>1, <1>6 DEF Kill, Vanish, Owning
  <2>4. ~ReleaseLock(l)
    <3> SUFFICES ASSUME ReleaseLock(l) PROVE FALSE
      OBVIOUS
    <3>1. phase'[l] = "closing"
      BY DEF ReleaseLock, PartRest, bootVars, Part
    <3>2. todo'[l] = <<>>
      BY PartProceeds, RestEnd DEF ReleaseLock, Parts, Following
    <3> QED
      BY <1>6, <3>1, <3>2 DEF Owning
  <2> QED
    BY Touches, <1>2, <1>6, <2>1, <2>2, <2>3, <2>4
<1> QED
  BY <1>4, <1>5, <1>6

----------------------------------------------------------------------------------
(* Handlers and the southbound thread *)

\* Before it serves and after it has ended a process has no threads.
Outside(l) == phase[l] \in {"off", "loaded", "owner", "opened", "exited"}

Idle(l) ==
    /\ server[l] = "none"
    /\ \A c \in Callers : call[l][c] = "idle"
    /\ queue[l] = <<>>
    /\ busy[l] = Nobody

Quiet == \A l \in Launchers : Outside(l) => Idle(l)

\* Nothing is left of the threads of a process that ends.
LEMMA Vanishes ==
    ASSUME Typed, NEW l \in Launchers, Exit(l) \/ Kill(l)
    PROVE  phase'[l] = "exited" /\ Idle(l)'
<1>1. Vanish(l)
  BY DEF Exit, Kill
<1>2. phase'[l] = "exited" /\ server'[l] = "none"
  BY <1>1 DEF Typed, TypeOK, Vanish
<1>3. \A c \in Callers : call'[l][c] = "idle"
  BY <1>1 DEF Typed, TypeOK, Vanish
<1>4. queue'[l] = <<>> /\ busy'[l] = Nobody
  BY <1>1 DEF Typed, TypeOK, Vanish
<1> QED
  BY <1>2, <1>3, <1>4 DEF Idle

\* The threads of a process that has none do nothing.
LEMMA NothingStirs ==
    ASSUME Typed, NEW l \in Launchers, StepOf(l), Outside(l), Idle(l)
    PROVE  Idle(l)' \/ (StartMonolith(l) \/ StartWorker(l))
<1> USE DEF Idle
<1>1. CASE Exit(l) \/ Kill(l)
  BY <1>1, Vanishes
<1>2. ~StopHttp(l) /\ ~StopWorker(l) /\ ~SubmitClose(l)
  BY DEF StopHttp, StopWorker, SubmitClose, Part, Outside
<1>3. ~Take(l) /\ ~CloseSession(l)
  BY DeploymentAssumption DEF Take, CloseSession
<1>4. ASSUME NEW c \in Callers PROVE ~Request(l, c) /\ ~Enter(l, c) /\ ~Finish(l, c)
  BY DEF Request, Enter, Finish
<1> QED
  BY Touches, <1>1, <1>2, <1>3, <1>4

\* No step leaves a thread to a process that has none.
LEMMA QuietStep ==
    ASSUME Typed, Quiet, NEW l \in Launchers, StepOf(l) PROVE Quiet'
<1> SUFFICES ASSUME NEW k \in Launchers, Outside(k)' PROVE Idle(k)'
  BY DEF Quiet
<1>1. DOMAIN phase = Launchers
  BY DEF Typed, TypeOK
<1>2. CASE k # l
  BY <1>2, Local DEF Quiet, Outside, Idle
<1>3. ~StartMonolith(l) \/ k # l
  BY <1>1 DEF StartMonolith, Become, Outside
<1>4. ~StartWorker(l) \/ k # l
  BY <1>1 DEF StartWorker, Become, Outside
<1>5. CASE k = l /\ Outside(l)
  BY <1>3, <1>4, <1>5, NothingStirs DEF Quiet
<1>6. CASE k = l /\ ~Outside(l)
  <2>1. phase' # phase
    BY <1>6 DEF Outside
  <2>2. ~LoadConfig(l) /\ ~TakeLock(l) /\ ~OpenBackend(l) /\ ~BackendFails(l)
    BY <1>6 DEF LoadConfig, TakeLock, OpenBackend, BackendFails, Outside
  <2>3. ~StartFails(l) /\ ~Stop(l)
    BY <1>1, <1>6 DEF StartFails, Stop, BeginTeardown, Outside
  <2>4. ~StartGo(l) /\ ~WaitForGoAgent(l)
    BY <1>1, <1>6 DEF StartGo, WaitForGoAgent, BeginTeardown, Become, Outside
  <2>5. Exit(l) \/ Kill(l)
    BY Touches, <1>3, <1>4, <1>6, <2>1, <2>2, <2>3, <2>4
  <2> QED
    BY <1>6, <2>5, Vanishes
<1> QED
  BY <1>2, <1>5, <1>6

\* A handler of the Worker writes on the southbound thread, so never two at once.
OneThread ==
    \A l \in Launchers : Profile(l) = Split =>
        \A c \in Callers : call[l][c] = "writing" => busy[l] = c

\* Every step keeps the southbound thread single.
LEMMA OneThreadStep ==
    ASSUME Typed, Quiet, OneThread, NEW l \in Launchers, StepOf(l) PROVE OneThread'
<1> SUFFICES ASSUME NEW k \in Launchers, plan'[k].profile = Split,
                    NEW c \in Callers, call'[k][c] = "writing"
             PROVE  busy'[k] = c
  BY DEF OneThread, Profile
<1>1. /\ DOMAIN call = Launchers /\ DOMAIN call[l] = Callers /\ DOMAIN busy = Launchers
      /\ DOMAIN queue = Launchers
  BY DEF Typed, TypeOK
<1>2. CASE k # l
  BY <1>2, Local DEF OneThread, Profile
<1>3. CASE k = l /\ TakeLock(l)
  <2>1. Idle(l) /\ UNCHANGED call
    BY <1>3 DEF TakeLock, threadVars, Quiet, Outside
  <2> QED
    BY <1>3, <2>1 DEF Idle
<1>4. CASE k = l /\ UNCHANGED plan /\ UNCHANGED <<call, busy>>
  BY <1>4 DEF OneThread, Profile
<1>5. CASE k = l /\ UNCHANGED plan /\ (Exit(l) \/ Kill(l))
  BY <1>5, Vanishes DEF Idle
<1>6. CASE k = l /\ UNCHANGED plan /\ Take(l)
  <2>1. \A d \in Callers : call[l][d] # "writing"
    BY <1>6, DeploymentAssumption DEF Take, OneThread, Profile
  <2>2. CASE Head(queue[l]) = "close"
    BY <1>6, <2>1, <2>2 DEF Take
  <2>3. CASE Head(queue[l]) # "close"
    <3>1. call' = [call EXCEPT ![l][Head(queue[l])] = "writing"]
      BY <1>6, <2>3 DEF Take, Move
    <3>2. c = Head(queue[l])
      BY <1>1, <1>6, <2>1, <3>1
    <3> QED
      BY <1>1, <1>6, <3>2 DEF Take
  <2> QED
    BY <2>2, <2>3
<1>7. CASE k = l /\ UNCHANGED plan /\ CloseSession(l)
  <2>1. UNCHANGED call /\ busy[l] = "close"
    BY <1>7 DEF CloseSession
  <2> QED
    BY <1>7, <2>1, DeploymentAssumption DEF OneThread, Profile
<1>8. ASSUME k = l, UNCHANGED plan, NEW d \in Callers, Request(l, d) \/ Enter(l, d) PROVE busy'[k] = c
  <2>1. UNCHANGED busy
    BY <1>8 DEF Request, Enter
  <2>2. \E s \in {"idle", "waiting", "submitted"} : call' = [call EXCEPT ![l][d] = s]
    <3>1. CASE Request(l, d)
      BY <3>1 DEF Request, Move
    <3>2. Profile(l) = Split /\ Split # Monolith
      BY <1>8 DEF Profile, Split, Monolith
    <3>3. CASE Enter(l, d)
      BY <3>2, <3>3 DEF Enter, Move
    <3> QED
      BY <1>8, <3>1, <3>3
  <2>3. call[l][c] = "writing"
    BY <1>1, <1>8, <2>2
  <2> QED
    BY <1>8, <2>1, <2>3 DEF OneThread, Profile
<1>9. ASSUME k = l, UNCHANGED plan, NEW d \in Callers, Finish(l, d) PROVE busy'[k] = c
  <2>1. call' = [call EXCEPT ![l][d] = "idle"] /\ call[l][d] = "writing"
    BY <1>9 DEF Finish, Move
  <2>2. c # d /\ call[l][c] = "writing"
    BY <1>1, <1>9, <2>1
  <2>3. busy[l] = c /\ busy[l] = d
    BY <1>9, <2>1, <2>2 DEF OneThread, Profile
  <2> QED
    BY <2>2, <2>3
<1> QED
  BY Touches, <1>2, <1>3, <1>4, <1>5, <1>6, <1>7, <1>8, <1>9

----------------------------------------------------------------------------------
(* The Worker's socket and the Go Agent *)

\* A Worker that serves does so under the lock, at the end of the socket's path.
Serving ==
    Tofino => \A l \in Launchers :
        server[l] = "up" /\ Profile(l) = Split =>
            /\ socket = l
            /\ phase[l] \in {"worker", "running"} \/ At(l, "go") \/ At(l, "worker")

\* So does a Go Agent, as long as nobody kills its launcher.
Attended ==
    Tofino /\ kills = 0 => \A l \in Launchers :
        CoreAlive(l) => Profile(l) = Split /\ (phase[l] = "running" \/ At(l, "go"))

\* A Worker that serves belongs to the owner.
LEMMA ServingOwns ==
    ASSUME Tofino, Serving, NEW l \in Launchers, server[l] = "up", Profile(l) = Split
    PROVE  Owning(l)
BY RestParts DEF Serving, Owning, At, Parts

\* Where a launcher of the split profile goes from where its Worker serves.
LEMMA WorkerMoves ==
    ASSUME Typed, Boot, Stages, Tofino, NEW l \in Launchers, StepOf(l), Profile(l) = Split,
           phase[l] \in {"worker", "running"}
    PROVE  \/ phase'[l] = phase[l]
           \/ phase'[l] = "running"
           \/ At(l, "go")'
           \/ Kill(l)
<1>1. DOMAIN phase = Launchers
  BY DEF Typed, TypeOK
<1>2. BeginTeardown(l) => At(l, "go")'
  BY TeardownBegins DEF At
<1>3. ~LoadConfig(l) /\ ~TakeLock(l) /\ ~OpenBackend(l) /\ ~BackendFails(l)
  BY DEF LoadConfig, TakeLock, OpenBackend, BackendFails
<1>4. ~StartMonolith(l) /\ ~StartWorker(l) /\ ~StartFails(l) /\ ~Exit(l) /\ ~WaitForGoAgent(l)
  BY DEF StartMonolith, StartWorker, StartFails, Exit, WaitForGoAgent
<1>5. StartGo(l) => phase'[l] = "running" \/ BeginTeardown(l)
  BY <1>1 DEF StartGo, Become
<1>6. Stop(l) => BeginTeardown(l)
  BY DEF Stop
<1> QED
  BY Touches, <1>2, <1>3, <1>4, <1>5, <1>6

\* Where it goes from a part of its teardown.
LEMMA PartMoves ==
    ASSUME Typed, Boot, Stages, Tofino, NEW l \in Launchers, StepOf(l),
           NEW p \in Parts \cup {"end"}, At(l, p)
    PROVE  \/ At(l, p)' /\ UNCHANGED <<phase, todo>>
           \/ p \in Parts /\ Done(l, p) /\ At(l, Following[p])'
           \/ p = "closed" /\ AwaitClose(l) /\ session[l] = "broken" /\ At(l, "lock")'
           \/ Exit(l) \/ Kill(l)
<1>1. phase[l] = "closing" /\ todo[l] = Rest(p)
  BY DEF At
<1>2. \A q \in Parts : Part(l, q) => q = p
  BY <1>1, PartIsAt, RestOnce DEF At
<1>3. CASE UNCHANGED <<phase, todo>>
  BY <1>3 DEF At
<1>4. ASSUME NEW q \in Parts, Done(l, q), UNCHANGED phase PROVE Done(l, p) /\ At(l, Following[p])'
  BY <1>1, <1>2, <1>4, PartProceeds DEF Done, At
<1>5. CASE AwaitClose(l) /\ UNCHANGED phase /\ todo' = [todo EXCEPT ![l] = <<"lock">>]
  <2>1. p = "closed"
    BY <1>2, <1>5 DEF AwaitClose, Parts
  <2>2. At(l, "lock")'
    BY <1>1, <1>5 DEF At, Rest, Typed
  <2>3. session[l] = "broken" \/ Done(l, "closed")
    BY <1>5 DEF AwaitClose, Done
  <2> QED
    BY <1>4, <1>5, <2>1, <2>2, <2>3 DEF Parts
<1>6. p \in Parts \/ \A q \in Parts : ~Part(l, q)
  BY <1>2
<1> QED
  BY <1>1, <1>2, <1>3, <1>4, <1>5, TeardownSteps DEF Done

\* Every step keeps the serving Worker at its path.
LEMMA ServingStep ==
    ASSUME Typed, Boot, Stages, Ownership, Quiet, Serving, NEW l \in Launchers, StepOf(l)
    PROVE  Serving'
<1> SUFFICES ASSUME Tofino, NEW k \in Launchers, server'[k] = "up", plan'[k].profile = Split
             PROVE  /\ socket' = k
                    /\ \/ phase'[k] \in {"worker", "running"}
                       \/ At(k, "go")' \/ At(k, "worker")'
  BY Touches DEF Serving, Tofino, Profile
<1>1. DOMAIN phase = Launchers /\ DOMAIN server = Launchers
  BY DEF Typed, TypeOK
<1>2. CASE k # l
  <2>1. server[k] = "up" /\ Profile(k) = Split
    BY <1>2, Local DEF Profile
  <2>2. lock = k
    BY <2>1, ServingOwns DEF Ownership
  <2>3. ~StartWorker(l) /\ ~StartFails(l)
    BY <1>2, <2>2 DEF StartWorker, StartFails, Ownership, Owning
  <2>4. ~StopWorker(l)
    BY <1>2, <2>2 DEF StopWorker, Part, Ownership, Owning
  <2>5. socket' = socket
    BY <2>3, <2>4, Touches
  <2> QED
    BY <1>2, <2>1, <2>5, Local DEF Serving, At
<1>3. CASE k = l /\ StartWorker(l)
  BY <1>1, <1>3 DEF StartWorker, Become
<1>4. CASE k = l /\ ~StartWorker(l)
  <2>1. UNCHANGED plan
    <3>1. TakeLock(l) => UNCHANGED server /\ Outside(l)
      BY DEF TakeLock, Outside
    <3>2. ~TakeLock(l)
      BY <1>4, <3>1 DEF Quiet, Idle
    <3> QED
      BY <3>2, Touches
  <2>2. Profile(l) = Split /\ Split # Monolith
    BY <1>4, <2>1 DEF Profile, Split, Monolith
  <2>3. ~StartMonolith(l)
    BY <2>2 DEF StartMonolith
  <2>4. ~Exit(l) /\ ~Kill(l)
    BY <1>4, Vanishes DEF Idle
  <2>5. ~StopHttp(l) /\ ~(StopWorker(l) /\ server[l] = "up")
    BY <1>1, <1>4, <2>2, PartIsAt DEF StopHttp, StopWorker, Parts, PartsOf
  <2>6. server[l] = "up"
    BY <1>1, <1>4, <2>3, <2>4, <2>5, Touches DEF StopWorker
  <2>7. /\ socket = l
        /\ phase[l] \in {"worker", "running"} \/ At(l, "go") \/ At(l, "worker")
    BY <2>2, <2>6 DEF Serving
  <2>8. socket' = socket
    BY <1>4, <2>5, <2>6, <2>7, Touches DEF StartFails, At
  <2>9. CASE phase[l] \in {"worker", "running"}
    BY <1>4, <2>2, <2>4, <2>7, <2>8, <2>9, WorkerMoves
  <2>10. CASE At(l, "go")
    BY <1>4, <2>4, <2>7, <2>8, <2>10, PartMoves DEF Parts, Following
  <2>11. CASE At(l, "worker")
    <3>1. ~Done(l, "worker")
      BY <2>4, <2>5, <2>6, PartDone DEF Parts
    <3> QED
      BY <1>4, <2>4, <2>7, <2>8, <2>11, <3>1, PartMoves DEF Parts
  <2> QED
    BY <2>7, <2>9, <2>10, <2>11
<1> QED
  BY <1>2, <1>3, <1>4

\* Without a kill every step leaves a living Go Agent under its launcher.
LEMMA AttendedStep ==
    ASSUME Typed, Boot, Stages, Attended, NEW l \in Launchers, StepOf(l) PROVE Attended'
<1> SUFFICES ASSUME Tofino, kills' = 0, NEW k \in Launchers, CoreAlive(k)'
             PROVE  plan'[k].profile = Split /\ (phase'[k] = "running" \/ At(k, "go")')
  BY Touches DEF Attended, Tofino, Profile
<1>1. DOMAIN phase = Launchers /\ DOMAIN go = Launchers
  BY DEF Typed, TypeOK
<1>2. ~Kill(l) /\ kills = 0
  <2>1. kills \in 0..MaxKills /\ MaxKills \in Nat
    BY DeploymentAssumption DEF Typed, TypeOK
  <2>2. Kill(l) => kills' = kills + 1
    BY DEF Kill
  <2> QED
    BY <2>1, <2>2, Touches
<1>3. CASE k # l
  BY <1>2, <1>3, Local DEF Attended, CoreAlive, Profile, At
<1>4. CASE k = l /\ StartGo(l)
  <2>1. go'[l] \in {go[l], "starting"} /\ UNCHANGED plan /\ phase[l] = "worker"
    BY <1>1, <1>4 DEF StartGo
  <2>2. Profile(l) = Split
    BY <2>1 DEF Boot
  <2>3. phase'[l] = "running" \/ BeginTeardown(l)
    BY <1>1, <1>4 DEF StartGo, Become
  <2> QED
    BY <1>4, <2>1, <2>2, <2>3, TeardownBegins DEF At, Profile
<1>5. CASE k = l /\ ~StartGo(l)
  <2>1. CoreAlive(l)
    BY <1>1, <1>5, Touches DEF CoreAlive, GoLoad, GoListen, GoExit, TerminateGo, KillGo
  <2>2. Profile(l) = Split /\ (phase[l] = "running" \/ At(l, "go"))
    BY <1>2, <2>1 DEF Attended
  <2>3. UNCHANGED plan
    BY <2>2, Touches DEF TakeLock, At
  <2>4. CASE phase[l] = "running"
    BY <1>2, <1>5, <2>2, <2>3, <2>4, WorkerMoves DEF Profile
  <2>5. CASE At(l, "go")
    <3>1. ~Exit(l)
      BY <2>5, RestParts DEF Exit, At, Parts
    <3>2. ~KillGo(l)
      BY <1>1, <1>5 DEF KillGo, CoreAlive
    <3>3. ~Done(l, "go")
      BY <1>2, <2>1, <3>2, PartDone DEF GoGone, Parts
    <3> QED
      BY <1>2, <1>5, <2>2, <2>3, <2>5, <3>1, <3>3, PartMoves DEF Parts, Profile
  <2> QED
    BY <2>2, <2>4, <2>5
<1> QED
  BY <1>3, <1>4, <1>5

----------------------------------------------------------------------------------
(* close() on the southbound thread *)

Without(q) == \A i \in DOMAIN q : q[i] # "close"
Once(q) == \A i, j \in DOMAIN q : q[i] = "close" /\ q[j] = "close" => i = j

NoClose(l) == busy[l] # "close" /\ Without(queue[l])
OneClose(l) == (busy[l] = "close" => Without(queue[l])) /\ Once(queue[l])

Drained(l) == session[l] = "closed" /\ shut[l] /\ queue[l] = <<>> /\ busy[l] = Nobody

\* Where close() is yet to be submitted.
Open(l) ==
    \/ phase[l] \in {"opened", "worker", "running"}
    \/ At(l, "go") \/ At(l, "worker") \/ At(l, "close")

\* close() runs once, last of what is submitted before it; where it has not raised,
\* the executor is drained and refuses work before the lock is released.
Closing ==
    Tofino => \A l \in Launchers : Profile(l) = Split =>
        /\ Open(l) => session[l] = "open" /\ NoClose(l)
        /\ At(l, "closed") => OneClose(l) /\ (session[l] # "open" => NoClose(l))
        /\ At(l, "shutdown") => session[l] = "closed" /\ NoClose(l)
        /\ At(l, "lock") \/ At(l, "end") => NoClose(l) /\ (session[l] = "broken" \/ Drained(l))

\* The thread takes the first item of its queue.
LEMMA QueueTail ==
    ASSUME NEW S, NEW q \in Seq(S), q # <<>>
    PROVE  /\ Without(q) => Without(Tail(q)) /\ Head(q) # "close"
           /\ Once(q) => Once(Tail(q))
           /\ Once(q) /\ Head(q) = "close" => Without(Tail(q))
<1>1. /\ Head(q) = q[1]
      /\ 1 \in DOMAIN q
  OBVIOUS
<1>2. ASSUME NEW i \in DOMAIN Tail(q)
      PROVE  i \in Nat /\ i >= 1 /\ i + 1 \in DOMAIN q /\ Tail(q)[i] = q[i + 1]
  <2>1. Tail(q) \in Seq(S) /\ Len(Tail(q)) = Len(q) - 1 /\ Len(q) \in Nat
    BY HeadTailProperties
  <2>2. i \in 1..(Len(q) - 1)
    BY <2>1
  <2>3. Tail(q)[i] = q[i + 1]
    BY <2>1, <2>2, HeadTailProperties
  <2> QED
    BY <2>1, <2>2, <2>3
<1>3. Without(q) => Without(Tail(q)) /\ Head(q) # "close"
  BY <1>1, <1>2 DEF Without
<1>4. Once(q) => Once(Tail(q))
  BY <1>2 DEF Once
<1>5. Once(q) /\ Head(q) = "close" => Without(Tail(q))
  BY <1>1, <1>2 DEF Once, Without
<1> QED
  BY <1>3, <1>4, <1>5

\* Submitting appends.
LEMMA QueueAppend ==
    ASSUME NEW S, NEW q \in Seq(S), NEW x \in S
    PROVE  /\ x # "close" /\ Without(q) => Without(Append(q, x))
           /\ x # "close" /\ Once(q) => Once(Append(q, x))
           /\ Without(q) => Once(Append(q, x))
<1>1. /\ DOMAIN Append(q, x) = 1..(Len(q) + 1) /\ DOMAIN q = 1..Len(q) /\ Len(q) \in Nat
      /\ \A i \in 1..Len(q) : Append(q, x)[i] = q[i]
      /\ Append(q, x)[Len(q) + 1] = x
  BY AppendProperties
<1>2. \A i \in DOMAIN Append(q, x) : i \in DOMAIN q \/ i = Len(q) + 1
  BY <1>1
<1>3. \A i \in DOMAIN q : Append(q, x)[i] = q[i]
  BY <1>1
<1>4. x # "close" /\ Without(q) => Without(Append(q, x))
  BY <1>1, <1>2, <1>3 DEF Without
<1>5. x # "close" /\ Once(q) => Once(Append(q, x))
  BY <1>1, <1>2, <1>3 DEF Once
<1>6. Without(q) => Once(Append(q, x))
  BY <1>1, <1>2, <1>3 DEF Once, Without
<1> QED
  BY <1>4, <1>5, <1>6

\* What a step of the threads or of the teardown does to the queue.
LEMMA QueueSteps ==
    ASSUME Typed, NEW l \in Launchers, StepOf(l)
    PROVE  /\ NoClose(l) /\ ~SubmitClose(l) => NoClose(l)'
           /\ OneClose(l) /\ ~SubmitClose(l) => OneClose(l)'
           /\ NoClose(l) /\ SubmitClose(l) => OneClose(l)'
           /\ OneClose(l) /\ CloseSession(l) => NoClose(l)'
<1>1. /\ queue \in [Launchers -> Seq(Callers \cup {"close"})] /\ DOMAIN busy = Launchers
      /\ \A c \in Callers : c # "close"
      /\ Nobody # "close"
  BY DeploymentAssumption DEF Typed, TypeOK
<1>2. queue[l] \in Seq(Callers \cup {"close"})
  BY <1>1
<1>3. CASE Exit(l) \/ Kill(l)
  <2>1. busy'[l] = Nobody /\ queue'[l] = <<>>
    BY <1>3, Vanishes DEF Idle
  <2> QED
    BY <1>1, <2>1 DEF NoClose, OneClose, Without, Once
<1>4. CASE Take(l)
  <2>1. /\ queue[l] # <<>> /\ busy[l] = Nobody
        /\ busy'[l] = Head(queue[l]) /\ queue'[l] = Tail(queue[l])
    BY <1>1, <1>4 DEF Take
  <2>2. /\ Without(queue[l]) => Without(queue[l])' /\ busy'[l] # "close"
        /\ Once(queue[l]) => Once(queue[l])'
        /\ Once(queue[l]) /\ busy'[l] = "close" => Without(queue[l])'
    BY <1>2, <2>1, QueueTail
  <2>3. ~SubmitClose(l) /\ ~CloseSession(l)
    BY <1>1, <1>4, <2>1 DEF Take, SubmitClose, CloseSession
  <2> QED
    BY <2>1, <2>2, <2>3 DEF NoClose, OneClose
<1>5. CASE SubmitClose(l)
  <2>1. busy' = busy /\ queue'[l] = Append(queue[l], "close")
    BY <1>1, <1>5 DEF SubmitClose
  <2>2. Without(queue[l]) => Once(queue'[l])
    BY <1>2, <2>1, QueueAppend
  <2>3. NoClose(l) => OneClose(l)'
    BY <2>1, <2>2 DEF NoClose, OneClose
  <2>4. ~CloseSession(l)
    BY <1>1, <1>5 DEF SubmitClose, CloseSession
  <2> QED
    BY <1>5, <2>3, <2>4
<1>6. CASE CloseSession(l)
  <2>1. busy[l] = "close" /\ busy'[l] = Nobody /\ queue' = queue
    BY <1>1, <1>6 DEF CloseSession
  <2> QED
    BY <1>1, <2>1 DEF NoClose, OneClose
<1>7. ASSUME NEW c \in Callers, Enter(l, c)
      PROVE  (NoClose(l) => NoClose(l)') /\ (OneClose(l) => OneClose(l)')
  <2>1. busy' = busy /\ (queue' = queue \/ queue'[l] = Append(queue[l], c))
    BY <1>1, <1>7 DEF Enter
  <2>2. c \in Callers \cup {"close"} /\ c # "close"
    BY <1>1
  <2>3. /\ Without(queue[l]) => Without(Append(queue[l], c))
        /\ Once(queue[l]) => Once(Append(queue[l], c))
    BY <1>2, <2>2, QueueAppend
  <2>4. /\ Without(queue[l]) => Without(queue'[l])
        /\ Once(queue[l]) => Once(queue'[l])
    BY <2>1, <2>3
  <2> QED
    BY <2>1, <2>4 DEF NoClose, OneClose
<1>8. ASSUME NEW c \in Callers, Finish(l, c)
      PROVE  (NoClose(l) => NoClose(l)') /\ (OneClose(l) => OneClose(l)')
  <2>1. queue' = queue /\ busy'[l] \in {busy[l], Nobody}
    BY <1>1, <1>8 DEF Finish
  <2> QED
    BY <1>1, <2>1 DEF NoClose, OneClose
<1>9. CASE UNCHANGED <<queue, busy>>
  BY <1>5, <1>6, <1>9 DEF NoClose, OneClose
<1>10. ~CloseSession(l) \/ ~SubmitClose(l)
  BY <1>1 DEF CloseSession, SubmitClose
<1> QED
  BY Touches, <1>3, <1>4, <1>5, <1>6, <1>7, <1>8, <1>9

\* Whose session is closed, and by whom.
LEMMA SessionSteps ==
    ASSUME Typed, Tofino, Stages, NEW l \in Launchers, StepOf(l), Profile(l) = Split,
           ~OpenBackend(l), ~Exit(l), ~Kill(l)
    PROVE  /\ NoClose(l) => session' = session
           /\ OneClose(l) => session' = session \/ NoClose(l)'
<1>1. ~CloseBackend(l)
  <2>1. "backend" \notin PartsOf(Split)
    BY DEF PartsOf
  <2> QED
    BY <2>1, PartIsAt DEF CloseBackend, Parts
<1>2. session' = session \/ CloseSession(l)
  BY <1>1, Touches
<1>3. CloseSession(l) => busy[l] = "close"
  BY DEF CloseSession
<1> QED
  BY <1>2, <1>3, QueueSteps DEF NoClose

\* Once shut and drained the executor stays so.
LEMMA DrainedSteps ==
    ASSUME Typed, Tofino, Stages, NEW l \in Launchers, StepOf(l), Profile(l) = Split,
           At(l, "lock") \/ At(l, "end"), ~Exit(l), ~Kill(l), Drained(l)
    PROVE  Drained(l)'
<1>1. /\ DOMAIN shut = Launchers /\ DOMAIN queue = Launchers /\ DOMAIN busy = Launchers
      /\ \A c \in Callers : c # Nobody
      /\ Nobody # "close"
  BY DeploymentAssumption DEF Typed, TypeOK
<1>2. ~SubmitClose(l) /\ ~OpenBackend(l)
  BY PartIsAt, RestOnce DEF SubmitClose, OpenBackend, At, Parts
<1>3. ~Take(l) /\ ~CloseSession(l)
  BY <1>1 DEF Take, CloseSession, Drained
<1>4. NoClose(l)
  BY <1>1 DEF NoClose, Without, Drained
<1>5. session' = session
  BY <1>2, <1>4, SessionSteps
<1>6. shut'[l]
  BY <1>1, Touches DEF ShutExecutor, Drained
<1>7. queue' = queue
  <2>1. Split # Monolith
    BY DEF Split, Monolith
  <2>2. \A c \in Callers : Enter(l, c) => queue' = queue
    BY <2>1 DEF Enter, Drained
  <2> QED
    BY <1>2, <1>3, <2>2, Touches
<1>8. busy'[l] = busy[l]
  <2>1. ASSUME NEW c \in Callers, Finish(l, c) PROVE busy'[l] = busy[l]
    BY <1>1, <2>1 DEF Finish, Drained
  <2> QED
    BY <1>3, <2>1, Touches
<1> QED
  BY <1>5, <1>6, <1>7, <1>8 DEF Drained

\* Every step keeps the order of close(), shutdown and release.
LEMMA ClosingStep ==
    ASSUME Typed, Boot, Stages, Quiet, Closing, NEW l \in Launchers, StepOf(l) PROVE Closing'
<1> DEFINE Good(k) ==
             /\ Open(k) => session[k] = "open" /\ NoClose(k)
             /\ At(k, "closed") => OneClose(k) /\ (session[k] # "open" => NoClose(k))
             /\ At(k, "shutdown") => session[k] = "closed" /\ NoClose(k)
             /\ At(k, "lock") \/ At(k, "end") =>
                  NoClose(k) /\ (session[k] = "broken" \/ Drained(k))
<1> SUFFICES ASSUME Tofino, NEW k \in Launchers, plan'[k].profile = Split PROVE Good(k)'
  BY Touches DEF Closing, Tofino, Profile
<1>1. /\ DOMAIN phase = Launchers /\ DOMAIN session = Launchers /\ DOMAIN todo = Launchers
      /\ Tofino' /\ "closing" \notin Targets
  BY Touches DEF Typed, TypeOK, Tofino, Targets
<1>2. CASE k # l
  <2>1. Good(k)
    BY <1>2, Local DEF Closing, Profile
  <2>2. \A p : At(k, p)' <=> At(k, p)
    BY <1>2, Local DEF At
  <2>3. (NoClose(k)' <=> NoClose(k)) /\ (OneClose(k)' <=> OneClose(k))
    BY <1>2, Local DEF NoClose, OneClose
  <2>4. (Drained(k)' <=> Drained(k)) /\ (Open(k)' <=> Open(k))
    BY <1>2, <2>2, Local DEF Drained, Open
  <2> HIDE DEF Good
  <2>5. session'[k] = session[k]
    BY <1>2, Local
  <2> QED
    BY <2>1, <2>2, <2>3, <2>4, <2>5 DEF Good
<1> SUFFICES ASSUME k = l PROVE Good(l)'
  BY <1>2
<1>3. CASE phase'[l] \in {"off", "loaded", "owner", "exited"}
  BY <1>3 DEF Open, At
<1>4. CASE OpenBackend(l)
  <2>1. phase'[l] = "opened" /\ session'[l] = "open"
    BY <1>1, <1>4 DEF OpenBackend, Become
  <2>2. NoClose(l)
    <3>1. Idle(l)
      BY <1>4 DEF OpenBackend, Quiet, Outside
    <3> QED
      BY <3>1, DeploymentAssumption DEF NoClose, Without, Idle
  <2>3. NoClose(l)'
    BY <1>4, <2>2 DEF OpenBackend, threadVars, NoClose
  <2> QED
    BY <2>1, <2>3 DEF Open, At
<1>5. CASE /\ ~OpenBackend(l)
           /\ phase'[l] \notin {"off", "loaded", "owner", "exited"}
  <2>1. ~Exit(l) /\ ~Kill(l)
    BY <1>1, <1>5 DEF Exit, Kill, Vanish
  <2>2. ~TakeLock(l) /\ ~LoadConfig(l)
    BY <1>1, <1>5 DEF TakeLock, LoadConfig, Become
  <2>3. Profile(l) = Split
    BY <2>2, Touches DEF Profile
  <2>4. Good(l)
    BY <2>3 DEF Closing
  <2>5. /\ NoClose(l) => session' = session
        /\ OneClose(l) => session' = session \/ NoClose(l)'
    BY <1>5, <2>1, <2>3, SessionSteps
  <2>6. \A p \in Parts : Part(l, p) => At(l, p)
    BY PartIsAt
  <2> HIDE DEF Good
  <2>7. CASE phase[l] \in {"opened", "worker", "running"}
    <3>1. phase'[l] \in {"opened", "worker", "running"} \/ At(l, "go")'
      <4>1. BeginTeardown(l) => At(l, "go")'
        BY <2>3, TeardownBegins DEF At
      <4>2. ~BackendFails(l) /\ ~StartMonolith(l) /\ ~WaitForGoAgent(l)
        BY <2>3, <2>7 DEF BackendFails, StartMonolith, WaitForGoAgent, Split, Monolith
      <4>3. StartWorker(l) => phase'[l] = "worker"
        BY <1>1 DEF StartWorker, Become
      <4>4. StartGo(l) => phase'[l] = "running" \/ BeginTeardown(l)
        BY <1>1 DEF StartGo, Become
      <4>5. StartFails(l) \/ Stop(l) => BeginTeardown(l)
        BY DEF StartFails, Stop
      <4> QED
        BY <1>5, <2>1, <2>2, <2>7, <4>1, <4>2, <4>3, <4>4, <4>5, Touches
    <3>2. session[l] = "open" /\ NoClose(l)
      BY <2>4, <2>7 DEF Good, Open
    <3>3. ~SubmitClose(l)
      BY <2>7 DEF SubmitClose, Part
    <3>4. session'[l] = "open" /\ NoClose(l)'
      BY <2>5, <3>2, <3>3, QueueSteps
    <3>5. \A p \in Parts \cup {"end"} : At(l, p)' => p = "go"
      BY <3>1, RestOnce DEF At, Parts
    <3> QED
      BY <3>4, <3>5 DEF Good, Parts
  <2>8. CASE phase[l] = "closing"
    <3>1. PICK p \in PartsOf(Split) : At(l, p)
      BY <2>3, <2>8 DEF Stages, At
    <3>2. p \in {"go", "worker", "close", "closed", "shutdown", "lock", "end"}
      BY DEF PartsOf
    <3>3. p \in Parts \cup {"end"}
      BY <3>2 DEF Parts
    <3>4. \A q \in Parts \cup {"end"} : At(l, q) => q = p
      BY <3>1, <3>3, RestOnce DEF At
    <3>5. \A q, r \in Parts \cup {"end"} : At(l, q)' /\ At(l, r)' => q = r
      BY RestOnce DEF At
    <3>6. \/ At(l, p)'
          \/ p \in Parts /\ Done(l, p) /\ At(l, Following[p])'
          \/ p = "closed" /\ session[l] = "broken" /\ At(l, "lock")'
      BY <2>1, <3>1, <3>3, PartMoves
    <3>7. SubmitClose(l) => p = "close" /\ At(l, "closed")'
      <4>1. SubmitClose(l) => Done(l, "close") /\ phase'[l] = "closing"
        BY <2>8 DEF SubmitClose, Done, bootVars
      <4>2. Done(l, "close") => p = "close" /\ todo'[l] = Rest("closed")
        BY <2>6, <3>4, PartProceeds DEF Done, Parts, Following
      <4> QED
        BY <4>1, <4>2 DEF At
    <3>8. phase'[l] = "closing"
      BY <3>6 DEF At
    <3>9. CASE p \in {"go", "worker", "close"}
      <4>1. session[l] = "open" /\ NoClose(l)
        BY <2>4, <3>1, <3>9 DEF Good, Open
      <4>2. session'[l] = "open"
        BY <2>5, <4>1
      <4>3. CASE SubmitClose(l)
        <5>1. At(l, "closed")' /\ OneClose(l)'
          BY <3>7, <4>1, <4>3, QueueSteps
        <5>2. \A q \in Parts \cup {"end"} : At(l, q)' => q = "closed"
          BY <3>5, <5>1 DEF Parts
        <5> QED
          BY <3>8, <4>2, <5>1, <5>2 DEF Good, Open, Parts
      <4>4. CASE ~SubmitClose(l)
        <5>1. NoClose(l)'
          BY <4>1, <4>4, QueueSteps
        <5>2. ~Done(l, "close")
          BY <2>1, <4>4, PartDone DEF Parts
        <5>3. \E q \in {"go", "worker", "close"} : At(l, q)'
          BY <3>6, <3>9, <5>2 DEF Following
        <5>4. \A q \in Parts \cup {"end"} : At(l, q)' => q \in {"go", "worker", "close"}
          BY <3>5, <5>3 DEF Parts
        <5> QED
          BY <4>2, <5>1, <5>4 DEF Good, Parts
      <4> QED
        BY <4>3, <4>4
    <3>10. CASE p = "closed"
      <4>1. OneClose(l) /\ (session[l] # "open" => NoClose(l))
        BY <2>4, <3>1, <3>10 DEF Good
      <4>2. ~SubmitClose(l)
        BY <3>7, <3>10
      <4>3. /\ OneClose(l)' /\ (NoClose(l) => NoClose(l)')
            /\ session' = session \/ NoClose(l)'
        BY <2>5, <4>1, <4>2, QueueSteps
      <4>4. CASE At(l, "closed")'
        <5>1. \A q \in Parts \cup {"end"} : At(l, q)' => q = "closed"
          BY <3>5, <4>4 DEF Parts
        <5>2. OneClose(l)' /\ (session'[l] # "open" => NoClose(l)')
          BY <4>1, <4>3
        <5> QED
          BY <3>8, <5>1, <5>2 DEF Good, Open, Parts
      <4>5. CASE Done(l, "closed") /\ At(l, "shutdown")'
        <5>1. \A q \in Parts \cup {"end"} : At(l, q)' => q = "shutdown"
          BY <3>5, <4>5 DEF Parts
        <5>2. AwaitClose(l)
          BY <2>1, <4>5, PartDone DEF Parts
        <5>3. ~(todo' = [todo EXCEPT ![l] = <<"lock">>])
          BY <1>1, <4>5 DEF At, Rest
        <5>4. session[l] = "closed" /\ session' = session
          BY <5>2, <5>3 DEF AwaitClose
        <5>5. session'[l] = "closed" /\ NoClose(l)'
          BY <4>1, <4>3, <5>4
        <5> QED
          BY <3>8, <5>1, <5>5 DEF Good, Open, Parts
      <4>6. CASE session[l] = "broken" /\ At(l, "lock")'
        <5>1. \A q \in Parts \cup {"end"} : At(l, q)' => q = "lock"
          BY <3>5, <4>6 DEF Parts
        <5>2. session'[l] = "broken" /\ NoClose(l)'
          BY <2>5, <4>1, <4>3, <4>6
        <5> QED
          BY <3>8, <5>1, <5>2 DEF Good, Open, Parts
      <4> QED
        BY <3>6, <3>10, <4>4, <4>5, <4>6 DEF Following
    <3>11. CASE p = "shutdown"
      <4>1. session[l] = "closed" /\ NoClose(l) /\ ~SubmitClose(l)
        BY <2>4, <3>1, <3>7, <3>11 DEF Good
      <4>2. session'[l] = "closed" /\ NoClose(l)'
        BY <2>5, <4>1, QueueSteps
      <4>3. CASE At(l, "shutdown")'
        <5>1. \A q \in Parts \cup {"end"} : At(l, q)' => q = "shutdown"
          BY <3>5, <4>3 DEF Parts
        <5> QED
          BY <3>8, <4>2, <5>1 DEF Good, Open, Parts
      <4>4. CASE Done(l, "shutdown") /\ At(l, "lock")'
        <5>1. \A q \in Parts \cup {"end"} : At(l, q)' => q = "lock"
          BY <3>5, <4>4 DEF Parts
        <5>2. JoinExecutor(l)
          BY <2>1, <4>4, PartDone DEF Parts
        <5>3. Drained(l)'
          BY <4>2, <5>2 DEF JoinExecutor, Part, PartRest, Drained
        <5> QED
          BY <3>8, <4>2, <5>1, <5>3 DEF Good, Open, Parts
      <4> QED
        BY <3>6, <3>11, <4>3, <4>4 DEF Following
    <3>12. CASE p \in {"lock", "end"}
      <4>1. NoClose(l) /\ (session[l] = "broken" \/ Drained(l)) /\ ~SubmitClose(l)
        BY <2>4, <3>1, <3>7, <3>12 DEF Good
      <4>2. NoClose(l)' /\ session' = session
        BY <2>5, <4>1, QueueSteps
      <4>3. session'[l] = "broken" \/ Drained(l)'
        BY <2>1, <2>3, <3>1, <3>12, <4>1, <4>2, DrainedSteps
      <4>4. At(l, "lock")' \/ At(l, "end")'
        BY <3>1, <3>6, <3>12 DEF Following, Parts
      <4>5. \A q \in Parts \cup {"end"} : At(l, q)' => q \in {"lock", "end"}
        BY <3>5, <4>4 DEF Parts
      <4> QED
        BY <3>8, <4>2, <4>3, <4>5 DEF Good, Open, Parts
    <3> QED
      BY <3>2, <3>9, <3>10, <3>11, <3>12
  <2>9. phase[l] \in {"opened", "worker", "running", "closing"}
    <3>1. phase[l] \in Phases \ {"waiting"}
      BY DEF Typed, TypeOK, Boot
    <3>2. CASE phase[l] \in {"off", "loaded", "owner", "exited"}
      <4>1. phase'[l] # phase[l]
        BY <1>5, <3>2
      <4>2. ~StartMonolith(l) /\ ~StartWorker(l) /\ ~StartFails(l) /\ ~StartGo(l)
        BY <3>2 DEF StartMonolith, StartWorker, StartFails, StartGo
      <4>3. ~WaitForGoAgent(l) /\ ~Stop(l)
        BY <3>2 DEF WaitForGoAgent, Stop
      <4>4. ~BackendFails(l)
        BY <1>1, <1>5 DEF BackendFails, Become
      <4> QED
        BY <1>5, <2>1, <2>2, <4>1, <4>2, <4>3, <4>4, Touches
    <3> QED
      BY <3>1, <3>2 DEF Phases
  <2> QED
    BY <2>7, <2>8, <2>9
<1> QED
  BY <1>3, <1>4, <1>5

----------------------------------------------------------------------------------
(* The theorems *)

Inv ==
    /\ Typed /\ Boot /\ Stages /\ Ownership
    /\ Quiet /\ OneThread /\ Serving /\ Attended /\ Closing

\* It holds of a switch nobody has started.
LEMMA InvInit == ASSUME Init PROVE Inv
<1>1. Typed
  <2>1. TypeOK
    <3>1. /\ platform \in Platforms /\ phase \in [Launchers -> Phases]
          /\ \A l \in Launchers : file[l] # Absent <=> phase[l] = "loaded"
      BY DEF Init, Phases
    <3>2. \A l \in Launchers :
             /\ Profile(l) \in {"", Monolith, Split}
             /\ plan[l].core \in BOOLEAN
             /\ plan[l].ports = Rejected
      BY DEF Init, NoPlan, Profile
    <3>3. /\ lock \in Launchers \cup {Nobody} /\ socket \in Launchers \cup {Nobody}
          /\ port \in [{Monolith, Split} -> Launchers \cup {Nobody}]
      BY DEF Init
    <3>4. /\ session \in [Launchers -> {"none", "open", "closed", "broken"}]
          /\ server \in [Launchers -> {"none", "up", "down"}]
          /\ go \in [Launchers -> {"none", "starting", "calling", "serving", "stopping", "exited"}]
      BY DEF Init
    <3>5. /\ call \in [Launchers -> [Callers -> {"idle", "waiting", "submitted", "writing"}]]
          /\ busy \in [Launchers -> Callers \cup {"close", Nobody}]
          /\ shut \in [Launchers -> BOOLEAN]
      BY DEF Init
    <3>6. \A l \in Launchers : ToSet(queue[l]) \subseteq Callers \cup {"close"}
      BY DEF Init, ToSet
    <3>7. kills \in 0..MaxKills
      BY DeploymentAssumption DEF Init
    <3> QED
      BY <3>1, <3>2, <3>3, <3>4, <3>5, <3>6, <3>7 DEF TypeOK
  <2>2. file \in [Launchers -> Files \cup {Absent}] /\ DOMAIN plan = Launchers /\ DOMAIN todo = Launchers
    BY DEF Init
  <2>3. queue \in [Launchers -> Seq(Callers \cup {"close"})]
    BY DEF Init
  <2> QED
    BY <2>1, <2>2, <2>3 DEF Typed
<1>2. \A l \in Launchers : phase[l] = "off"
  BY DEF Init
<1>3. \A l \in Launchers : server[l] = "none" /\ go[l] = "none"
  BY DEF Init
<1>4. Boot /\ Stages /\ Ownership
  BY <1>2 DEF Boot, Stages, Ownership, Owning
<1>5. Quiet /\ OneThread
  BY DEF Init, Quiet, OneThread, Idle
<1>6. Serving /\ Attended
  BY <1>3 DEF Serving, Attended, CoreAlive
<1>7. Closing
  BY <1>2 DEF Closing, Open, At
<1> QED
  BY <1>1, <1>4, <1>5, <1>6, <1>7 DEF Inv

\* Every step preserves it.
LEMMA InvStep == ASSUME Inv, Next PROVE Inv'
<1>1. PICK l \in Launchers : StepOf(l)
  BY DEF Next, StepOf
<1>2. Typed' /\ Boot' /\ Stages' /\ Ownership'
  BY <1>1, TypedStep, BootStep, StagesStep, OwnershipStep DEF Inv
<1>3. Quiet' /\ OneThread' /\ Serving'
  BY <1>1, QuietStep, OneThreadStep, ServingStep DEF Inv
<1>4. Attended' /\ Closing'
  BY <1>1, AttendedStep, ClosingStep DEF Inv
<1> QED
  BY <1>2, <1>3, <1>4 DEF Inv

\* So does a stutter.
LEMMA InvStutters == ASSUME Inv, UNCHANGED vars PROVE Inv'
<1> USE DEF vars, bootVars, sharedVars, threadVars
<1>1. Typed'
  BY DEF Inv, Typed, TypeOK, Profile
<1>2. Boot' /\ Stages' /\ Ownership'
  BY DEF Inv, Boot, Profile, Tofino, Stages, Ownership, Owning
<1>3. Quiet' /\ OneThread'
  BY DEF Inv, Quiet, Outside, Idle, OneThread, Profile
<1>4. Serving' /\ Attended'
  BY DEF Inv, Serving, Attended, At, CoreAlive, Profile, Tofino
<1>5. Closing'
  BY DEF Inv, Closing, Open, At, NoClose, OneClose, Drained, Profile, Tofino
<1> QED
  BY <1>1, <1>2, <1>3, <1>4, <1>5 DEF Inv

\* In every state a launcher that serves owns the switch, its process works as its
\* phase says, and what teardown has left is what run() has still to do.
THEOREM Invariance == Spec => []Inv
<1>1. Init => Inv
  BY InvInit
<1>2. Inv /\ [Next]_vars => Inv'
  BY InvStep, InvStutters
<1> QED
  BY <1>1, <1>2, PTL DEF Spec

\* Types, and the port map of a backend that is open maps no two logical ports to
\* one device port (targets/tofino/runtime/ports.py normalize_port_map).
THEOREM TypeCorrect == Spec => []TypeOK
<1>1. Inv => TypeOK
  BY DEF Inv, Typed
<1> QED
  BY <1>1, Invariance, PTL

\* Unless a launcher is killed the owner's Go Agent is the only one that lives, and
\* no Worker that serves ever loses its socket (launcher.py run, device_worker.py
\* create_device_worker_server).
THEOREM OwnerServesAlone == Spec => []OwnerIsAlone
<1>1. Inv => OwnerIsAlone
  <2> SUFFICES ASSUME Inv, Tofino, NEW l \in Launchers
               PROVE  /\ kills = 0 /\ CoreAlive(l) => lock = l
                      /\ server[l] = "up" /\ Profile(l) = Split => socket = l
    BY DEF OwnerIsAlone
  <2>1. server[l] = "up" /\ Profile(l) = Split => socket = l
    BY DEF Inv, Serving
  <2>2. kills = 0 /\ CoreAlive(l) => Owning(l)
    BY RestParts DEF Inv, Attended, Owning, At, Parts
  <2> QED
    BY <2>1, <2>2 DEF Inv, Ownership
<1> QED
  BY <1>1, Invariance, PTL

\* In the split profile no update reaches the device without the lock, however late
\* a handler has submitted it, unless close() has raised (execution.py close).
THEOREM WritesNeedTheLock == Spec => []WritesAreOwned
<1>1. Inv => WritesAreOwned
  <2> SUFFICES ASSUME Inv, Tofino, NEW l \in Launchers, NEW c \in Callers,
                      call[l][c] = "writing", Profile(l) = Split, session[l] # "broken"
               PROVE  lock = l
    BY DEF WritesAreOwned
  <2>1. phase[l] \in Phases \ {"waiting"}
    BY DEF Inv, Typed, TypeOK, Boot
  <2>2. ~Outside(l)
    BY DEF Inv, Quiet, Idle
  <2>3. busy[l] = c /\ c # Nobody
    BY DeploymentAssumption DEF Inv, OneThread
  <2>4. ~At(l, "end")
    BY <2>3 DEF Inv, Closing, Drained
  <2>5. Owning(l)
    BY <2>1, <2>2, <2>4, RestEnd DEF Owning, Outside, Phases, At
  <2> QED
    BY <2>5 DEF Inv, Ownership
<1> QED
  BY <1>1, Invariance, PTL

\* Two processes of a split deployment that comes up work with the same settings and
\* connections, whatever their files hold (config.py load_agent_config, config.go
\* Load).  The hypotheses are those of EveryFileAgrees.
THEOREM LoadersAlwaysAgree ==
    ASSUME \A f \in Files : Flags(f),
           Absent \notin StartupPolicies,
           \A value, consistency, profile, connections :
               Loaded(value, consistency, profile, connections) # Rejected
    PROVE  Spec => []LoadersAgree
<1>1. \A f \in Files : Agree(f)
  BY EveryFileAgrees
<1>2. Inv => LoadersAgree
  BY <1>1 DEF Inv, Typed, LoadersAgree
<1> QED
  BY <1>2, Invariance, PTL

==================================================================================
