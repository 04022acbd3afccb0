------------------------------- MODULE Deployment -------------------------------
(***************************************************************************)
(* The life of a deployment: a launcher (targets/tofino/runtime/launcher.py*)
(* run, targets/p4app/main.py main) reads its files, takes the ownership   *)
(* lock, opens the device session, starts the HTTP server of the Python    *)
(* monolith or the Device Worker and the Go Agent of the split profile, and*)
(* takes all of it down again.  Two launchers may be started on the same   *)
(* switch; either may be killed, and its Go Agent then lives on.           *)
(*                                                                         *)
(* Requests are handled by threads of the launcher's process.  A handler of*)
(* the monolith programs the device itself; a handler of the Worker submits*)
(* the update to the one southbound thread of DedicatedThreadBackend       *)
(* (agent/python/ocs_agent/execution.py), to whose queue close() goes too. *)
(***************************************************************************)
EXTENDS Configuration, FiniteSets

CONSTANTS
    Launchers,
    Callers,    \* bound: handler threads of one process
    Nobody,
    Platforms,  \* of {"tofino", "p4app"}
    Files,      \* what the configuration a launcher is given may be
    MaxKills    \* bound: launchers that are killed

\* Nobody is neither a launcher nor an item of a queue; the port map a file holds
\* is a list of pairs, as the items of a JSON object are.
ASSUME DeploymentAssumption ==
    /\ Nobody \notin Launchers \cup Callers \cup {"close"}
    /\ "close" \notin Callers
    /\ Absent \notin Files
    /\ \A f \in Files : \A i \in DOMAIN f.ports :
         f.ports[i] = <<f.ports[i][1], f.ports[i][2]>>
    /\ Platforms \subseteq {"tofino", "p4app"}
    /\ MaxKills \in Nat

VARIABLES
    platform,
    phase,    \* where run() or main() of each launcher is
    file,     \* what it has read, until it goes to work with it
    plan,     \* what its control flow depends on from there
    lock,     \* the launcher that holds the ownership lock
    socket,   \* the launcher whose Worker the socket's path leads to, or led to
    port,     \* the launcher whose process listens, for each profile
    session,  \* the BFRT or P4Runtime session of each launcher
    server,   \* its HTTP server or its Worker's gRPC server
    go,       \* its Go Agent
    call,     \* where each handler thread is
    queue,    \* what is submitted to its southbound thread
    busy,     \* what that thread executes
    shut,     \* its executor takes no more work
    todo,     \* what teardown has left to do
    kills

bootVars == <<platform, phase, file, plan>>
sharedVars == <<lock, socket, port>>
threadVars == <<call, queue, busy, shut>>
vars == <<bootVars, sharedVars, session, server, go, threadVars, todo, kills>>

Phases == {"off", "loaded", "owner", "opened", "worker", "waiting", "running",
           "closing", "exited"}

Tofino == platform = "tofino"
Profile(l) == plan[l].profile
CoreAlive(l) == go[l] \in {"starting", "calling", "serving", "stopping"}

NoPlan == [profile |-> "", core |-> FALSE, ports |-> Rejected]

Init ==
    /\ platform \in Platforms
    /\ phase = [l \in Launchers |-> "off"]
    /\ file = [l \in Launchers |-> Absent]
    /\ plan = [l \in Launchers |-> NoPlan]
    /\ lock = Nobody /\ socket = Nobody
    /\ port = [profile \in {Monolith, Split} |-> Nobody]
    /\ session = [l \in Launchers |-> "none"]
    /\ server = [l \in Launchers |-> "none"]
    /\ go = [l \in Launchers |-> "none"]
    /\ call = [l \in Launchers |-> [c \in Callers |-> "idle"]]
    /\ queue = [l \in Launchers |-> <<>>]
    /\ busy = [l \in Launchers |-> Nobody]
    /\ shut = [l \in Launchers |-> FALSE]
    /\ todo = [l \in Launchers |-> <<>>]
    /\ kills = 0

-----------------------------------------------------------------------------
(* Startup. *)

\* What the finally clause does, in its order.  P4AppBackend has no close(), so
\* main() closes a backend in the split profile only, where it is the executor.
Teardown(profile) ==
    CASE Tofino /\ profile = Split -> <<"go", "worker", "close", "closed", "shutdown", "lock">>
      [] Tofino /\ profile = Monolith -> <<"http", "backend", "lock">>
      [] ~Tofino /\ profile = Split -> <<"go", "worker", "shutdown">>
      [] OTHER -> <<"http">>

Become(l, p) == phase' = [phase EXCEPT ![l] = p] /\ UNCHANGED todo

BeginTeardown(l) ==
    /\ phase' = [phase EXCEPT ![l] = "closing"]
    /\ todo' = [todo EXCEPT ![l] = Teardown(Profile(l))]

\* A p4app container runs main() once.
LoadConfig(l) ==
    /\ phase[l] = "off"
    /\ Tofino \/ \A k \in Launchers : phase[k] = "off"
    /\ \E f \in Files :
         IF LoadFor(platform, f) = Rejected
         THEN Become(l, "exited") /\ UNCHANGED file
         ELSE Become(l, "loaded") /\ file' = [file EXCEPT ![l] = f]
    /\ UNCHANGED <<platform, plan, sharedVars, session, server, go, threadVars, kills>>

\* The Go Agent will read the same file.
TakeLock(l) ==
    /\ phase[l] = "loaded"
    /\ file' = [file EXCEPT ![l] = Absent]
    /\ plan' = [plan EXCEPT ![l] =
                  [profile |-> file[l].json.deployment_profile,
                   core |-> Load(file[l]) # Rejected,
                   ports |-> IF Tofino THEN NormalizePortMap(file[l].ports) ELSE Rejected]]
    /\ IF Tofino /\ lock # Nobody THEN Become(l, "exited") ELSE Become(l, "owner")
    /\ lock' = IF Tofino /\ lock = Nobody THEN l ELSE lock
    /\ UNCHANGED <<platform, socket, port, session, server, go, threadVars, kills>>

OpenBackend(l) ==
    /\ phase[l] = "owner"
    /\ Tofino => plan[l].ports # Rejected
    /\ session' = [session EXCEPT ![l] = "open"]
    /\ Become(l, "opened")
    /\ UNCHANGED <<platform, file, plan, sharedVars, server, go, threadVars, kills>>

\* No client library, no answer, no such pipeline, or a bad port map.
BackendFails(l) ==
    /\ phase[l] = "owner"
    /\ IF Tofino THEN Become(l, "exited") /\ lock' = Nobody
       ELSE BeginTeardown(l) /\ UNCHANGED lock
    /\ UNCHANGED <<platform, file, plan, socket, port, session, server, go, threadVars, kills>>

\* OcsAgent, create_rest_server and the thread that serves.
StartMonolith(l) ==
    /\ phase[l] = "opened" /\ Profile(l) = Monolith
    /\ port[Monolith] = Nobody
    /\ port' = [port EXCEPT ![Monolith] = l]
    /\ server' = [server EXCEPT ![l] = "up"]
    /\ Become(l, "running")
    /\ UNCHANGED <<platform, file, plan, lock, socket, session, go, threadVars, kills>>

\* create_device_worker_server removes whatever is at the path.
StartWorker(l) ==
    /\ phase[l] = "opened" /\ Profile(l) = Split
    /\ socket' = l
    /\ server' = [server EXCEPT ![l] = "up"]
    /\ Become(l, "worker")
    /\ UNCHANGED <<platform, file, plan, lock, port, session, go, threadVars, kills>>

\* The first read of the device fails, or the address is taken.
StartFails(l) ==
    /\ phase[l] = "opened"
    /\ BeginTeardown(l)
    /\ socket' = IF Profile(l) = Split THEN Nobody ELSE socket
    /\ UNCHANGED <<platform, file, plan, lock, port, session, server, go, threadVars, kills>>

StartGo(l) ==
    /\ phase[l] = "worker"
    /\ \/ go' = [go EXCEPT ![l] = "starting"] /\ Become(l, IF Tofino THEN "running" ELSE "waiting")
       \/ BeginTeardown(l) /\ UNCHANGED go   \* Popen fails
    /\ UNCHANGED <<platform, file, plan, sharedVars, session, server, threadVars, kills>>

\* wait_for_go_agent gives up when the Agent has exited or 10 seconds are over.
WaitForGoAgent(l) ==
    /\ phase[l] = "waiting"
    /\ \/ go[l] = "serving" /\ Become(l, "running")
       \/ BeginTeardown(l)
    /\ UNCHANGED <<platform, file, plan, sharedVars, session, server, go, threadVars, kills>>

\* SIGINT or SIGTERM, or the end of the p4app CLI.  Only the Tofino launcher
\* notices that its Go Agent has exited.
Stop(l) ==
    /\ phase[l] = "running"
    /\ BeginTeardown(l)
    /\ UNCHANGED <<platform, file, plan, sharedVars, session, server, go, threadVars, kills>>

GoAgentExited(l) ==
    /\ Tofino /\ Profile(l) = Split /\ go[l] = "exited"
    /\ Stop(l)

-----------------------------------------------------------------------------
(* The Go Agent. *)

GoRest == <<bootVars, lock, socket, session, server, threadVars, todo, kills>>

Hangup(l) == port' = [port EXCEPT ![Split] = IF @ = l THEN Nobody ELSE @]

GoLoad(l) ==
    /\ go[l] = "starting"
    /\ go' = [go EXCEPT ![l] = IF plan[l].core THEN "calling" ELSE "exited"]
    /\ UNCHANGED <<port, GoRest>>

\* backend.New and agent.New call the Worker, and may program the device, before
\* the Agent finds out whether it can listen.
GoListen(l) ==
    /\ go[l] = "calling"
    /\ IF port[Split] = Nobody
       THEN go' = [go EXCEPT ![l] = "serving"] /\ port' = [port EXCEPT ![Split] = l]
       ELSE go' = [go EXCEPT ![l] = "exited"] /\ UNCHANGED port
    /\ UNCHANGED GoRest

\* GracefulStop has returned; or agent.New, the server or the process fails, or
\* somebody kills the Agent that a killed launcher left behind.
GoExit(l) ==
    /\ CoreAlive(l)
    /\ go' = [go EXCEPT ![l] = "exited"]
    /\ Hangup(l)
    /\ UNCHANGED GoRest

-----------------------------------------------------------------------------
(* Requests. *)

CallRest == <<bootVars, sharedVars, session, server, go, todo, kills>>

Move(l, c, s) == call' = [call EXCEPT ![l][c] = s]

\* A Worker is called by every Go Agent that lives, whichever launcher's it is.
Request(l, c) ==
    /\ call[l][c] = "idle" /\ server[l] = "up"
    /\ Profile(l) = Split =>
         socket = l /\ \E k \in Launchers : go[k] \in {"calling", "serving", "stopping"}
    /\ Move(l, c, "waiting")
    /\ UNCHANGED <<queue, busy, shut, CallRest>>

\* The lock of the Core or of DeviceBackendService.  An executor that is shut
\* refuses, and the handler answers with an error.
Enter(l, c) ==
    /\ call[l][c] = "waiting"
    /\ \A d \in Callers : call[l][d] \in {"idle", "waiting"}
    /\ CASE Profile(l) = Monolith -> Move(l, c, "writing") /\ UNCHANGED queue
         [] Profile(l) = Split /\ shut[l] -> Move(l, c, "idle") /\ UNCHANGED queue
         [] OTHER -> /\ Move(l, c, "submitted")
                     /\ queue' = [queue EXCEPT ![l] = Append(@, c)]
    /\ UNCHANGED <<busy, shut, CallRest>>

\* The southbound thread takes the next item.
Take(l) ==
    /\ busy[l] = Nobody /\ queue[l] # <<>>
    /\ busy' = [busy EXCEPT ![l] = Head(queue[l])]
    /\ queue' = [queue EXCEPT ![l] = Tail(@)]
    /\ IF Head(queue[l]) = "close" THEN UNCHANGED call ELSE Move(l, Head(queue[l]), "writing")
    /\ UNCHANGED <<shut, CallRest>>

Finish(l, c) ==
    /\ call[l][c] = "writing"
    /\ Move(l, c, "idle")
    /\ busy' = [busy EXCEPT ![l] = IF @ = c THEN Nobody ELSE @]
    /\ UNCHANGED <<queue, shut, CallRest>>

\* close() of BFRTBackend; tearing the stream down may raise.
CloseSession(l) ==
    /\ busy[l] = "close"
    /\ busy' = [busy EXCEPT ![l] = Nobody]
    /\ \E s \in {"closed", "broken"} : session' = [session EXCEPT ![l] = s]
    /\ UNCHANGED <<call, queue, shut, bootVars, sharedVars, server, go, todo, kills>>

-----------------------------------------------------------------------------
(* Teardown. *)

Part(l, p) == phase[l] = "closing" /\ todo[l] # <<>> /\ Head(todo[l]) = p

Proceed(l) == todo' = [todo EXCEPT ![l] = Tail(@)]

PartRest == <<bootVars, call, queue, busy, kills>>

TerminateGo(l) ==
    /\ Part(l, "go") /\ go[l] \in {"starting", "calling", "serving"}
    /\ go' = [go EXCEPT ![l] = "stopping"]
    /\ UNCHANGED <<todo, sharedVars, session, server, shut, PartRest>>

\* Bug: goes on after 5 seconds without killing.
GoGoneOrSlow(l) ==
    /\ Part(l, "go") /\ ~(go[l] \in {"starting", "calling", "serving"})
    /\ Proceed(l)
    /\ UNCHANGED <<go, sharedVars, session, server, shut, PartRest>>

GoGone(l) ==
    /\ Part(l, "go") /\ ~CoreAlive(l)
    /\ Proceed(l)
    /\ UNCHANGED <<go, sharedVars, session, server, shut, PartRest>>

\* Bug: waits without a timeout.
KillGoNever(l) == go[l] = "exited" /\ GoGone(l)

\* The wait of 5 seconds is over.
KillGo(l) ==
    /\ Part(l, "go") /\ go[l] = "stopping"
    /\ go' = [go EXCEPT ![l] = "exited"]
    /\ Hangup(l)
    /\ Proceed(l)
    /\ UNCHANGED <<lock, socket, session, server, shut, PartRest>>

\* Handler threads are daemons: nobody waits for them.
StopHttp(l) ==
    /\ Part(l, "http")
    /\ server' = [server EXCEPT ![l] = IF @ = "up" THEN "down" ELSE @]
    /\ port' = [port EXCEPT ![Monolith] = IF @ = l THEN Nobody ELSE @]
    /\ Proceed(l)
    /\ UNCHANGED <<lock, socket, session, go, shut, PartRest>>

\* stop(2).wait() ends the calls after 2 seconds, and no handler.
StopWorker(l) ==
    /\ Part(l, "worker")
    /\ server' = [server EXCEPT ![l] = IF @ = "up" THEN "down" ELSE @]
    /\ socket' = IF server[l] = "up" THEN Nobody ELSE socket
    /\ Proceed(l)
    /\ UNCHANGED <<lock, port, session, go, shut, PartRest>>

\* The monolith's session is closed by the main thread, whoever is writing.
CloseBackend(l) ==
    /\ Part(l, "backend")
    /\ \E s \in {"closed", "broken"} : session' = [session EXCEPT ![l] = s]
    /\ Proceed(l)
    /\ UNCHANGED <<sharedVars, server, go, shut, PartRest>>

SubmitClose(l) ==
    /\ Part(l, "close")
    /\ queue' = [queue EXCEPT ![l] = Append(@, "close")]
    /\ Proceed(l)
    /\ UNCHANGED <<bootVars, sharedVars, session, server, go, call, busy, shut, kills>>

\* When close() has raised, the executor is not shut down.
AwaitClose(l) ==
    /\ Part(l, "closed")
    /\ \/ session[l] = "closed" /\ Proceed(l)
       \/ session[l] = "broken" /\ todo' = [todo EXCEPT ![l] = <<"lock">>]
    /\ UNCHANGED <<sharedVars, session, server, go, shut, PartRest>>

ShutExecutor(l) ==
    /\ Part(l, "shutdown") /\ ~shut[l]
    /\ shut' = [shut EXCEPT ![l] = TRUE]
    /\ UNCHANGED <<todo, sharedVars, session, server, go, PartRest>>

\* Bug: shutdown(wait=False).
JoinNothing(l) ==
    /\ Part(l, "shutdown") /\ shut[l]
    /\ Proceed(l)
    /\ UNCHANGED <<sharedVars, session, server, go, shut, PartRest>>

\* shutdown(wait=True): the southbound thread works off what is submitted.
JoinExecutor(l) ==
    /\ Part(l, "shutdown") /\ shut[l]
    /\ queue[l] = <<>> /\ busy[l] = Nobody
    /\ Proceed(l)
    /\ UNCHANGED <<sharedVars, session, server, go, shut, PartRest>>

ReleaseLock(l) ==
    /\ Part(l, "lock")
    /\ lock' = Nobody
    /\ Proceed(l)
    /\ UNCHANGED <<socket, port, session, server, go, shut, PartRest>>

\* What is left of a process: nothing but the path of its socket.
Vanish(l) ==
    /\ phase' = [phase EXCEPT ![l] = "exited"]
    /\ session' = [session EXCEPT ![l] = "none"]
    /\ server' = [server EXCEPT ![l] = "none"]
    /\ call' = [call EXCEPT ![l] = [c \in Callers |-> "idle"]]
    /\ queue' = [queue EXCEPT ![l] = <<>>]
    /\ busy' = [busy EXCEPT ![l] = Nobody]

\* The interpreter waits for the threads of its executors, the Worker's handlers
\* among them, and cuts the handlers of the HTTP server off.
Exit(l) ==
    /\ phase[l] = "closing" /\ todo[l] = <<>>
    /\ Profile(l) = Split => /\ queue[l] = <<>> /\ busy[l] = Nobody
                             /\ \A c \in Callers : call[l][c] = "idle"
    /\ Vanish(l)
    /\ UNCHANGED <<platform, file, plan, sharedVars, go, shut, todo, kills>>

\* SIGKILL: the kernel drops the lock and closes the sockets.
Kill(l) ==
    /\ phase[l] \notin {"off", "exited"}
    /\ kills < MaxKills
    /\ kills' = kills + 1
    /\ Vanish(l)
    /\ lock' = IF lock = l THEN Nobody ELSE lock
    /\ port' = [port EXCEPT ![Monolith] = IF @ = l THEN Nobody ELSE @]
    /\ file' = [file EXCEPT ![l] = Absent]
    /\ todo' = [todo EXCEPT ![l] = <<>>]
    /\ UNCHANGED <<platform, plan, socket, go, shut>>

-----------------------------------------------------------------------------
Startup(l) ==
    \/ LoadConfig(l) \/ TakeLock(l) \/ OpenBackend(l) \/ BackendFails(l)
    \/ StartMonolith(l) \/ StartWorker(l) \/ StartFails(l) \/ StartGo(l)
    \/ WaitForGoAgent(l) \/ Stop(l) \/ GoAgentExited(l)

GoAgent(l) == GoLoad(l) \/ GoListen(l) \/ GoExit(l)

Southbound(l) == Take(l) \/ CloseSession(l)

CloseDown(l) ==
    \/ TerminateGo(l) \/ GoGone(l) \/ KillGo(l) \/ StopHttp(l) \/ StopWorker(l)
    \/ CloseBackend(l) \/ SubmitClose(l) \/ AwaitClose(l)
    \/ ShutExecutor(l) \/ JoinExecutor(l) \/ ReleaseLock(l) \/ Exit(l)

Next ==
    \E l \in Launchers :
        \/ Startup(l) \/ GoAgent(l) \/ Southbound(l) \/ CloseDown(l) \/ Kill(l)
        \/ \E c \in Callers : Request(l, c) \/ Enter(l, c) \/ Finish(l, c)

\* The launcher's main thread goes on and polls its Go Agent, a handler gets a lock that
\* is free, and each write ends, since the device is assumed to answer or to fail its
\* calls (p4app.py gives them no deadline).  Nothing is assumed of the Go Agent.
Spec ==
    /\ Init /\ [][Next]_vars
    /\ \A l \in Launchers :
         /\ WF_vars(CloseDown(l)) /\ WF_vars(GoAgentExited(l)) /\ WF_vars(Southbound(l))
         /\ \A c \in Callers : WF_vars(Enter(l, c)) /\ WF_vars(Finish(l, c))

-----------------------------------------------------------------------------
(* Properties. *)

\* Types; and a backend that is open has a port map that can be read both ways.
TypeOK ==
    /\ platform \in Platforms
    /\ phase \in [Launchers -> Phases]
    /\ \A l \in Launchers : file[l] # Absent <=> phase[l] = "loaded"
    /\ \A l \in Launchers :
         /\ Profile(l) \in {"", Monolith, Split}
         /\ plan[l].core \in BOOLEAN
         /\ plan[l].ports # Rejected =>
              \A p, q \in DOMAIN plan[l].ports : plan[l].ports[p] = plan[l].ports[q] => p = q
    /\ lock \in Launchers \cup {Nobody} /\ socket \in Launchers \cup {Nobody}
    /\ port \in [{Monolith, Split} -> Launchers \cup {Nobody}]
    /\ session \in [Launchers -> {"none", "open", "closed", "broken"}]
    /\ server \in [Launchers -> {"none", "up", "down"}]
    /\ go \in [Launchers -> {"none", "starting", "calling", "serving", "stopping", "exited"}]
    /\ call \in [Launchers -> [Callers -> {"idle", "waiting", "submitted", "writing"}]]
    /\ \A l \in Launchers : ToSet(queue[l]) \subseteq Callers \cup {"close"}
    /\ busy \in [Launchers -> Callers \cup {"close", Nobody}]
    /\ shut \in [Launchers -> BOOLEAN]
    /\ kills \in 0..MaxKills

\* The two processes of a split deployment that comes up use the same settings
\* and connections (config.py load_agent_config, config.go Load).
LoadersAgree == \A l \in Launchers : file[l] # Absent => Agree(file[l])

\* In the split profile no update is on the device unless its launcher holds the
\* ownership lock, whatever handlers still run when teardown begins
\* (execution.py close, launcher.py run).  When close() raises, the executor
\* outlives the lock; the monolith's handlers outlive it always.
WritesAreOwned ==
    Tofino =>
        \A l \in Launchers : \A c \in Callers :
            call[l][c] = "writing" /\ Profile(l) = Split /\ session[l] # "broken" => lock = l

\* A switch has one Go Agent and one Worker socket, the owner's, unless a launcher
\* was killed; the socket of a Worker that serves is never taken from it
\* (launcher.py run, device_worker.py create_device_worker_server).
OwnerIsAlone ==
    Tofino =>
        \A l \in Launchers :
            /\ kills = 0 /\ CoreAlive(l) => lock = l
            /\ server[l] = "up" /\ Profile(l) = Split => socket = l

\* A deployment whose teardown has begun, or whose Go Agent has exited under the
\* Tofino launcher, ends and leaves the lock to the next launcher, with a Go Agent
\* that hangs and handlers at work (launcher.py run, main.py main).
Ending(l) ==
    \/ phase[l] = "closing"
    \/ Tofino /\ phase[l] = "running" /\ Profile(l) = Split /\ go[l] = "exited"

TeardownEnds == \A l \in Launchers : Ending(l) ~> phase[l] = "exited" /\ lock # l
================================================================================
