------------------------------- MODULE Northbound -------------------------------
(***************************************************************************)
(* The interfaces in front of the Core, as one client uses them: gNMI and  *)
(* OcsOperations of the Go agent (server/gnmi.go, server/operations.go)    *)
(* and HTTP of the Python agent (nbi/http.py).  A request is translated,   *)
(* takes the commit slot, edits a draft of the connections one operation   *)
(* at a time, passes the preconditions, is programmed and answered; other  *)
(* clients write whenever the slot is free and this one has no control.    *)
(*                                                                         *)
(* What the client knows is reduced to what decides whether it may write:  *)
(* whether the revision it holds and the connections it holds are still    *)
(* the present ones.  The device's part is in MonolithAgent, SplitAgent    *)
(* and DeviceWorker: here an update is committed, rolled back or fails.    *)
(***************************************************************************)
EXTENDS GnmiRequests

CONSTANTS
    Sets,       \* the gNMI Set requests the client may send
    NoRequest

\* A message carries lists.
ASSUME SetsAssumption ==
    \A set \in Sets : Len(set.deletes) \in Nat /\ Len(set.replaces) \in Nat

VARIABLES
    mode, status,
    cached,     \* the device's cache is READY
    leased,     \* the client has control
    slot,       \* who holds the commit slot
    phase,      \* where the client's request or read is
    request,    \* the gNMI Set being carried out
    todo,       \* its operations that are left
    target,     \* the mode the request asks for, and whether it changes it or recovers
    view        \* what the client knows, and from which answer

serverVars == <<connections, draft, mode, status, cached, leased, slot, phase, request, todo, target, view>>

Reads == {"runtime", "tree", "mapping", "permutation"}
Writes == {"set", "batch", "post", "command"}

Nothing == [source |-> "none", revision |-> FALSE, config |-> FALSE]

NoTarget == [mode |-> "ocs", change |-> FALSE, recover |-> FALSE]

\* bug: a request without a mode does not default to the present one
KeepEmpty == [mode |-> "", change |-> FALSE, recover |-> FALSE]

Keep == [mode |-> mode, change |-> FALSE, recover |-> FALSE]

----------------------------------------------------------------------------------
(* The operational state *)

Peers(S, port) == {q \in Ports : <<port, q>> \in DirectedPairs(S)}

\* OpenConfigTree of the Go Core: connected is cleared, the status overwritten.
GoPort(S, port) ==
    LET connected == Peers(S, port) # {}
    IN  [peers |-> Peers(S, port),
         connected |-> connected /\ status # "error" /\ mode = "ocs",
         status |-> IF status = "error" THEN "FAILED"
                    ELSE IF mode # "ocs" THEN "BLOCKED"
                    ELSE IF connected THEN "TUNED" ELSE "OFF"]

\* bug: the mode is looked at before the status
PythonPortByMode(S, port) ==
    LET peers == {IF c.near = port THEN c.far ELSE c.near : c \in {d \in S : port \in Ends(d)}}
        portStatus == IF mode # "ocs" THEN "BLOCKED"
                      ELSE IF status = "error" THEN "FAILED"
                      ELSE IF peers = {} THEN "OFF" ELSE "TUNED"
    IN  [peers |-> peers, connected |-> portStatus = "TUNED", status |-> portStatus]

\* openconfig_tree of the Python model: the first condition that holds.
PythonPort(S, port) ==
    LET peers == {IF c.near = port THEN c.far ELSE c.near : c \in {d \in S : port \in Ends(d)}}
        portStatus == IF status = "error" THEN "FAILED"
                      ELSE IF mode # "ocs" THEN "BLOCKED"
                      ELSE IF peers = {} THEN "OFF" ELSE "TUNED"
    IN  [peers |-> peers, connected |-> portStatus = "TUNED", status |-> portStatus]

ConnectionStatus ==
    IF status = "error" THEN "FAILED" ELSE IF mode # "ocs" THEN "UNKNOWN" ELSE "CONNECTED"

\* The Go Core's mapping: an array of zeros that the pairs fill in.
Permutation(S) ==
    IF 2 * Cardinality(S) # PortCount
    THEN Rejected
    ELSE [port \in Ports |-> CHOOSE peer \in Ports : <<port, peer>> \in DirectedPairs(S)]

\* get_permutation and Permutation refuse debug mode and sparse connections.
HasPairing == mode = "ocs" /\ ToPermutation(connections) # Rejected

----------------------------------------------------------------------------------
(* Requests that write *)

Boot ==
    /\ Init
    /\ mode = "ocs" /\ status = "ready" /\ cached = TRUE
    /\ leased = FALSE /\ slot = "free" /\ phase = "idle"
    /\ request = NoRequest /\ todo = <<>>
    /\ target = NoTarget
    /\ view = Nothing

\* A request that was translated holds the slot while it is carried out.
Enter(source) ==
    /\ phase = "idle" /\ slot = "free"
    /\ phase' = source /\ slot' = "client"

\* The mode is looked at before the operations are carried out.
Set(set) ==
    /\ Enter("set")
    /\ mode = "ocs"
    /\ Operations(set) # Rejected
    /\ request' = set /\ todo' = Operations(set) /\ target' = Keep
    /\ UNCHANGED <<connections, draft, mode, status, cached, leased, view>>

\* bug: an operation that fails ends the request without a release of the slot
LeaveLocked ==
    /\ phase' = "idle" /\ UNCHANGED slot
    /\ request' = NoRequest /\ todo' = <<>> /\ target' = NoTarget

Leave ==
    /\ phase' = "idle" /\ slot' = "free"
    /\ request' = NoRequest /\ todo' = <<>> /\ target' = NoTarget

\* What the operation makes of the draft.
Carry(operation) ==
    CASE operation.kind = "delete" -> DeleteConnection(operation.name)
      [] operation.kind = "replace" ->
            LET c == ValidateConnection(operation.connection)
            IN  IF c = Rejected THEN Edit(Rejected) ELSE ReplaceConnection(c)
      [] operation.kind = "replace_all" -> ReplaceAll(operation.all)

Raises(operation) ==
    \/ operation.kind = "delete" /\ Delete(draft, operation.name) = Rejected
    \/ /\ operation.kind = "replace"
       /\ \/ ValidateConnection(operation.connection) = Rejected
          \/ Replace(draft, ValidateConnection(operation.connection)) = Rejected

\* The first operation that raises ends the request.
Operate ==
    /\ phase = "set" /\ todo # <<>>
    /\ Carry(Head(todo))
    /\ IF Raises(Head(todo))
       THEN Leave
       ELSE todo' = Tail(todo) /\ UNCHANGED <<phase, slot, request, target>>
    /\ UNCHANGED <<mode, status, cached, leased, view>>

\* ApplyBatch and POST /ocs_mapping name the whole target: it is validated
\* before the slot is taken.
Batch(S) ==
    /\ Enter("batch")
    /\ ConnectionSet(S) # Rejected
    /\ ReplaceAll(S)
    /\ target' = Keep
    /\ UNCHANGED <<mode, status, cached, leased, request, todo, view>>

Mapping(source, mapping) ==
    /\ Enter(source) /\ source \in {"batch", "post"}
    /\ FromPermutation(mapping) # Rejected
    /\ ApplyPermutation(mapping)
    /\ target' = Keep
    /\ UNCHANGED <<mode, status, cached, leased, request, todo, view>>

\* SetMode and RecoverDeviceState keep the connections.
SetMode(source, m) ==
    /\ Enter(source) /\ source \in {"batch", "command"}
    /\ target' = [mode |-> m, change |-> TRUE, recover |-> FALSE]
    /\ UNCHANGED <<connections, draft, mode, status, cached, leased, request, todo, view>>

RecoverDeviceState(source) ==
    /\ Enter(source) /\ source \in {"batch", "command"}
    /\ target' = [mode |-> mode, change |-> FALSE, recover |-> TRUE]
    /\ UNCHANGED <<connections, draft, mode, status, cached, leased, request, todo, view>>

\* SetMode is a request to change the mode, whichever it asks for.
ModeChange == target.change

Unchanged == draft = connections /\ target.mode = mode /\ ~target.recover

\* Lease, revision, cache and mode.
Allowed ==
    /\ leased /\ view.revision
    /\ target.recover \/ cached
    /\ target.recover \/ ModeChange \/ mode = "ocs"

Edited == phase \in Writes /\ todo = <<>> /\ status # "updating"

\* A refused request, and one that asks for what there is.
Refuse ==
    /\ Edited
    /\ ~Allowed
    /\ Abandon /\ Leave
    /\ UNCHANGED <<mode, status, cached, leased, view>>

\* What the answer holds from the commit on.  OcsOperations takes the whole state, and
\* POST /ocs_mapping the pairing, from a later read; that of gNMI has the revision only,
\* and the client knows of the connections what it knew before its own changes.
Know(source) ==
    view' = IF source = "set" THEN view
            ELSE [source |-> source, revision |-> source # "batch",
                  config |-> source \notin {"batch", "post"}]

\* The slot is free again before the answer is put together.
Answered(source) ==
    /\ Know(source)
    /\ slot' = "free"
    /\ phase' = IF source \in {"batch", "post"} THEN "answer" ELSE "idle"
    /\ request' = NoRequest /\ todo' = <<>> /\ target' = NoTarget

Confirm ==
    /\ Edited
    /\ Allowed /\ Unchanged
    /\ Answered(phase)
    /\ UNCHANGED <<connections, draft, mode, status, cached, leased>>

Program ==
    /\ Edited
    /\ Allowed /\ ~Unchanged
    /\ status' = "updating"
    /\ UNCHANGED <<connections, draft, mode, cached, leased, slot, phase, request, todo, target, view>>

Programming == slot = "client" /\ status = "updating"

Committed ==
    /\ Programming
    /\ Commit
    /\ mode' = target.mode /\ status' = "ready" /\ cached' = TRUE
    /\ Answered(phase)
    /\ UNCHANGED leased

\* Rolled back, which after a recovery is the device that had to be recovered, or the
\* device is in an unknown state, which the cache need not know.
Failed ==
    /\ Programming
    /\ Abandon
    /\ \/ status' = "ready" /\ cached' = ~target.recover
       \/ status' = "error" /\ cached' \in BOOLEAN
    /\ Leave
    /\ UNCHANGED <<mode, leased, view>>

\* Another snapshot for OcsOperations; the pairing for POST, which fails when the
\* mode has changed or the connections have become sparse.
Answer ==
    /\ phase = "answer"
    /\ view' = IF view.source = "batch" THEN [view EXCEPT !.revision = TRUE, !.config = TRUE]
               ELSE IF HasPairing THEN [view EXCEPT !.config = TRUE]
               ELSE Nothing
    /\ phase' = "idle"
    /\ UNCHANGED <<connections, draft, mode, status, cached, leased, slot, request, todo, target>>

----------------------------------------------------------------------------------
(* Requests that read *)

\* bug: the mapping is read before the revision
RevisionFirstTreeOnly == {"tree"}

\* GET /ocs_mapping takes the snapshot before the pairing, and a client of gNMI
\* asks for the runtime before the tree; GetPermutation reads the pairing first.
RevisionFirst == {"tree", "mapping"}

\* GetRuntime, GET /ocs_mode: one snapshot.
ReadRuntime ==
    /\ phase = "idle"
    /\ view' = [source |-> "runtime", revision |-> TRUE, config |-> TRUE]
    /\ UNCHANGED <<connections, draft, mode, status, cached, leased, slot, phase, request, todo, target>>

StartRead(source) ==
    /\ phase = "idle"
    /\ source = "permutation" => HasPairing
    /\ phase' = "read"
    /\ view' = [source |-> source, revision |-> source \in RevisionFirst,
                config |-> source \notin RevisionFirst]
    /\ UNCHANGED <<connections, draft, mode, status, cached, leased, slot, request, todo, target>>

FinishRead ==
    /\ phase = "read"
    /\ view' = IF view.source = "mapping" /\ ~HasPairing THEN Nothing
               ELSE IF view.source \in RevisionFirst
               THEN [view EXCEPT !.config = TRUE]
               ELSE [view EXCEPT !.revision = TRUE]
    /\ phase' = "idle"
    /\ UNCHANGED <<connections, draft, mode, status, cached, leased, slot, request, todo, target>>

----------------------------------------------------------------------------------
(* The others *)

\* AcquireControl, and the end of the lease while a request may be under way.
ChangeControl ==
    /\ leased' = ~leased
    /\ UNCHANGED <<connections, draft, mode, status, cached, slot, phase, request, todo, target, view>>

\* Another client's write, which goes through the same slot.
OtherEdit(S) ==
    /\ ~leased /\ slot = "free" /\ mode = "ocs" /\ cached
    /\ ReplaceAll(S)
    /\ slot' = "other"
    /\ UNCHANGED <<mode, status, cached, leased, phase, request, todo, target, view>>

\* What the client has read is no longer the present; a read goes on.
Outdated ==
    IF phase \in {"read", "answer"}
    THEN [view EXCEPT !.revision = FALSE, !.config = FALSE]
    ELSE Nothing

OtherCommit ==
    /\ slot = "other"
    /\ Commit
    /\ status' = "ready" /\ cached' = TRUE
    /\ slot' = "free"
    /\ view' = Outdated
    /\ UNCHANGED <<mode, leased, phase, request, todo, target>>

OtherMode ==
    /\ ~leased /\ slot = "free" /\ cached
    /\ mode' \in {"ocs", "debug"} \ {mode} /\ status' = "ready"
    /\ view' = Outdated
    /\ UNCHANGED <<connections, draft, cached, leased, slot, phase, request, todo, target>>

OtherRecover ==
    /\ ~leased /\ slot = "free"
    /\ status' = "ready" /\ cached' = TRUE
    /\ view' = Outdated
    /\ UNCHANGED <<connections, draft, mode, leased, slot, phase, request, todo, target>>

\* Reconciliation finds a drift, or the device as it should be: that makes the cache
\* READY, and ends the error if it was a drift.
Reconcile ==
    /\ slot = "free"
    /\ \/ status' = "error" /\ cached' = FALSE
       \/ status' \in {status, "ready"} /\ cached' = TRUE
    /\ UNCHANGED <<connections, draft, mode, leased, slot, phase, request, todo, target, view>>

ClientStep ==
    \/ \E set \in Sets : Set(set)
    \/ \E S \in Targets : Batch(S)
    \/ \E source \in {"batch", "post"}, mapping \in Mappings : Mapping(source, mapping)
    \/ \E source \in {"batch", "command"} :
            RecoverDeviceState(source) \/ \E m \in {"ocs", "debug"} : SetMode(source, m)
    \/ ReadRuntime
    \/ \E source \in Reads \ {"runtime"} : StartRead(source)

ServerStep == Operate \/ Refuse \/ Confirm \/ Program \/ Committed \/ Failed \/ Answer \/ FinishRead

OtherStep ==
    \/ ChangeControl
    \/ \E S \in Targets : OtherEdit(S)
    \/ OtherCommit \/ OtherMode \/ OtherRecover \/ Reconcile

Serve == ClientStep \/ ServerStep \/ OtherStep

\* A handler that has started goes on: the device is assumed to answer its calls or to
\* fail them (the Go Core's calls to the Worker have deadlines, those of a backend to
\* the device need not).  Nobody has to send a request.
ServerSpec ==
    /\ Boot /\ [][Serve]_serverVars
    /\ WF_serverVars(ServerStep) /\ WF_serverVars(OtherCommit)

----------------------------------------------------------------------------------
(* Properties *)

\* Type invariant.
ServerTypeOK ==
    /\ mode \in {"ocs", "debug"} /\ status \in {"ready", "updating", "error"}
    /\ cached \in BOOLEAN /\ leased \in BOOLEAN
    /\ slot \in {"free", "client", "other"}
    /\ phase \in Writes \cup {"idle", "answer", "read"}
    /\ request \in Sets \cup {NoRequest}
    /\ target \in [mode : {"ocs", "debug"}, change : BOOLEAN, recover : BOOLEAN]
    /\ view \in [source : Reads \cup Writes \cup {"none"},
                 revision : BOOLEAN, config : BOOLEAN]

\* What a Set asks for, said without an order of execution: a connection has the
\* value of the last replace that names it or its whole list, else it keeps its
\* value unless a delete names it.
Outcome(S, set) ==
    LET replaces == Replaces(set)
        Put(i) == IF replaces[i].kind = "replace_all" THEN replaces[i].all
                  ELSE {ValidateConnection(replaces[i].connection)}
        Writers(name) == {i \in 1..Len(replaces) :
                            replaces[i].kind = "replace_all" \/ replaces[i].name = name}
        Last(i, name) == i \in Writers(name) /\ \A j \in Writers(name) : j <= i
        deleted == {Deletes(set)[i].name : i \in 1..Len(set.deletes)}
    IN  {c \in S : Writers(c.name) = {} /\ c.name \notin deleted}
            \cup UNION {{c \in Put(i) : Last(i, c.name)} : i \in 1..Len(replaces)}

\* A Set that gets through its operations programs exactly what it asks for,
\* whichever of them touch the same connection (gnmi.go Set, which collects deletes
\* before replaces, and ApplyConnectionOperations, which carries them out in turn).
SetIsLastWriterWins ==
    request # NoRequest /\ todo = <<>> => draft = Outcome(connections, request)

\* What a gNMI client reads with type CONFIG it can send back: the whole subtree, an
\* entry or its config container, each to its own path, and the connections stay as
\* they are; with type ALL the read-only state makes the write fail.
ConfigRoundTrip ==
    LET root == Element("optical-switch-connections")
        Read(path, type) ==
            Get(<<connections>>, [prefix |-> <<>>, paths |-> path, type |-> type, unsupported |-> FALSE])
    IN  /\ \A path \in {<<>>, <<root>>, <<root, Element("port-connection")>>} :
            ReplaceOperation(<<root>>, Read(<<path>>, "CONFIG")[1]) =
                [kind |-> "replace_all", all |-> connections]
        /\ \A c \in connections, rest \in {<<>>, <<Element("config")>>} :
            LET path == <<root, Keyed("port-connection", c.name)>>
                operation == ReplaceOperation(path, Read(<<path \o rest>>, "CONFIG")[1])
            IN  operation # Rejected /\ ValidateConnection(operation.connection) = c
        /\ connections # {} =>
            ReplaceOperation(<<root>>, Read(<<<<root>>>>, "ALL")[1]) = Rejected

\* The Go and the Python agent show the same ports and the same mapping, and the
\* ports agree with the connections: a connection is CONNECTED exactly when each of
\* its ends is TUNED to the other, and no other port is (tree.go, model.py).
TreesAgree ==
    /\ \A port \in Ports : GoPort(connections, port) = PythonPort(connections, port)
    /\ Permutation(connections) = ToPermutation(connections)
    /\ LET tuned == {port \in Ports : GoPort(connections, port).status = "TUNED"}
       IN  /\ tuned = IF ConnectionStatus = "CONNECTED" THEN Occupied(connections) ELSE {}
           /\ \A c \in connections : /\ GoPort(connections, c.near).peers = {c.far}
                                     /\ GoPort(connections, c.far).peers = {c.near}

\* A client that writes with the revision of an answer never overwrites what it has
\* not seen: while that revision is the present one, so are the connections it
\* holds, whatever other clients commit between the parts of the answer.  It does
\* not hold for GetPermutation, which reads the pairing before the revision.
AnswersAreSafeToWriteFrom ==
    phase \notin {"read", "answer"} /\ view.source # "permutation" /\ view.revision
        => view.config

\* Whatever a request meets, it gives the commit slot back.
SlotIsReleased == slot # "free" ~> slot = "free"
==================================================================================
