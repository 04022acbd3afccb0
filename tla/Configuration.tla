----------------------------- MODULE Configuration -----------------------------
(***************************************************************************)
(* What the processes of a deployment make of its files: the JSON          *)
(* configuration and the two YAML files it names.  The Python launcher and *)
(* the Go Agent of one go-split-grpc deployment read the same files with   *)
(* loaders of their own (agent/python/ocs_agent/config.py and profile.py,  *)
(* agent/go/internal/config/config.go).                                    *)
(*                                                                         *)
(* A file is a record: "json" gives each setting its value or Absent, with *)
(* "" and 0 for values of no legal form; "extra" says whether the JSON has *)
(* a deprecated or an unknown field; "env" is OCS_CONSISTENCY_MODE;        *)
(* "profile" and "entries" are the contents of the model file that are     *)
(* used, "capability" the profile its companion names; "flaws" is what     *)
(* else is wrong in any of the three files; "ports" the items of           *)
(* backend.logical_to_device_port.                                         *)
(***************************************************************************)
EXTENDS Naturals, Sequences, SequencesExt

CONSTANTS
    Ports,    \* the ports of the model file's inventory
    Absent,   \* a setting or field that is not written
    Null,     \* one that is written as null
    Rejected  \* the result of a loader that refuses

Monolith == "python-monolith-http-direct"
Split == "go-split-grpc"

ConsistencyModes == {"CACHED_ACK", "CACHED_SYNC", "STRICT_DEVICE"}
StartupPolicies == {"REQUIRE_MATCH", "REAPPLY_DESIRED"}

Strings == STRING \ {""}
Positive == Nat \ {0}

\* The values of each setting that the loaders accept.
Legal ==
    [deployment_profile |-> {Monolith, Split}, mode |-> {"l2", "l3"},
     model_file |-> Strings, capability_profile_file |-> Strings,
     consistency_mode |-> ConsistencyModes, startup_policy |-> StartupPolicies,
     backend |-> {"bfrt", "p4app"}, lease_seconds |-> Positive,
     reconcile_interval_seconds |-> Positive, http_port |-> 1..65535,
     grpc_host |-> Strings, grpc_port |-> 1..65535, target |-> Strings,
     timeout_seconds |-> Positive, binary |-> Strings]

\* What Python takes for a setting that is not written; "" is refused.
Default ==
    [deployment_profile |-> "", mode |-> "l3", model_file |-> "",
     capability_profile_file |-> "", consistency_mode |-> "CACHED_ACK",
     startup_policy |-> "REQUIRE_MATCH", backend |-> "p4app", lease_seconds |-> 30,
     reconcile_interval_seconds |-> 30, http_port |-> 5000,
     grpc_host |-> "127.0.0.1", grpc_port |-> 9339,
     target |-> "unix:///tmp/ocs-device-worker.sock", timeout_seconds |-> 10,
     binary |-> "/usr/local/bin/ocs-go-agent"]

Settings == DOMAIN Legal

HttpSettings == {"http_port"}
SplitSettings == {"grpc_host", "grpc_port", "target", "timeout_seconds", "binary"}

\* What the Go Agent reads of a file, and the one setting it has a default for.
GoSettings == Settings \ {"backend", "http_port", "binary"}
GoDefaults == {"startup_policy"}

\* Other flaws, by the loader that finds them.  Go decodes into structures and knows
\* every field of a YAML file; Python compares the keys of a component, of the
\* connections and of a connection, and ignores what it does not look up elsewhere.
BothSee == {"metadata", "inventory", "capability status", "duplicate capability",
            "unknown component field", "unknown connection field", "second document"}
PythonSees == BothSee \cup {"no capability list", "duplicate gNMI model", "empty encoding"}
GoSees == BothSee \cup {"no draft area", "port without index",
                        "model names another capability file", "debugger flag",
                        "unknown root field", "unknown field beside the components",
                        "unknown capability field"}

(***************************************************************************)
(* The connections of the model file.  An entry may hold its fields itself *)
(* or in a nested config.                                                  *)
(***************************************************************************)

\* What both models accept as a set of connections.
ConnectionSet(list) ==
    IF /\ \A i \in DOMAIN list :
            /\ list[i].name \notin {"", Absent}
            /\ list[i].bidirectional
            /\ {list[i].near, list[i].far} \subseteq Ports
            /\ list[i].near # list[i].far
       /\ \A i, j \in DOMAIN list :
            i # j => /\ list[i].name # list[j].name
                     /\ {list[i].near, list[i].far} \cap {list[j].near, list[j].far} = {}
    THEN ToSet(list) ELSE Rejected

PythonEntry(entry) ==
    LET config == IF entry.config = Absent THEN entry.item ELSE entry.config
    IN [name |-> IF entry.item.name = Absent THEN config.name ELSE entry.item.name,
        bidirectional |-> IF config.bidirectional = Absent THEN TRUE ELSE config.bidirectional,
        near |-> config.near, far |-> config.far]

\* cmp.Or: the first that is not the zero value.
FirstWritten(a, b) == IF a \in {Absent, ""} THEN b ELSE a

\* Bug: the nested name wins.
GoEntryNested(entry) ==
    IF entry.config \in {Absent, Null} THEN PythonEntry([entry EXCEPT !.config = Absent])
    ELSE [PythonEntry(entry) EXCEPT !.name = FirstWritten(entry.config.name, entry.item.name)]

GoEntry(entry) ==
    LET item == entry.item
        nested == entry.config \notin {Absent, Null}
        ends == IF nested THEN entry.config ELSE item
    IN [name |-> IF nested THEN FirstWritten(item.name, entry.config.name) ELSE item.name,
        bidirectional |->
            IF ends.bidirectional # Absent THEN ends.bidirectional
            ELSE IF item.bidirectional # Absent THEN item.bidirectional
            ELSE TRUE,
        near |-> ends.near, far |-> ends.far]

PythonConnections(entries) ==
    IF \E i \in DOMAIN entries : entries[i].config = Null THEN Rejected
    ELSE ConnectionSet([i \in DOMAIN entries |-> PythonEntry(entries[i])])

GoConnections(entries) == ConnectionSet([i \in DOMAIN entries |-> GoEntry(entries[i])])

(***************************************************************************)
(* The two loaders.                                                        *)
(***************************************************************************)

\* The value of a setting for Python, and for Go, where an absent setting has
\* the zero value of its type, as "" and 0 have.
PythonValue(file, s) == IF file.json[s] = Absent THEN Default[s] ELSE file.json[s]

GoValue(file, s) ==
    IF s \in GoDefaults /\ file.json[s] \in {Absent, ""} THEN Default[s] ELSE file.json[s]

\* A configuration as the processes hold it.
Loaded(value, consistency, profile, connections) ==
    [s \in Settings \cup {"profile", "connections"} |->
        CASE s = "consistency_mode" -> consistency
          [] s = "profile" -> profile
          [] s = "connections" -> connections
          [] OTHER -> value[s]]

LoadModel(file) ==
    [profile |-> IF file.profile = Absent THEN "p4app-v1" ELSE file.profile,
     connections |-> PythonConnections(file.entries)]

\* Python checks the consistency mode it will use, and not the one it replaces.
LoadAgentConfig(file) ==
    LET value == [s \in Settings |-> PythonValue(file, s)]
        consistency == IF file.env = Absent THEN value.consistency_mode ELSE file.env
        others == IF value.deployment_profile = Split THEN HttpSettings ELSE SplitSettings
        model == LoadModel(file)
    IN IF /\ file.extra = "none"
          /\ \A s \in others : file.json[s] = Absent
          /\ \A s \in Settings \ ({"mode", "consistency_mode"} \cup others) :
                value[s] \in Legal[s]
          /\ consistency \in ConsistencyModes
          /\ value.deployment_profile = Monolith /\ value.backend = "bfrt" =>
                value.http_port # 5000
          /\ file.flaws \cap PythonSees = {}
          /\ model.connections # Rejected
          /\ model.profile = file.capability
       THEN Loaded(value, consistency, model.profile, model.connections)
       ELSE Rejected

\* Go checks the consistency mode of the file, then the one that replaces it.
Load(file) ==
    LET value == [s \in Settings |-> GoValue(file, s)]
        override == file.env \notin {Absent, ""}
        connections == GoConnections(file.entries)
    IN IF /\ file.extra = "none"
          /\ file.json.http_port = Absent
          /\ \A s \in GoSettings : value[s] # Absent /\ value[s] \in Legal[s]
          /\ value.deployment_profile = Split
          /\ override => file.env \in ConsistencyModes
          /\ file.flaws \cap GoSees = {}
          /\ connections # Rejected
          /\ file.profile = file.capability
       THEN Loaded(value, IF override THEN file.env ELSE value.consistency_mode,
                   file.profile, connections)
       ELSE Rejected

\* load_config of targets/p4app looks at two more settings, and at the pairing: the
\* mapping of the inventory is computed at once.
LoadP4app(file) ==
    LET config == LoadAgentConfig(file)
    IN IF config = Rejected THEN Rejected
       ELSE IF /\ config.backend = "p4app"
               /\ config.mode \in Legal.mode
               /\ "debugger flag" \notin file.flaws
               /\ UNION {{c.near, c.far} : c \in config.connections} = Ports
            THEN config ELSE Rejected

\* The launcher of a platform refuses the other platform's backend.
LoadFor(platform, file) ==
    IF platform = "p4app" THEN LoadP4app(file)
    ELSE LET config == LoadAgentConfig(file)
         IN IF config = Rejected THEN Rejected
            ELSE IF config.backend = "bfrt" THEN config ELSE Rejected

\* Bug: two logical ports may share a device port.
NormalizeLogical(items) ==
    IF items # <<>> /\ {item[1] : item \in ToSet(items)} = 1..Len(items)
    THEN [p \in 1..Len(items) |-> CHOOSE d \in 0..99 : <<p, d>> \in ToSet(items)]
    ELSE Rejected

\* _normalize_port_map: logical ports 1..n, each with a device port of its own.
NormalizePortMap(items) ==
    LET logical == {item[1] : item \in ToSet(items)}
        device == {item[2] : item \in ToSet(items)}
    IN IF /\ items # <<>>
          /\ \A i, j \in DOMAIN items :
                i # j => items[i][1] # items[j][1] /\ items[i][2] # items[j][2]
          /\ logical = 1..Len(items)
          /\ device \subseteq Nat
       THEN [p \in logical |-> CHOOSE d \in device : <<p, d>> \in ToSet(items)]
       ELSE Rejected

(***************************************************************************)
(* A file that writes down all the Go Agent asks for and nothing that only *)
(* Go refuses.  Python supplies most settings by default, does not look at *)
(* "mode", and reads bidirectional in the nested config only.              *)
(***************************************************************************)
Complete(file) ==
    /\ \A s \in GoSettings \ GoDefaults : file.json[s] # Absent
    /\ \A s \in {"mode", "consistency_mode"} : file.json[s] \in Legal[s]
    /\ file.profile # Absent
    /\ file.flaws \cap (GoSees \ PythonSees) = {}
    /\ \A i \in DOMAIN file.entries :
         LET entry == file.entries[i]
         IN entry.config # Absent => entry.item.bidirectional = Absent

\* The settings both processes of a split deployment use.
SharedSettings == GoSettings \ {"mode"}

\* The two processes of a split deployment that comes up work with the same
\* configuration, and a complete file that Python accepts is accepted by Go.
Agree(file) ==
    LET python == LoadAgentConfig(file)
        go == Load(file)
    IN python # Rejected /\ python.deployment_profile = Split =>
         /\ go # Rejected =>
              /\ \A s \in SharedSettings : python[s] = go[s]
              /\ python.profile = go.profile
              /\ python.connections = go.connections
         /\ Complete(file) => go # Rejected
================================================================================
