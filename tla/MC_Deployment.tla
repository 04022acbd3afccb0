----------------------------- MODULE MC_Deployment -----------------------------
\* Instance of Deployment: two launchers, a good file of each kind and the files
\* that differ from one in a setting, in the entries of the model or in the ports.
EXTENDS Deployment

MCPorts == 1..4

Entry(name, bidirectional, near, far) ==
    [item |-> [name |-> name, bidirectional |-> bidirectional, near |-> near, far |-> far],
     config |-> Absent]

Nested(name, bidirectional, config) ==
    [item |-> [name |-> name, bidirectional |-> bidirectional, near |-> Absent, far |-> Absent],
     config |-> config]

Fields(name, bidirectional, near, far) ==
    [name |-> name, bidirectional |-> bidirectional, near |-> near, far |-> far]

Written ==
    [deployment_profile |-> Split, mode |-> "l3", model_file |-> "model.yaml",
     capability_profile_file |-> "capabilities.yaml", consistency_mode |-> "CACHED_SYNC",
     startup_policy |-> "REAPPLY_DESIRED", backend |-> "bfrt", lease_seconds |-> 20,
     reconcile_interval_seconds |-> 20, http_port |-> Absent, grpc_host |-> "0.0.0.0",
     grpc_port |-> 9339, target |-> "unix:///run/worker.sock", timeout_seconds |-> 5,
     binary |-> "/opt/ocs-go-agent"]

SplitFile ==
    [json |-> Written, extra |-> "none", env |-> Absent, profile |-> "p4app-v1",
     capability |-> "p4app-v1", entries |-> <<Entry("a", TRUE, 1, 2), Entry("b", Absent, 3, 4)>>,
     flaws |-> {}, ports |-> <<<<1, 44>>, <<2, 45>>, <<3, 46>>, <<4, 47>>>>]

P4appFile == [SplitFile EXCEPT !.json.backend = "p4app"]

MonolithFile ==
    [SplitFile EXCEPT !.json = [s \in Settings |->
        CASE s = "deployment_profile" -> Monolith
          [] s = "http_port" -> 5001
          [] s \in SplitSettings -> Absent
          [] OTHER -> Written[s]]]

P4appMonolith == [MonolithFile EXCEPT !.json.backend = "p4app", !.json.http_port = Absent]

Odd(s) == IF s \in {"http_port", "grpc_port", "lease_seconds", "reconcile_interval_seconds",
                    "timeout_seconds"} THEN 0 ELSE ""

\* One setting left out or of no legal form, or another legal mode.
SettingFiles(base, settings) ==
    UNION {{[base EXCEPT !.json[s] = Absent], [base EXCEPT !.json[s] = Odd(s)]} : s \in settings}

Environments == {Absent, "", "STRICT_DEVICE", "FAST"}

EnvFiles(base) ==
    {[base EXCEPT !.env = e, !.json.consistency_mode = m] :
        e \in Environments, m \in {Absent, "CACHED_ACK", ""}}

EntryFiles(base) ==
    {[base EXCEPT !.entries = <<e>>] :
        e \in {Entry(n, b, 1, f) : n \in {"a", "", Absent}, b \in {TRUE, FALSE, Absent}, f \in {1, 2, Absent}}
              \cup {Nested(n, b, Fields(m, d, 1, 2)) :
                      n \in {"a", "", Absent}, m \in {"a", "b", Absent},
                      b \in {FALSE, Absent}, d \in {TRUE, FALSE, Absent}}
              \cup {[Entry("a", TRUE, 1, 2) EXCEPT !.config = Null]}}
    \cup {[base EXCEPT !.entries = <<Entry("a", TRUE, 1, 2), e>>] :
            e \in {Entry("a", TRUE, 3, 4), Entry("b", TRUE, 2, 3)}}

FlawFiles(base) ==
    {[base EXCEPT !.flaws = {x}] : x \in PythonSees \cup GoSees}
    \cup {[base EXCEPT !.extra = x] : x \in {"deprecated", "unknown"}}
    \cup {[base EXCEPT !.profile = p] : p \in {Absent, "tofino-6port-v1"}}

PortFiles(base) ==
    {[base EXCEPT !.ports = m] :
        m \in {<<>>, <<<<1, 44>>, <<2, 44>>>>, <<<<1, 44>>, <<1, 45>>>>, <<<<1, 44>>, <<3, 45>>>>}}

MCFiles ==
    {SplitFile, P4appFile, MonolithFile, P4appMonolith,
     [MonolithFile EXCEPT !.json.http_port = Absent]}
    \cup {[P4appFile EXCEPT !.flaws = {"debugger flag"}]}
    \cup SettingFiles(SplitFile, Settings) \cup SettingFiles(P4appFile, {"mode", "backend"})
    \cup EnvFiles(SplitFile)
    \cup EntryFiles(SplitFile) \cup FlawFiles(SplitFile) \cup PortFiles(SplitFile)
================================================================================
