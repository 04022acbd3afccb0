------------------------- MODULE ConfigurationProofs -------------------------
(***************************************************************************)
(* What the two loaders make of any file, and the port map of any backend. *)
(***************************************************************************)
EXTENDS Configuration, TLAPS

\* The deployment profile is a setting without a default, and no other setting implies it.
LEMMA ProfileSetting ==
    /\ "deployment_profile" \in Settings
    /\ "deployment_profile" \notin {"mode", "consistency_mode"} \cup HttpSettings \cup SplitSettings
    /\ Legal["deployment_profile"] = {Monolith, Split}
    /\ Default["deployment_profile"] \notin {Monolith, Split}
<1>1. "deployment_profile" \in Settings
  BY DEF Settings, Legal
<1>2. "deployment_profile" \notin {"mode", "consistency_mode"} \cup HttpSettings \cup SplitSettings
  BY DEF HttpSettings, SplitSettings
<1>3. Legal["deployment_profile"] = {Monolith, Split}
  BY DEF Legal
<1>4. Default["deployment_profile"] = ""
  BY DEF Default
<1>5. "" \notin {Monolith, Split}
  BY DEF Monolith, Split
<1> QED
  BY <1>1, <1>2, <1>3, <1>4, <1>5

\* A file Python accepts says which profile it is for: there is no default.
LEMMA ProfileWritten ==
    ASSUME NEW f, LoadAgentConfig(f) # Rejected
    PROVE  f.json.deployment_profile \in {Monolith, Split}
<1> DEFINE value == [s \in Settings |-> PythonValue(f, s)]
           others == IF value.deployment_profile = Split THEN HttpSettings ELSE SplitSettings
<1>1. \A s \in Settings \ ({"mode", "consistency_mode"} \cup others) : value[s] \in Legal[s]
  BY DEF LoadAgentConfig
<1>2. "deployment_profile" \notin {"mode", "consistency_mode"} \cup others
  BY ProfileSetting
<1> HIDE DEF others
<1>3. value["deployment_profile"] \in Legal["deployment_profile"]
  BY <1>1, <1>2, ProfileSetting
<1>4. value["deployment_profile"] = PythonValue(f, "deployment_profile")
  BY ProfileSetting
<1> QED
  BY <1>3, <1>4, ProfileSetting DEF PythonValue

\* So is a file the launcher accepts.
LEMMA ProfileLoaded ==
    ASSUME NEW f, NEW p, LoadFor(p, f) # Rejected
    PROVE  f.json.deployment_profile \in {Monolith, Split}
BY ProfileWritten DEF LoadFor, LoadP4app

\* A port map that _normalize_port_map accepts can be read both ways.
LEMMA PortMapOneToOne ==
    ASSUME NEW items, \A i \in DOMAIN items : items[i] = <<items[i][1], items[i][2]>>,
           NormalizePortMap(items) # Rejected
    PROVE  \A p, q \in DOMAIN NormalizePortMap(items) :
               NormalizePortMap(items)[p] = NormalizePortMap(items)[q] => p = q
<1> DEFINE device == {item[2] : item \in ToSet(items)}
           logical == {item[1] : item \in ToSet(items)}
           m == NormalizePortMap(items)
<1>1. m = [p \in logical |-> CHOOSE d \in device : <<p, d>> \in ToSet(items)]
  BY DEF NormalizePortMap
<1>2. \A p \in logical : \E i \in DOMAIN items : items[i] = <<p, m[p]>>
  BY <1>1 DEF ToSet
<1>3. \A i, j \in DOMAIN items : i # j => items[i][2] # items[j][2]
  BY DEF NormalizePortMap
<1>4. DOMAIN m = logical
  BY <1>1
<1> HIDE DEF m, logical, device
<1>5. ASSUME NEW p \in logical, NEW q \in logical, m[p] = m[q] PROVE p = q
  <2>1. PICK i \in DOMAIN items : items[i] = <<p, m[p]>>
    BY <1>2
  <2>2. PICK j \in DOMAIN items : items[j] = <<q, m[q]>>
    BY <1>2
  <2>3. i = j
    BY <1>3, <1>5, <2>1, <2>2
  <2> QED
    BY <2>1, <2>2, <2>3
<1> QED
  BY <1>4, <1>5 DEF m

----------------------------------------------------------------------------------
(* The two loaders of one file *)

\* What a parser may make of the flag of a connection.
Flags(file) ==
    \A i \in DOMAIN file.entries :
        LET entry == file.entries[i]
        IN /\ entry.item.bidirectional \in BOOLEAN \cup {Absent}
           /\ entry.config \notin {Absent, Null} =>
                entry.config.bidirectional \in BOOLEAN \cup {Absent}

\* The settings of a configuration, as either loader puts it together.
LEMMA LoadedFields ==
    ASSUME NEW value, NEW consistency, NEW profile, NEW connections
    PROVE  LET config == Loaded(value, consistency, profile, connections)
           IN  /\ config.consistency_mode = consistency
               /\ config.profile = profile
               /\ config.connections = connections
               /\ \A s \in Settings \ {"consistency_mode"} : config[s] = value[s]
<1>1. /\ "consistency_mode" \in Settings
      /\ "profile" \notin Settings /\ "connections" \notin Settings
  BY DEF Settings, Legal
<1> QED
  BY <1>1 DEF Loaded

\* The entry of a connection that both find good is the same for both.
LEMMA EntriesAgree ==
    ASSUME NEW entry, entry.config # Null,
           entry.item.bidirectional \in BOOLEAN \cup {Absent},
           entry.config \notin {Absent, Null} => entry.config.bidirectional \in BOOLEAN \cup {Absent},
           PythonEntry(entry).name # ""
    PROVE  /\ GoEntry(entry).bidirectional /\ PythonEntry(entry).bidirectional
                => GoEntry(entry) = PythonEntry(entry)
           /\ (entry.config # Absent => entry.item.bidirectional = Absent)
                => GoEntry(entry) = PythonEntry(entry)
<1>1. /\ GoEntry(entry).name = PythonEntry(entry).name
      /\ GoEntry(entry).near = PythonEntry(entry).near
      /\ GoEntry(entry).far = PythonEntry(entry).far
  <2>1. CASE entry.config = Absent
    BY <2>1 DEF GoEntry, PythonEntry
  <2>2. CASE entry.config # Absent
    BY <2>2 DEF GoEntry, PythonEntry, FirstWritten
  <2> QED
    BY <2>1, <2>2
<1>2. (entry.config # Absent => entry.item.bidirectional = Absent)
        => GoEntry(entry).bidirectional = PythonEntry(entry).bidirectional
  BY DEF GoEntry, PythonEntry
<1>3. GoEntry(entry).bidirectional \in BOOLEAN /\ PythonEntry(entry).bidirectional \in BOOLEAN
  BY DEF GoEntry, PythonEntry
<1>4. GoEntry(entry).bidirectional = PythonEntry(entry).bidirectional
        => GoEntry(entry) = PythonEntry(entry)
  BY <1>1 DEF GoEntry, PythonEntry
<1> QED
  BY <1>2, <1>3, <1>4

\* So are the connections, where both accept them or the file writes them down in full.
LEMMA ConnectionsAgree ==
    ASSUME NEW file, Flags(file), PythonConnections(file.entries) # Rejected,
           \/ GoConnections(file.entries) # Rejected
           \/ \A i \in DOMAIN file.entries :
                file.entries[i].config # Absent => file.entries[i].item.bidirectional = Absent
    PROVE  GoConnections(file.entries) = PythonConnections(file.entries)
<1> DEFINE python == [i \in DOMAIN file.entries |-> PythonEntry(file.entries[i])]
           go == [i \in DOMAIN file.entries |-> GoEntry(file.entries[i])]
<1>1. \A i \in DOMAIN file.entries : file.entries[i].config # Null
  BY DEF PythonConnections
<1>2. ConnectionSet(python) # Rejected /\ PythonConnections(file.entries) = ConnectionSet(python)
  BY DEF PythonConnections
<1>3. \A i \in DOMAIN file.entries : python[i].name # "" /\ python[i].bidirectional
  BY <1>2 DEF ConnectionSet
<1>4. GoConnections(file.entries) = ConnectionSet(go)
  BY DEF GoConnections
<1>5. ConnectionSet(go) # Rejected => \A i \in DOMAIN file.entries : go[i].bidirectional
  BY DEF ConnectionSet
<1>6. ASSUME NEW i \in DOMAIN file.entries PROVE go[i] = python[i]
  <2>1. /\ file.entries[i].config # Null
        /\ file.entries[i].item.bidirectional \in BOOLEAN \cup {Absent}
        /\ file.entries[i].config \notin {Absent, Null} =>
             file.entries[i].config.bidirectional \in BOOLEAN \cup {Absent}
    BY <1>1 DEF Flags
  <2>2. PythonEntry(file.entries[i]).name # "" /\ PythonEntry(file.entries[i]).bidirectional
    BY <1>3
  <2>3. \/ GoEntry(file.entries[i]).bidirectional
        \/ file.entries[i].config # Absent => file.entries[i].item.bidirectional = Absent
    BY <1>4, <1>5
  <2>4. GoEntry(file.entries[i]) = PythonEntry(file.entries[i])
    BY <2>1, <2>2, <2>3, EntriesAgree
  <2> QED
    BY <2>4
<1>7. go = python
  BY <1>6
<1> QED
  BY <1>2, <1>4, <1>7

\* What Python asks of a file of the split profile that it accepts.
LEMMA PythonAccepts ==
    ASSUME NEW file, LoadAgentConfig(file) # Rejected,
           LoadAgentConfig(file).deployment_profile = Split
    PROVE  LET python == LoadAgentConfig(file)
               consistency == IF file.env = Absent THEN PythonValue(file, "consistency_mode")
                              ELSE file.env
           IN  /\ file.extra = "none"
               /\ file.json.http_port = Absent
               /\ PythonValue(file, "deployment_profile") = Split
               /\ \A s \in GoSettings \ {"mode", "consistency_mode"} :
                    PythonValue(file, s) \in Legal[s]
               /\ consistency \in ConsistencyModes
               /\ file.flaws \cap PythonSees = {}
               /\ PythonConnections(file.entries) # Rejected
               /\ python.consistency_mode = consistency
               /\ \A s \in GoSettings \ {"mode", "consistency_mode"} :
                    python[s] = PythonValue(file, s)
               /\ python.profile = file.capability
               /\ file.profile # Absent => file.profile = file.capability
               /\ python.connections = PythonConnections(file.entries)
<1> DEFINE value == [s \in Settings |-> PythonValue(file, s)]
           consistency == IF file.env = Absent THEN value.consistency_mode ELSE file.env
           others == IF value.deployment_profile = Split THEN HttpSettings ELSE SplitSettings
           model == LoadModel(file)
           python == LoadAgentConfig(file)
<1>1. /\ file.extra = "none"
      /\ \A s \in others : file.json[s] = Absent
      /\ \A s \in Settings \ ({"mode", "consistency_mode"} \cup others) : value[s] \in Legal[s]
      /\ consistency \in ConsistencyModes
      /\ file.flaws \cap PythonSees = {}
      /\ model.connections # Rejected
      /\ model.profile = file.capability
      /\ python = Loaded(value, consistency, model.profile, model.connections)
  BY DEF LoadAgentConfig
<1>2. /\ "consistency_mode" \in Settings /\ "deployment_profile" \in Settings
      /\ GoSettings \subseteq Settings \ HttpSettings
      /\ HttpSettings = {"http_port"}
  BY DEF Settings, Legal, GoSettings, HttpSettings
<1> HIDE DEF others, consistency, model, python
<1>3. /\ python.consistency_mode = consistency
      /\ python.profile = model.profile
      /\ python.connections = model.connections
      /\ \A s \in Settings \ {"consistency_mode"} : python[s] = value[s]
  BY <1>1, LoadedFields
<1>4. python.deployment_profile = Split
  BY DEF python
<1>5. value.deployment_profile = Split /\ PythonValue(file, "deployment_profile") = Split
  BY <1>2, <1>3, <1>4
<1>6. others = {"http_port"}
  BY <1>2, <1>5 DEF others
<1>7. consistency = IF file.env = Absent THEN PythonValue(file, "consistency_mode") ELSE file.env
  BY <1>2 DEF consistency
<1>8. /\ model.connections = PythonConnections(file.entries)
      /\ file.profile # Absent => model.profile = file.profile
  BY DEF model, LoadModel
<1>9. \A s \in GoSettings \ {"mode", "consistency_mode"} :
        PythonValue(file, s) \in Legal[s] /\ python[s] = PythonValue(file, s)
  BY <1>1, <1>2, <1>3, <1>6
<1> QED
  BY <1>1, <1>3, <1>5, <1>6, <1>7, <1>8, <1>9 DEF python

\* The setting the Go Agent has a default for.
LEMMA PolicySetting == Legal["startup_policy"] = StartupPolicies
BY DEF Legal

\* What the settings of one have to do with those of the other.
LEMMA ValuesAgree ==
    ASSUME NEW file, NEW s \in GoSettings \ {"mode", "consistency_mode"},
           PythonValue(file, s) \in Legal[s]
    PROVE  /\ GoValue(file, s) # Absent => GoValue(file, s) = PythonValue(file, s)
           /\ s \in GoDefaults => GoValue(file, s) = PythonValue(file, s)
           /\ file.json[s] # Absent => GoValue(file, s) = PythonValue(file, s)
<1>1. CASE s \in GoDefaults
  <2>1. s = "startup_policy"
    BY <1>1 DEF GoDefaults
  <2>2. "" \notin StartupPolicies
    BY DEF StartupPolicies
  <2>3. GoValue(file, s) = PythonValue(file, s)
    BY <1>1, <2>1, <2>2, PolicySetting DEF GoValue, PythonValue
  <2> QED
    BY <2>3
<1>2. CASE s \notin GoDefaults
  BY <1>2 DEF GoValue, PythonValue
<1> QED
  BY <1>1, <1>2

\* For every file at all: two processes of a split deployment that come up work with
\* one configuration, and a complete file Python accepts the Go Agent accepts too
\* (config.py load_agent_config, config.go Load).  The hypotheses say what a parser
\* makes of a flag, and that Absent is no policy and Rejected no configuration.
THEOREM EveryFileAgrees ==
    ASSUME NEW file, Flags(file), Absent \notin StartupPolicies,
           \A value, consistency, profile, connections :
               Loaded(value, consistency, profile, connections) # Rejected
    PROVE  Agree(file)
<1> DEFINE value == [s \in Settings |-> GoValue(file, s)]
           override == file.env \notin {Absent, ""}
           connections == GoConnections(file.entries)
           consistency == IF override THEN file.env ELSE value.consistency_mode
           accepted == /\ file.extra = "none"
                       /\ file.json.http_port = Absent
                       /\ \A s \in GoSettings : value[s] # Absent /\ value[s] \in Legal[s]
                       /\ value.deployment_profile = Split
                       /\ override => file.env \in ConsistencyModes
                       /\ file.flaws \cap GoSees = {}
                       /\ connections # Rejected
                       /\ file.profile = file.capability
           python == LoadAgentConfig(file)
           go == Load(file)
<1> SUFFICES ASSUME python # Rejected, python.deployment_profile = Split
             PROVE  /\ go # Rejected =>
                         /\ \A s \in SharedSettings : python[s] = go[s]
                         /\ python.profile = go.profile
                         /\ python.connections = go.connections
                    /\ Complete(file) => go # Rejected
  BY DEF Agree
<1>1. go = IF accepted THEN Loaded(value, consistency, file.profile, connections) ELSE Rejected
  BY DEF Load
<1>2. /\ GoSettings \subseteq Settings /\ "" \notin ConsistencyModes
      /\ {"mode", "consistency_mode", "deployment_profile"} \subseteq GoSettings
      /\ SharedSettings = GoSettings \ {"mode"}
      /\ GoDefaults = {"startup_policy"}
      /\ Legal["consistency_mode"] = ConsistencyModes
  BY DEF GoSettings, Settings, Legal, ConsistencyModes, SharedSettings, GoDefaults
<1>3. \A s \in GoSettings : value[s] = GoValue(file, s)
  BY <1>2
<1>4. /\ go # Rejected => accepted
      /\ accepted => go # Rejected /\ go = Loaded(value, consistency, file.profile, connections)
  BY <1>1
<1> HIDE DEF go, python
<1>5. go # Rejected =>
        /\ \A s \in SharedSettings : python[s] = go[s]
        /\ python.profile = go.profile
        /\ python.connections = go.connections
  <2> SUFFICES ASSUME go # Rejected
               PROVE  /\ \A s \in SharedSettings : python[s] = go[s]
                      /\ python.profile = go.profile
                      /\ python.connections = go.connections
    OBVIOUS
  <2>1. accepted
    BY <1>4
  <2>7. go = Loaded(value, consistency, file.profile, connections)
    BY <1>4
  <2> HIDE DEF value, consistency, connections
  <2>2. /\ go.consistency_mode = consistency
        /\ go.profile = file.profile
        /\ go.connections = connections
        /\ \A s \in Settings \ {"consistency_mode"} : go[s] = value[s]
    BY <2>7, LoadedFields
  <2>3. ASSUME NEW s \in GoSettings \ {"mode", "consistency_mode"} PROVE python[s] = go[s]
    <3>1. PythonValue(file, s) \in Legal[s] /\ python[s] = PythonValue(file, s)
      BY PythonAccepts DEF python
    <3>2. GoValue(file, s) # Absent /\ go[s] = GoValue(file, s)
      BY <1>2, <1>3, <2>1, <2>2
    <3> QED
      BY <3>1, <3>2, ValuesAgree
  <2>4. python.consistency_mode = go.consistency_mode
    <3>1. /\ python.consistency_mode = IF file.env = Absent
                  THEN PythonValue(file, "consistency_mode") ELSE file.env
          /\ python.consistency_mode \in ConsistencyModes
      BY PythonAccepts DEF python
    <3>2. value.consistency_mode = GoValue(file, "consistency_mode") /\ value.consistency_mode # Absent
      BY <1>2, <1>3, <2>1
    <3>3. GoValue(file, "consistency_mode") = PythonValue(file, "consistency_mode")
      BY <1>2, <3>2 DEF GoValue, PythonValue
    <3> QED
      BY <1>2, <2>2, <3>1, <3>2, <3>3 DEF consistency
  <2>5. python.profile = go.profile
    BY <2>1, <2>2, PythonAccepts DEF python
  <2>6. python.connections = go.connections
    BY <2>1, <2>2, PythonAccepts, ConnectionsAgree DEF python, connections
  <2> QED
    BY <1>2, <2>3, <2>4, <2>5, <2>6
<1>6. Complete(file) => accepted
  <2> SUFFICES ASSUME Complete(file) PROVE accepted
    OBVIOUS
  <2>1. file.extra = "none" /\ file.json.http_port = Absent
    BY PythonAccepts DEF python
  <2>2. ASSUME NEW s \in GoSettings PROVE value[s] # Absent /\ value[s] \in Legal[s]
    <3>1. CASE s \in {"mode", "consistency_mode"}
      <4>1. file.json[s] # Absent /\ file.json[s] \in Legal[s] /\ s \notin GoDefaults
        BY <1>2, <3>1 DEF Complete
      <4>2. GoValue(file, s) = file.json[s]
        BY <4>1 DEF GoValue
      <4> HIDE DEF value
      <4> QED
        BY <1>3, <4>1, <4>2
    <3>2. CASE s \notin {"mode", "consistency_mode"}
      <4>1. PythonValue(file, s) \in Legal[s]
        BY <3>2, PythonAccepts DEF python
      <4>2. s \in GoDefaults \/ file.json[s] # Absent
        BY DEF Complete
      <4>3. GoValue(file, s) = PythonValue(file, s)
        BY <3>2, <4>1, <4>2, ValuesAgree
      <4>4. PythonValue(file, s) # Absent
        BY <1>2, <4>1, <4>2, PolicySetting DEF PythonValue
      <4> QED
        BY <1>3, <4>1, <4>3, <4>4
    <3> QED
      BY <3>1, <3>2
  <2>3. value.deployment_profile = Split
    <3>1. PythonValue(file, "deployment_profile") = Split
      BY PythonAccepts DEF python
    <3>2. file.json["deployment_profile"] # Absent
      BY <1>2 DEF Complete
    <3>3. GoValue(file, "deployment_profile") = file.json["deployment_profile"]
      BY <1>2 DEF GoValue
    <3> QED
      BY <1>2, <1>3, <3>1, <3>2, <3>3 DEF PythonValue
  <2>4. override => file.env \in ConsistencyModes
    BY PythonAccepts DEF python
  <2>5. file.flaws \cap GoSees = {}
    BY PythonAccepts DEF python, Complete
  <2>6. connections # Rejected
    BY PythonAccepts, ConnectionsAgree DEF python, Complete
  <2>7. file.profile = file.capability
    BY PythonAccepts DEF python, Complete
  <2> QED
    BY <2>1, <2>2, <2>3, <2>4, <2>5, <2>6, <2>7
<1> QED
  BY <1>4, <1>5, <1>6

==============================================================================
