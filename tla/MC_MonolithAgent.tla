---------------------------- MODULE MC_MonolithAgent ----------------------------
\* Instances of MonolithAgent: connection sets of four ports built by the
\* operations of ConnectionModel.
EXTENDS MonolithAgent

Model == INSTANCE ConnectionModel WITH
    PortCount <- 4, Names <- {"a", "b"}, Initial <- {}, Targets <- {}, Rejected <- Rejected,
    connections <- connections, draft <- connections

Link(name, near, far) == [name |-> name, near |-> near, far |-> far]

\* One link; the same light path under another name; two links.
OneLink == {Link("a", 1, 2)}
Renamed == {Link("b", 1, 2)}
Both == {Link("a", 1, 2), Link("b", 3, 4)}

MCConfigs == {OneLink, Renamed, Both}

\* Edits: add the second link (a conflict for Renamed, whose name it takes),
\* remove it again, replace everything.
MCRequests == {"add", "remove", "rename"}

MCTarget == [r \in MCRequests |-> [config \in MCConfigs |->
    LET target == CASE r = "add" -> Model!Replace(config, Link("b", 3, 4))
                    [] r = "remove" -> Model!Delete(config, "b")
                    [] r = "rename" -> Renamed
    IN  IF target \in MCConfigs THEN target ELSE Rejected]]

MCPairsOf == [config \in MCConfigs |-> Model!DirectedPairs(config)]

MCDebugPairs == Model!AllToAll

\* A table no configuration asks for: an entry is missing.
Torn == {<<1, 2>>}

MCTables == {MCPairsOf[config] : config \in MCConfigs} \cup {MCDebugPairs, Torn}

OneForeign == {Torn}
TwoForeign == {Torn, MCPairsOf[OneLink]}
NoForeign == {}
=================================================================================
