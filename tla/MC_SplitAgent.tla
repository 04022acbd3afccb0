------------------------------ MODULE MC_SplitAgent ------------------------------
\* Instances of SplitAgent: two connection sets of four ports.
EXTENDS SplitAgent

OneLink == {<<1, 2>>, <<2, 1>>}
Both == OneLink \cup {<<3, 4>>, <<4, 3>>}
Torn == {<<1, 2>>}

MCConfigs == {"one", "both"}
MCRequests == {"add", "remove"}

\* Adding a link that is there and removing one that is not.
MCTarget == [r \in MCRequests |-> [config \in MCConfigs |->
    CASE r = "add" -> "both"
      [] r = "remove" -> IF config = "both" THEN "one" ELSE Rejected]]

MCPairsOf == [config \in MCConfigs |-> IF config = "one" THEN OneLink ELSE Both]
MCDebugPairs == {pair \in (1..4) \X (1..4) : pair[1] # pair[2]}

SetTables == {OneLink, Both, Torn}
ModeTables == SetTables \cup {MCDebugPairs}

OneForeign == {Torn}
TwoForeign == {Torn, OneLink}
NoForeign == {}
==================================================================================
