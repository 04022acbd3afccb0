-------------------------- MODULE MC_DeviceTransaction --------------------------
\* Instances of DeviceTransaction: four logical ports.
EXTENDS DeviceTransaction

FourPorts == 1..4

\* The directed pairs of a set of links.
Both(links) == links \cup {<<l[2], l[1]>> : l \in links}

\* A sparse configuration, a full matching that keeps its link and adds one,
\* and one that moves port 1 elsewhere.
MatchingConfigurations ==
    {Both({<<1, 2>>}), Both({<<1, 2>>, <<3, 4>>}), Both({<<1, 3>>})}

\* An entry that no configuration holds: port 1 leaks to port 4.
Foreigners == {<<1, 4>>}

NoForeigners == {}
=================================================================================
