----------------------------- MODULE ConnectionModel -----------------------------
(***************************************************************************)
(* ConnectionSet of src/agent/python/ocs_agent/model.py: the named         *)
(* point-to-point connections of the switch, the operations that edit them *)
(* and their conversions to device entries and to the legacy permutation.  *)
(* The Go Core holds the same type (agent/go/internal/model/model.go).     *)
(*                                                                         *)
(* A request edits a draft of the committed set, one operation at a time   *)
(* (apply_connection_operations); every operation builds a new             *)
(* ConnectionSet, whose constructor rejects what is not a set of           *)
(* point-to-point connections.  A rejected operation abandons the draft.   *)
(***************************************************************************)
EXTENDS Naturals, FiniteSets

CONSTANTS
    PortCount,  \* size of the port inventory; port-i is the number i
    Names,      \* connection names a client may choose
    Initial,    \* what the YAML file may configure
    Targets,    \* the sets of connections a request may carry as a whole
    Rejected    \* what an operation that raises returns

Ports == 1..PortCount

\* conn-<near>-<far>, the name from_permutation gives a connection.
PermutationName(near, far) == <<near, far>>

AllNames == Names \cup {PermutationName(near, far) : near \in Ports, far \in Ports}

Connections == [name : AllNames, near : Ports, far : Ports]

ASSUME PortCountAssumption == PortCount \in Nat

\* The lists of slots a client may send: whole, with a slot missing, or counted from 0.
Mappings ==
    [Ports -> Ports] \cup [1..(PortCount - 1) -> Ports] \cup [Ports -> 0..(PortCount - 1)]

VARIABLES
    connections,    \* the committed set
    draft           \* the target a request is building

vars == <<connections, draft>>

Ends(c) == {c.near, c.far}

\* bug: two connections may end in the same far port
WellFormedNear(S) ==
    /\ \A c \in S : c.near # c.far
    /\ \A c, d \in S : c # d => c.name # d.name /\ c.near \notin Ends(d)

\* What the constructor accepts: no duplicate name, no self connection, and
\* no port used twice (ConflictError).
WellFormed(S) ==
    /\ \A c \in S : c.near # c.far
    /\ \A c, d \in S : c # d => c.name # d.name /\ Ends(c) \cap Ends(d) = {}

\* The YAML file is read through the constructor too.
ASSUME InitialAssumption == \A S \in Initial : S \subseteq Connections /\ WellFormed(S)

ASSUME TargetsAssumption == Targets \subseteq SUBSET Connections

ConnectionSet(S) == IF WellFormed(S) THEN S ELSE Rejected

Replace(S, c) == ConnectionSet({d \in S : d.name # c.name} \cup {c})

Delete(S, name) ==
    IF \E d \in S : d.name = name
    THEN ConnectionSet({d \in S : d.name # name})
    ELSE Rejected

DirectedPairs(S) ==
    {<<c.near, c.far>> : c \in S} \cup {<<c.far, c.near>> : c \in S}

\* Debug Mode's device contents: every ordered pair of two different ports.
AllToAll == {pair \in Ports \X Ports : pair[1] # pair[2]}

----------------------------------------------------------------------------------
(* The permutation view *)

Occupied(S) == UNION {Ends(c) : c \in S}

\* bug: only the near port of each connection is mapped
ToPermutationNear(S) ==
    IF Occupied(S) # Ports
    THEN Rejected
    ELSE [port \in Ports |->
            IF \E c \in S : c.near = port
            THEN (CHOOSE c \in S : c.near = port).far
            ELSE port]

\* A sparse set has no permutation.
ToPermutation(S) ==
    IF Occupied(S) # Ports
    THEN Rejected
    ELSE [port \in Ports |->
            CHOOSE peer \in Ports : <<port, peer>> \in DirectedPairs(S)]

\* bug: asymmetric mappings are accepted
FromPermutationAsymmetric(mapping) ==
    IF mapping \notin [Ports -> Ports] \/ \E port \in Ports : mapping[port] = port
    THEN Rejected
    ELSE ConnectionSet(
            {[name |-> PermutationName(port, mapping[port]),
              near |-> port, far |-> mapping[port]] :
                port \in {p \in Ports : p < mapping[p]}})

\* bug: the ports of the mapping are counted from 0
FromPermutationZeroBased(mapping) ==
    IF \/ mapping \notin [Ports -> Ports]
       \/ {mapping[port] : port \in Ports} # Ports
       \/ \E port \in Ports : mapping[port] = port
       \/ \E port \in Ports : mapping[mapping[port]] # port
    THEN Rejected
    ELSE ConnectionSet(
            {[name |-> PermutationName(port, mapping[port]),
              near |-> port - 1, far |-> mapping[port] - 1] :
                port \in {p \in Ports : p < mapping[p]}})

\* A slot for every port, and in each of them a port.  The visited set of the code
\* skips the higher port of each pair.
FromPermutation(mapping) ==
    IF \/ mapping \notin [Ports -> Ports]
       \/ {mapping[port] : port \in Ports} # Ports
       \/ \E port \in Ports : mapping[port] = port
       \/ \E port \in Ports : mapping[mapping[port]] # port
    THEN Rejected
    ELSE ConnectionSet(
            {[name |-> PermutationName(port, mapping[port]),
              near |-> port, far |-> mapping[port]] :
                port \in {p \in Ports : p < mapping[p]}})

----------------------------------------------------------------------------------
(* Requests *)

Init ==
    /\ connections \in Initial
    /\ draft = connections

\* An operation that raises ends the request: nothing was committed.
Edit(result) ==
    /\ draft' = IF result = Rejected THEN connections ELSE result
    /\ UNCHANGED connections

ReplaceConnection(c) == Edit(Replace(draft, c))

DeleteConnection(name) == Edit(Delete(draft, name))

ApplyPermutation(mapping) == Edit(FromPermutation(mapping))

\* The draft does not matter: the request names every connection.
ReplaceAll(S) == Edit(ConnectionSet(S))

\* The device accepted the target, or refused it and was rolled back.
Commit == connections' = draft /\ UNCHANGED draft

Abandon == draft' = connections /\ UNCHANGED connections

Next ==
    \/ \E name \in Names, near \in Ports, far \in Ports :
            ReplaceConnection([name |-> name, near |-> near, far |-> far])
    \/ \E name \in AllNames : DeleteConnection(name)
    \/ \E mapping \in Mappings : ApplyPermutation(mapping)
    \/ \E S \in Targets : ReplaceAll(S)
    \/ Commit
    \/ Abandon

Spec == Init /\ [][Next]_vars

----------------------------------------------------------------------------------
(* Properties *)

\* Type invariant.
TypeOK == connections \in SUBSET Connections /\ draft \in SUBSET Connections

\* S is a matching: symmetric, without loops, one peer per port.
IsMatching(pairs) ==
    /\ \A p \in pairs : p[1] # p[2] /\ <<p[2], p[1]>> \in pairs
    /\ \A p, q \in pairs : p[1] = q[1] => p = q

\* Whatever operations a request applies in whatever order, a port never gets
\* two peers and no light path is one-way: what is committed to the device is a
\* matching (ConnectionSet.__init__, replace, delete, from_permutation).
PairsFormMatching ==
    IsMatching(DirectedPairs(connections)) /\ IsMatching(DirectedPairs(draft))

\* Reading the pairing and posting it back programs the same device entries
\* (to_permutation after from_permutation), although connections are renamed.
PermutationRoundTrip ==
    Occupied(connections) = Ports =>
        LET reposted == FromPermutation(ToPermutation(connections))
        IN  reposted # Rejected /\ DirectedPairs(reposted) = DirectedPairs(connections)

\* The lists of slots that from_permutation accepts, and those that pair every port
\* with another one.
Accepted == {mapping \in Mappings : FromPermutation(mapping) # Rejected}

Pairings ==
    {mapping \in [Ports -> Ports] : IsMatching({<<port, mapping[port]>> : port \in Ports})}

\* A list of slots is accepted exactly when it has one for every port and is a
\* fixed-point-free involution of them, and then the constructor finds no conflict in
\* it and it asks for exactly its own pairs; so it leaves the device as it is exactly
\* when it is the mapping a client reads (from_permutation, to_permutation).
PermutationsAreExact ==
    /\ Accepted = Pairings
    /\ \A mapping \in Pairings :
        LET pairs == {<<port, mapping[port]>> : port \in Ports}
        IN  /\ DirectedPairs(FromPermutation(mapping)) = pairs
            /\ pairs = DirectedPairs(connections) <=> ToPermutation(connections) = mapping
==================================================================================
