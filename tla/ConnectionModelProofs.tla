------------------------- MODULE ConnectionModelProofs -------------------------
(***************************************************************************)
(* What ConnectionModel checks for four ports, for every number of ports,  *)
(* every set of names and every initial configuration.                     *)
(***************************************************************************)
EXTENDS ConnectionModel, Integers, TLAPS

\* The inductive invariant: both sets passed the constructor.  The properties
\* speak of device entries, which alone do not say which names are taken.
Constructed == WellFormed(connections) /\ WellFormed(draft)

\* Two entries of a well-formed set that start at the same port are the same.
LEMMA WellFormedIsMatching ==
    ASSUME NEW S, WellFormed(S)
    PROVE  IsMatching(DirectedPairs(S))
<1>1. ASSUME NEW p \in DirectedPairs(S)
      PROVE  p[1] # p[2] /\ <<p[2], p[1]>> \in DirectedPairs(S)
  <2>1. PICK c \in S : p = <<c.near, c.far>> \/ p = <<c.far, c.near>>
    BY <1>1 DEF DirectedPairs
  <2>2. c.near # c.far
    BY DEF WellFormed
  <2>3. <<c.near, c.far>> \in DirectedPairs(S) /\ <<c.far, c.near>> \in DirectedPairs(S)
    BY DEF DirectedPairs
  <2> QED
    BY <2>1, <2>2, <2>3
<1>2. ASSUME NEW p \in DirectedPairs(S), NEW q \in DirectedPairs(S), p[1] = q[1]
      PROVE  p = q
  <2>1. PICK c \in S : p = <<c.near, c.far>> \/ p = <<c.far, c.near>>
    BY DEF DirectedPairs
  <2>2. PICK d \in S : q = <<d.near, d.far>> \/ q = <<d.far, d.near>>
    BY DEF DirectedPairs
  <2>3. p[1] \in Ends(c) /\ q[1] \in Ends(d)
    BY <2>1, <2>2 DEF Ends
  <2>4. c = d
    BY <1>2, <2>3 DEF WellFormed
  <2>5. c.near # c.far
    BY DEF WellFormed
  <2> QED
    BY <1>2, <2>1, <2>2, <2>4, <2>5
<1> QED
  BY <1>1, <1>2 DEF IsMatching

\* The constructor lets nothing else through, whatever it is given.
LEMMA ConstructorChecks ==
    ASSUME NEW S, ConnectionSet(S) # Rejected
    PROVE  WellFormed(ConnectionSet(S))
BY DEF ConnectionSet

\* Every operation of a batch ends in the constructor.
LEMMA EditPreserves ==
    ASSUME Constructed, NEW result, Edit(result),
           result # Rejected => WellFormed(result)
    PROVE  Constructed'
<1>1. WellFormed(connections)' BY DEF Constructed, Edit, WellFormed
<1>2. CASE result = Rejected
  <2>1. draft' = connections BY <1>2 DEF Edit
  <2> QED BY <1>1, <2>1 DEF Constructed, WellFormed
<1>3. CASE result # Rejected
  <2>1. draft' = result BY <1>3 DEF Edit
  <2> QED BY <1>1, <1>3, <2>1 DEF Constructed, WellFormed
<1> QED
  BY <1>2, <1>3

\* Whatever operations a request applies in whatever order, both sets are ones
\* the constructor accepted.
THEOREM BothConstructed == Spec => []Constructed
<1>1. Init => Constructed
  BY InitialAssumption DEF Init, Constructed
<1>2. Constructed /\ [Next]_vars => Constructed'
  <2> SUFFICES ASSUME Constructed, [Next]_vars PROVE Constructed'
    OBVIOUS
  <2>1. ASSUME NEW c, ReplaceConnection(c) PROVE Constructed'
    <3>1. Replace(draft, c) # Rejected => WellFormed(Replace(draft, c))
      BY ConstructorChecks DEF Replace
    <3> QED
      BY <2>1, <3>1, EditPreserves DEF ReplaceConnection
  <2>2. ASSUME NEW name, DeleteConnection(name) PROVE Constructed'
    <3>1. Delete(draft, name) # Rejected => WellFormed(Delete(draft, name))
      BY ConstructorChecks DEF Delete
    <3> QED
      BY <2>2, <3>1, EditPreserves DEF DeleteConnection
  <2>3. ASSUME NEW mapping, ApplyPermutation(mapping) PROVE Constructed'
    <3>1. FromPermutation(mapping) # Rejected => WellFormed(FromPermutation(mapping))
      BY ConstructorChecks DEF FromPermutation
    <3> QED
      BY <2>3, <3>1, EditPreserves DEF ApplyPermutation
  <2>4. ASSUME NEW S, ReplaceAll(S) PROVE Constructed'
    BY <2>4, ConstructorChecks, EditPreserves DEF ReplaceAll
  <2>5. CASE Commit
    BY <2>5 DEF Commit, Constructed, WellFormed
  <2>6. CASE Abandon
    BY <2>6 DEF Abandon, Constructed, WellFormed
  <2>7. CASE UNCHANGED vars
    BY <2>7 DEF vars, Constructed, WellFormed
  <2> QED
    BY <2>1, <2>2, <2>3, <2>4, <2>5, <2>6, <2>7 DEF Next
<1> QED
  BY <1>1, <1>2, PTL DEF Spec

\* What is committed to the device is a matching, for every number of ports: no
\* batch of operations gives a port two peers or leaves a one-way light path.
THEOREM AlwaysMatching == Spec => []PairsFormMatching
<1>1. Constructed => PairsFormMatching
  BY WellFormedIsMatching DEF Constructed, PairsFormMatching
<1> QED
  BY <1>1, BothConstructed, PTL

----------------------------------------------------------------------------------
\* Every operation stays within the type of connection sets.
LEMMA OperationsTyped ==
    /\ \A S \in SUBSET Connections, c \in Connections :
            Replace(S, c) # Rejected => Replace(S, c) \in SUBSET Connections
    /\ \A S \in SUBSET Connections, name \in AllNames :
            Delete(S, name) # Rejected => Delete(S, name) \in SUBSET Connections
    /\ \A mapping : FromPermutation(mapping) # Rejected =>
            FromPermutation(mapping) \in SUBSET Connections
<1>1. ASSUME NEW S \in SUBSET Connections, NEW c \in Connections,
             Replace(S, c) # Rejected
      PROVE  Replace(S, c) \in SUBSET Connections
  BY <1>1 DEF Replace, ConnectionSet
<1>2. ASSUME NEW S \in SUBSET Connections, NEW name \in AllNames,
             Delete(S, name) # Rejected
      PROVE  Delete(S, name) \in SUBSET Connections
  BY <1>2 DEF Delete, ConnectionSet
<1>3. ASSUME NEW mapping, FromPermutation(mapping) # Rejected
      PROVE  FromPermutation(mapping) \in SUBSET Connections
  <2>1. mapping \in [Ports -> Ports]
    BY <1>3 DEF FromPermutation
  <2>2. \A port \in Ports :
            [name |-> PermutationName(port, mapping[port]),
             near |-> port, far |-> mapping[port]] \in Connections
    BY <2>1 DEF Connections, AllNames
  <2> QED
    BY <1>3, <2>2 DEF FromPermutation, ConnectionSet
<1> QED
  BY <1>1, <1>2, <1>3

\* The committed set and the draft are sets of connections between ports of the
\* inventory.
THEOREM TypeCorrect == Spec => []TypeOK
<1>1. Init => TypeOK
  BY InitialAssumption DEF Init, TypeOK
<1>2. TypeOK /\ [Next]_vars => TypeOK'
  <2> SUFFICES ASSUME TypeOK, [Next]_vars PROVE TypeOK'
    OBVIOUS
  <2>1. ASSUME NEW result, Edit(result),
               result # Rejected => result \in SUBSET Connections
        PROVE  TypeOK'
    BY <2>1 DEF Edit, TypeOK
  <2>2. ASSUME NEW name \in Names, NEW near \in Ports, NEW far \in Ports,
               ReplaceConnection([name |-> name, near |-> near, far |-> far])
        PROVE  TypeOK'
    <3>1. [name |-> name, near |-> near, far |-> far] \in Connections
      BY DEF Connections, AllNames
    <3> QED
      BY <2>1, <2>2, <3>1, OperationsTyped DEF ReplaceConnection, TypeOK
  <2>3. ASSUME NEW name \in AllNames, DeleteConnection(name) PROVE TypeOK'
    BY <2>1, <2>3, OperationsTyped DEF DeleteConnection, TypeOK
  <2>4. ASSUME NEW mapping, ApplyPermutation(mapping)
        PROVE  TypeOK'
    BY <2>1, <2>4, OperationsTyped DEF ApplyPermutation
  <2>5. ASSUME NEW S \in Targets, ReplaceAll(S) PROVE TypeOK'
    BY <2>1, <2>5, TargetsAssumption DEF ReplaceAll, ConnectionSet
  <2>6. CASE Commit
    BY <2>6 DEF Commit, TypeOK
  <2>7. CASE Abandon
    BY <2>7 DEF Abandon, TypeOK
  <2>8. CASE UNCHANGED vars
    BY <2>8 DEF vars, TypeOK
  <2> QED
    BY <2>2, <2>3, <2>4, <2>5, <2>6, <2>7, <2>8 DEF Next
<1> QED
  BY <1>1, <1>2, PTL DEF Spec

----------------------------------------------------------------------------------
(* The permutation view *)

PairsOfMapping(mapping) == {<<port, mapping[port]>> : port \in Ports}

LowerEnds(mapping) ==
    {[name |-> PermutationName(port, mapping[port]),
      near |-> port, far |-> mapping[port]] :
        port \in {p \in Ports : p < mapping[p]}}

\* What from_permutation tests is that the mapping is a matching of all ports.
LEMMA MatchingMappings ==
    ASSUME NEW mapping \in [Ports -> Ports]
    PROVE  IsMatching(PairsOfMapping(mapping)) <=>
               /\ {mapping[port] : port \in Ports} = Ports
               /\ \A port \in Ports : mapping[port] # port
               /\ \A port \in Ports : mapping[mapping[port]] = port
<1> DEFINE pairs == PairsOfMapping(mapping)
<1>1. ASSUME IsMatching(pairs)
      PROVE  \A port \in Ports : mapping[port] # port /\ mapping[mapping[port]] = port
  <2> TAKE port \in Ports
  <2>1. <<port, mapping[port]>> \in pairs
    BY DEF PairsOfMapping
  <2>2. port # mapping[port] /\ <<mapping[port], port>> \in pairs
    BY <1>1, <2>1 DEF IsMatching
  <2>3. mapping[mapping[port]] = port
    BY <2>2 DEF PairsOfMapping
  <2> QED
    BY <2>2, <2>3
<1>2. ASSUME \A port \in Ports : mapping[mapping[port]] = port
      PROVE  {mapping[port] : port \in Ports} = Ports
  BY <1>2
<1>3. ASSUME \A port \in Ports : mapping[port] # port,
             \A port \in Ports : mapping[mapping[port]] = port
      PROVE  IsMatching(pairs)
  <2>1. ASSUME NEW p \in pairs PROVE p[1] # p[2] /\ <<p[2], p[1]>> \in pairs
    <3>1. PICK port \in Ports : p = <<port, mapping[port]>>
      BY DEF PairsOfMapping
    <3>2. <<mapping[port], mapping[mapping[port]]>> \in pairs
      BY DEF PairsOfMapping
    <3> QED
      BY <1>3, <3>1, <3>2
  <2>2. ASSUME NEW p \in pairs, NEW q \in pairs, p[1] = q[1] PROVE p = q
    BY <2>2 DEF PairsOfMapping
  <2> QED
    BY <2>1, <2>2 DEF IsMatching
<1> QED
  BY <1>1, <1>2, <1>3

\* The constructor finds no conflict in the connections of a matching, and they
\* are exactly its pairs.
LEMMA LowerEndsAreExact ==
    ASSUME NEW mapping \in [Ports -> Ports],
           \A port \in Ports : mapping[port] # port,
           \A port \in Ports : mapping[mapping[port]] = port
    PROVE  /\ WellFormed(LowerEnds(mapping))
           /\ DirectedPairs(LowerEnds(mapping)) = PairsOfMapping(mapping)
<1> DEFINE S == LowerEnds(mapping)
           Of(port) == [name |-> PermutationName(port, mapping[port]),
                        near |-> port, far |-> mapping[port]]
<1>1. \A c \in S : \E port \in Ports : port < mapping[port] /\ c = Of(port)
  BY DEF LowerEnds
<1>2. Ports \subseteq Int
  BY PortCountAssumption DEF Ports
<1>3. ASSUME NEW c \in S PROVE c.near # c.far
  BY <1>1
<1>4. ASSUME NEW c \in S, NEW d \in S, c # d
      PROVE  c.name # d.name /\ Ends(c) \cap Ends(d) = {}
  <2>1. PICK p \in Ports : p < mapping[p] /\ c = Of(p)
    BY <1>1
  <2>2. PICK q \in Ports : q < mapping[q] /\ d = Of(q)
    BY <1>1
  <2>3. p # q
    BY <1>4, <2>1, <2>2
  <2>4. c.name = <<p, mapping[p]>> /\ d.name = <<q, mapping[q]>>
    BY <2>1, <2>2 DEF PermutationName
  <2>5. p # mapping[q] /\ mapping[p] # q
    BY <1>2, <2>1, <2>2
  <2>6. mapping[p] # mapping[q]
    BY <2>3
  <2>7. Ends(c) = {p, mapping[p]} /\ Ends(d) = {q, mapping[q]}
    BY <2>1, <2>2 DEF Ends
  <2> QED
    BY <2>3, <2>4, <2>5, <2>6, <2>7
<1>5. ASSUME NEW pair \in DirectedPairs(S) PROVE pair \in PairsOfMapping(mapping)
  <2>1. PICK c \in S : pair = <<c.near, c.far>> \/ pair = <<c.far, c.near>>
    BY DEF DirectedPairs
  <2>2. PICK port \in Ports : c = Of(port)
    BY <1>1
  <2>3. pair = <<port, mapping[port]>> \/ pair = <<mapping[port], mapping[mapping[port]]>>
    BY <2>1, <2>2
  <2> QED
    BY <2>3 DEF PairsOfMapping
<1>6. ASSUME NEW port \in Ports PROVE <<port, mapping[port]>> \in DirectedPairs(S)
  <2>1. CASE port < mapping[port]
    <3>1. Of(port) \in S
      BY <2>1 DEF LowerEnds
    <3>2. Of(port).near = port /\ Of(port).far = mapping[port]
      OBVIOUS
    <3> QED
      BY <3>1, <3>2 DEF DirectedPairs
  <2>2. CASE mapping[port] < port
    <3>1. Of(mapping[port]) \in S
      BY <2>2 DEF LowerEnds
    <3>2. Of(mapping[port]).near = mapping[port] /\ Of(mapping[port]).far = port
      OBVIOUS
    <3> QED
      BY <3>1, <3>2 DEF DirectedPairs
  <2>3. port \in Int /\ mapping[port] \in Int /\ mapping[port] # port
    BY <1>2
  <2>4. port < mapping[port] \/ mapping[port] < port
    BY <2>3
  <2> QED
    BY <2>1, <2>2, <2>4
<1> QED
  BY <1>3, <1>4, <1>5, <1>6 DEF WellFormed, PairsOfMapping

\* A raised exception is neither a connection set nor a mapping.
RejectedIsNoValue ==
    Rejected \notin SUBSET Connections /\ Rejected \notin [Ports -> Ports]

\* A mapping is accepted exactly when it is a matching of the ports, and then it
\* asks for exactly its pairs.
LEMMA FromPermutationIsExact ==
    ASSUME RejectedIsNoValue, NEW mapping \in [Ports -> Ports]
    PROVE  IF IsMatching(PairsOfMapping(mapping))
           THEN /\ FromPermutation(mapping) # Rejected
                /\ DirectedPairs(FromPermutation(mapping)) = PairsOfMapping(mapping)
           ELSE FromPermutation(mapping) = Rejected
<1>1. CASE IsMatching(PairsOfMapping(mapping))
  <2>1. /\ {mapping[port] : port \in Ports} = Ports
        /\ \A port \in Ports : mapping[port] # port
        /\ \A port \in Ports : mapping[mapping[port]] = port
    BY <1>1, MatchingMappings
  <2>2. /\ WellFormed(LowerEnds(mapping))
        /\ DirectedPairs(LowerEnds(mapping)) = PairsOfMapping(mapping)
    BY <2>1, LowerEndsAreExact
  <2>3. FromPermutation(mapping) = LowerEnds(mapping)
    BY <2>1, <2>2 DEF FromPermutation, ConnectionSet, LowerEnds
  <2>4. LowerEnds(mapping) \in SUBSET Connections
    BY DEF LowerEnds, Connections, AllNames
  <2> QED
    BY <1>1, <2>2, <2>3, <2>4 DEF RejectedIsNoValue
<1>2. CASE ~IsMatching(PairsOfMapping(mapping))
  <2>1. ~ /\ {mapping[port] : port \in Ports} = Ports
          /\ \A port \in Ports : mapping[port] # port
          /\ \A port \in Ports : mapping[mapping[port]] = port
    BY <1>2, MatchingMappings
  <2>2. FromPermutation(mapping) = Rejected
    BY <2>1 DEF FromPermutation
  <2> QED
    BY <1>2, <2>2
<1> QED
  BY <1>1, <1>2

\* The connections join ports of the inventory, under whatever names.
Placed(S) == \A c \in S : c.near \in Ports /\ c.far \in Ports

\* The view of a set is a mapping exactly when it is full, and then the mapping
\* of its pairs.
LEMMA ToPermutationIsExact ==
    ASSUME RejectedIsNoValue, NEW S, Placed(S), WellFormed(S),
           NEW mapping \in [Ports -> Ports]
    PROVE  PairsOfMapping(mapping) = DirectedPairs(S) <=> ToPermutation(S) = mapping
<1>1. Occupied(S) \subseteq Ports
  BY DEF Occupied, Ends, Placed
<1>2. \A port : port \in Occupied(S) <=> \E peer \in Ports : <<port, peer>> \in DirectedPairs(S)
  BY DEF Occupied, Ends, DirectedPairs, Placed
<1>3. IsMatching(DirectedPairs(S))
  BY WellFormedIsMatching
<1>4. ASSUME PairsOfMapping(mapping) = DirectedPairs(S)
      PROVE  ToPermutation(S) = mapping
  <2>1. Occupied(S) = Ports
    <3>1. \A port \in Ports : mapping[port] \in Ports /\ <<port, mapping[port]>> \in DirectedPairs(S)
      BY <1>4 DEF PairsOfMapping
    <3>2. Ports \subseteq Occupied(S)
      BY <1>2, <3>1
    <3> QED
      BY <1>1, <3>2
  <2>2. \A port, peer \in Ports : <<port, peer>> \in DirectedPairs(S) <=> peer = mapping[port]
    BY <1>4 DEF PairsOfMapping
  <2>3. ASSUME NEW port \in Ports
        PROVE  (CHOOSE peer \in Ports : <<port, peer>> \in DirectedPairs(S)) = mapping[port]
    BY <2>2
  <2>4. ToPermutation(S) = [port \in Ports |->
            CHOOSE peer \in Ports : <<port, peer>> \in DirectedPairs(S)]
    BY <2>1 DEF ToPermutation
  <2> QED
    BY <2>3, <2>4
<1>5. ASSUME ToPermutation(S) = mapping
      PROVE  PairsOfMapping(mapping) = DirectedPairs(S)
  <2>1. Occupied(S) = Ports
    BY <1>5 DEF ToPermutation, RejectedIsNoValue
  <2>2. mapping = [port \in Ports |->
            CHOOSE peer \in Ports : <<port, peer>> \in DirectedPairs(S)]
    BY <1>5, <2>1 DEF ToPermutation
  <2>3. ASSUME NEW port \in Ports PROVE <<port, mapping[port]>> \in DirectedPairs(S)
    <3>1. \E peer \in Ports : <<port, peer>> \in DirectedPairs(S)
      BY <1>2, <2>1
    <3>2. mapping[port] = CHOOSE peer \in Ports : <<port, peer>> \in DirectedPairs(S)
      BY <2>2
    <3> QED
      BY <3>1, <3>2
  <2>4. ASSUME NEW pair \in DirectedPairs(S) PROVE pair \in PairsOfMapping(mapping)
    <3>1. PICK port \in Ports, peer \in Ports : pair = <<port, peer>>
      BY DEF DirectedPairs, Placed
    <3>2. <<port, mapping[port]>> = pair
      BY <1>3, <2>3, <3>1 DEF IsMatching
    <3> QED
      BY <3>2 DEF PairsOfMapping
  <2> QED
    BY <2>3, <2>4 DEF PairsOfMapping
<1> QED
  BY <1>4, <1>5

\* So the mapping that is read is the only one that leaves such a set as it is.
LEMMA ExactFor ==
    ASSUME RejectedIsNoValue, Placed(connections), WellFormed(connections)
    PROVE  PermutationsAreExact
<1>1. Pairings = {mapping \in [Ports -> Ports] : IsMatching(PairsOfMapping(mapping))}
  BY DEF Pairings, PairsOfMapping
<1>2. Accepted = Pairings
  <2>1. ASSUME NEW mapping \in Accepted PROVE mapping \in Pairings
    <3>1. FromPermutation(mapping) # Rejected
      BY DEF Accepted
    <3>2. mapping \in [Ports -> Ports]
      BY <3>1 DEF FromPermutation
    <3> QED
      BY <1>1, <3>1, <3>2, FromPermutationIsExact
  <2>2. ASSUME NEW mapping \in Pairings PROVE mapping \in Accepted
    <3>1. mapping \in [Ports -> Ports] /\ FromPermutation(mapping) # Rejected
      BY <1>1, FromPermutationIsExact
    <3> QED
      BY <3>1 DEF Accepted, Mappings
  <2> QED
    BY <2>1, <2>2
<1>3. ASSUME NEW mapping \in Pairings
      PROVE  /\ DirectedPairs(FromPermutation(mapping)) = PairsOfMapping(mapping)
             /\ PairsOfMapping(mapping) = DirectedPairs(connections)
                    <=> ToPermutation(connections) = mapping
  BY <1>1, FromPermutationIsExact, ToPermutationIsExact
<1> QED
  BY <1>2, <1>3 DEF PermutationsAreExact, PairsOfMapping

\* And posting it back is accepted and asks for the same pairs.
LEMMA RoundTripFor ==
    ASSUME RejectedIsNoValue, Placed(connections), WellFormed(connections)
    PROVE  PermutationRoundTrip
<1> SUFFICES ASSUME Occupied(connections) = Ports
             PROVE  LET reposted == FromPermutation(ToPermutation(connections))
                    IN  /\ reposted # Rejected
                        /\ DirectedPairs(reposted) = DirectedPairs(connections)
  BY DEF PermutationRoundTrip
<1> DEFINE mapping == ToPermutation(connections)
<1>1. mapping \in [Ports -> Ports]
  <2>1. \A port \in Ports : \E peer \in Ports : <<port, peer>> \in DirectedPairs(connections)
    BY DEF Occupied, Ends, DirectedPairs, Placed
  <2>2. ASSUME NEW port \in Ports
        PROVE  (CHOOSE peer \in Ports : <<port, peer>> \in DirectedPairs(connections)) \in Ports
    BY <2>1
  <2>3. mapping = [port \in Ports |->
            CHOOSE peer \in Ports : <<port, peer>> \in DirectedPairs(connections)]
    BY DEF ToPermutation
  <2> QED
    BY <2>2, <2>3
<1>2. PairsOfMapping(mapping) = DirectedPairs(connections)
  BY <1>1, ToPermutationIsExact
<1>3. IsMatching(PairsOfMapping(mapping))
  BY <1>2, WellFormedIsMatching
<1> QED
  BY <1>1, <1>2, <1>3, FromPermutationIsExact

\* What the type invariant says of the ports.
LEMMA TypedIsPlaced == TypeOK => Placed(connections)
BY DEF TypeOK, Placed, Connections

\* For every number of ports the two views agree: exactly the matchings are
\* accepted, and exactly the mapping that is read leaves the device as it is.
THEOREM PermutationsAlwaysExact ==
    RejectedIsNoValue => (Spec => []PermutationsAreExact)
<1> SUFFICES ASSUME RejectedIsNoValue PROVE Spec => []PermutationsAreExact
  OBVIOUS
<1>1. TypeOK /\ Constructed => PermutationsAreExact
  BY ExactFor, TypedIsPlaced DEF Constructed
<1> QED
  BY <1>1, TypeCorrect, BothConstructed, PTL

\* Reading the pairing and posting it back never changes the device.
THEOREM RoundTrips ==
    RejectedIsNoValue => (Spec => []PermutationRoundTrip)
<1> SUFFICES ASSUME RejectedIsNoValue PROVE Spec => []PermutationRoundTrip
  OBVIOUS
<1>1. TypeOK /\ Constructed => PermutationRoundTrip
  BY RoundTripFor, TypedIsPlaced DEF Constructed
<1> QED
  BY <1>1, TypeCorrect, BothConstructed, PTL
================================================================================
