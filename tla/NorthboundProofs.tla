--------------------------- MODULE NorthboundProofs ---------------------------
(***************************************************************************)
(* What Northbound checks of four ports and two names, for every number of *)
(* ports, every set of names and every gNMI Set request.                   *)
(***************************************************************************)
EXTENDS Northbound, ConnectionModelProofs, SequenceTheorems, FiniteSetTheorems

----------------------------------------------------------------------------------
(* What a gNMI Set asks for *)

\* A connection is a name and two ports of the inventory.
Complete(c) ==
    /\ c = [name |-> c.name, near |-> c.near, far |-> c.far]
    /\ c.name # Absent /\ c.near \in Ports /\ c.far \in Ports

\* What the constructor accepts of such connections.
Sound(S) == WellFormed(S) /\ \A c \in S : Complete(c)

\* An operation that a request was translated to.
Translated(o) ==
    \/ o.kind = "delete"
    \/ o.kind = "replace" /\ o.connection.name = o.name
    \/ o.kind = "replace_all" /\ o.all # Rejected /\ Sound(o.all)

\* The connections an operation writes, and the names it is about.
Written(o) ==
    CASE o.kind = "replace_all" -> o.all
      [] o.kind = "replace" -> {ValidateConnection(o.connection)}
      [] OTHER -> {}

Touched(o, name) == o.kind = "replace_all" \/ o.name = name

\* The connections after the first k of a list of operations: the last operation that
\* touches a name decides on it.
After(S, operations, k) ==
    LET Later(i, name) == \E j \in 1..k : i < j /\ Touched(operations[j], name)
    IN  {c \in S : ~Later(0, c.name)}
            \cup UNION {{c \in Written(operations[i]) : ~Later(i, c.name)} : i \in 1..k}

\* A validated connection is complete.
LEMMA ValidatedIsComplete ==
    ASSUME NEW c, ValidateConnection(c) # Rejected
    PROVE  /\ Complete(ValidateConnection(c))
           /\ ValidateConnection(c).name = c.name
BY DEF ValidateConnection, Complete

\* The connections of a subtree are validated one by one, then as a set.
LEMMA SubtreesAreSound ==
    ASSUME NEW value, ConnectionSetFromJSON(value) # Rejected
    PROVE  Sound(ConnectionSetFromJSON(value))
<1> DEFINE list == [i \in 1..Len(value.list) |-> ConnectionFromJSON(value.list[i], Absent)]
           valid == [i \in 1..Len(list) |-> ValidateConnection(list[i])]
           S == {valid[i] : i \in 1..Len(list)}
<1>1. ConnectionSetFromJSON(value) = NewConnectionSet(list)
  BY DEF ConnectionSetFromJSON
<1> HIDE DEF list
<1>2. /\ \A i \in 1..Len(list) : valid[i] # Rejected
      /\ ConnectionSetFromJSON(value) = ConnectionSet(S)
  BY <1>1 DEF NewConnectionSet
<1>3. \A i \in 1..Len(list) : Complete(valid[i])
  <2> SUFFICES ASSUME NEW i \in 1..Len(list) PROVE Complete(valid[i])
    OBVIOUS
  <2>1. valid[i] = ValidateConnection(list[i]) /\ ValidateConnection(list[i]) # Rejected
    BY <1>2
  <2> HIDE DEF valid
  <2> QED
    BY <2>1, ValidatedIsComplete
<1>4. \A c \in S : Complete(c)
  BY <1>3
<1> HIDE DEF S, valid
<1> QED
  BY <1>2, <1>4, ConstructorChecks DEF ConnectionSet, Sound

\* A delete names the connection.
LEMMA DeleteTranslated ==
    ASSUME NEW path, DeleteOperation(path) # Rejected
    PROVE  DeleteOperation(path).kind = "delete" /\ Translated(DeleteOperation(path))
BY DEF DeleteOperation, Translated

\* So does a replace of an entry; one of the whole list went through the constructor.
LEMMA ReplaceTranslated ==
    ASSUME NEW path, NEW value, ReplaceOperation(path, value) # Rejected
    PROVE  LET o == ReplaceOperation(path, value)
           IN  o.kind \in {"replace", "replace_all"} /\ Translated(o)
<1> DEFINE o == ReplaceOperation(path, value)
           name == ConnectionNameFromPath(path)
           all == ConnectionSetFromJSON(value)
<1>1. \/ o = [kind |-> "replace_all", all |-> all] /\ all # Rejected
      \/ /\ o = [kind |-> "replace", name |-> name,
                 connection |-> ConnectionFromJSON(value.entry, name)]
         /\ name # Absent /\ ConnectionFromJSON(value.entry, name) # Rejected
  BY DEF ReplaceOperation
<1>2. all # Rejected => Sound(all)
  BY SubtreesAreSound
<1>3. name # Absent /\ ConnectionFromJSON(value.entry, name) # Rejected
        => ConnectionFromJSON(value.entry, name).name = name
  BY DEF ConnectionFromJSON
<1> HIDE DEF o, name, all
<1>4. o.kind \in {"replace", "replace_all"} /\ Translated(o)
  <2>1. CASE o = [kind |-> "replace_all", all |-> all] /\ all # Rejected
    BY <1>2, <2>1 DEF Translated
  <2>2. CASE /\ o = [kind |-> "replace", name |-> name,
                     connection |-> ConnectionFromJSON(value.entry, name)]
             /\ name # Absent /\ ConnectionFromJSON(value.entry, name) # Rejected
    <3>1. o.kind = "replace" /\ o.name = name /\ o.connection = ConnectionFromJSON(value.entry, name)
      BY <2>2
    <3> QED
      BY <1>3, <2>2, <3>1 DEF Translated
  <2> QED
    BY <1>1, <2>1, <2>2
<1> QED
  BY <1>4 DEF o

\* The list of operations: deletes first, each translated.
LEMMA OperationsTranslated ==
    ASSUME NEW set \in Sets, Operations(set) # Rejected
    PROVE  LET operations == Operations(set)
               d == Len(set.deletes)
               r == Len(set.replaces)
           IN  /\ d \in Nat /\ r \in Nat
               /\ operations \in Seq({operations[i] : i \in 1..(d + r)})
               /\ Len(operations) = d + r
               /\ \A i \in 1..(d + r) : Translated(operations[i])
               /\ \A i \in 1..d : operations[i] = Deletes(set)[i] /\ operations[i].kind = "delete"
               /\ \A i \in 1..r : /\ operations[d + i] = Replaces(set)[i]
                                  /\ operations[d + i].kind \in {"replace", "replace_all"}
<1> DEFINE operations == Operations(set)
           d == Len(set.deletes)
           r == Len(set.replaces)
           T == {Deletes(set)[i] : i \in 1..d} \cup {Replaces(set)[i] : i \in 1..r}
<1>1. d \in Nat /\ r \in Nat
  BY SetsAssumption
<1>2. operations = Deletes(set) \o Replaces(set)
  BY DEF Operations
<1>3. /\ DOMAIN Deletes(set) = 1..d /\ DOMAIN Replaces(set) = 1..r
      /\ Deletes(set) = [i \in 1..d |-> Deletes(set)[i]]
      /\ Replaces(set) = [i \in 1..r |-> Replaces(set)[i]]
  BY DEF Deletes, Replaces
<1>4. Deletes(set) \in [1..d -> T] /\ Replaces(set) \in [1..r -> T]
  BY <1>3
<1>5. Deletes(set) \in Seq(T) /\ Replaces(set) \in Seq(T)
  BY <1>1, <1>4, SeqDef
<1>6. Len(Deletes(set)) = d /\ Len(Replaces(set)) = r
  BY <1>1, <1>3, <1>5
<1>7. /\ operations \in Seq(T) /\ Len(operations) = d + r
      /\ \A i \in 1..d : operations[i] = Deletes(set)[i]
      /\ \A i \in 1..r : operations[d + i] = Replaces(set)[i]
  <2> HIDE DEF operations, d, r, T
  <2>1. /\ operations \in Seq(T)
        /\ Len(operations) = d + r
        /\ \A i \in 1..(d + r) : operations[i] =
                IF i <= d THEN Deletes(set)[i] ELSE Replaces(set)[i - d]
    BY <1>2, <1>5, <1>6, ConcatProperties
  <2>2. \A i \in 1..d : operations[i] = Deletes(set)[i]
    BY <1>1, <2>1
  <2>3. \A i \in 1..r : operations[d + i] = Replaces(set)[i]
    BY <1>1, <2>1
  <2> QED
    BY <2>1, <2>2, <2>3
<1>8. \A i \in 1..(d + r) : operations[i] # Rejected
  BY <1>2, <1>7 DEF Operations
<1>9. \A i \in 1..d : operations[i].kind = "delete" /\ Translated(operations[i])
  <2> SUFFICES ASSUME NEW i \in 1..d
               PROVE  operations[i].kind = "delete" /\ Translated(operations[i])
    OBVIOUS
  <2>1. operations[i] = DeleteOperation(JoinPath(set.prefix, set.deletes[i]))
    BY <1>7 DEF Deletes
  <2> HIDE DEF operations, d, r
  <2>2. operations[i] # Rejected
    BY <1>1, <1>8
  <2> QED
    BY <2>1, <2>2, DeleteTranslated
<1>10. \A i \in 1..r : /\ operations[d + i].kind \in {"replace", "replace_all"}
                       /\ Translated(operations[d + i])
  <2> SUFFICES ASSUME NEW i \in 1..r
               PROVE  /\ operations[d + i].kind \in {"replace", "replace_all"}
                      /\ Translated(operations[d + i])
    OBVIOUS
  <2>1. operations[d + i] = ReplaceOperation(JoinPath(set.prefix, set.replaces[i].path),
                                             set.replaces[i].value)
    BY <1>7 DEF Replaces
  <2> HIDE DEF operations, d, r
  <2>2. operations[d + i] # Rejected
    BY <1>1, <1>8
  <2> QED
    BY <2>1, <2>2, ReplaceTranslated
<1> HIDE DEF operations, d, r, T
<1>11. operations \in Seq({operations[i] : i \in 1..(d + r)})
  <2>1. operations \in [1..(d + r) -> {operations[i] : i \in 1..(d + r)}]
    BY <1>7
  <2> QED
    BY <1>1, <2>1, SeqDef
<1>12. ASSUME NEW i \in 1..(d + r) PROVE Translated(operations[i])
  <2>1. CASE i <= d
    BY <1>1, <1>9, <2>1
  <2>2. CASE i > d
    <3>1. i - d \in 1..r /\ i = d + (i - d)
      BY <1>1, <2>2
    <3> QED
      BY <1>10, <3>1
  <2> QED
    BY <1>1, <2>1, <2>2
<1> QED
  BY <1>1, <1>7, <1>9, <1>10, <1>11, <1>12 DEF operations, d, r

\* Before the first operation, and from one to the next.
LEMMA AfterNone == ASSUME NEW S, NEW operations PROVE After(S, operations, 0) = S
BY DEF After

\* The next operation takes what it touches away and puts what it writes.
LEMMA AfterOneMore ==
    ASSUME NEW S, NEW operations, NEW k \in Nat
    PROVE  After(S, operations, k + 1) =
               {c \in After(S, operations, k) : ~Touched(operations[k + 1], c.name)}
                   \cup Written(operations[k + 1])
<1> DEFINE Later(i, name, n) == \E j \in 1..n : i < j /\ Touched(operations[j], name)
           Kept(n) == {c \in S : ~Later(0, c.name, n)}
           Put(n) == UNION {{c \in Written(operations[i]) : ~Later(i, c.name, n)} : i \in 1..n}
           o == operations[k + 1]
<1>1. \A n : After(S, operations, n) = Kept(n) \cup Put(n)
  BY DEF After
<1>2. \A i \in 0..k : \A name : Later(i, name, k + 1) <=> Later(i, name, k) \/ Touched(o, name)
  <2> SUFFICES ASSUME NEW i \in 0..k, NEW name
               PROVE  Later(i, name, k + 1) <=> Later(i, name, k) \/ Touched(o, name)
    OBVIOUS
  <2>1. 1..(k + 1) = 1..k \cup {k + 1} /\ i < k + 1
    OBVIOUS
  <2> QED
    BY <2>1
<1>3. \A name : ~Later(k + 1, name, k + 1)
  OBVIOUS
<1> HIDE DEF Later, o
<1>4. Kept(k + 1) = {c \in Kept(k) : ~Touched(o, c.name)}
  BY <1>2
<1>5. Put(k + 1) = {c \in Put(k) : ~Touched(o, c.name)} \cup Written(o)
  <2>1. ASSUME NEW c \in Put(k + 1) PROVE c \in {d \in Put(k) : ~Touched(o, d.name)} \cup Written(o)
    <3>1. PICK i \in 1..(k + 1) : c \in Written(operations[i]) /\ ~Later(i, c.name, k + 1)
      OBVIOUS
    <3>2. CASE i = k + 1
      BY <3>1, <3>2 DEF o
    <3>3. CASE i # k + 1
      <4>1. i \in 1..k /\ i \in 0..k
        BY <3>3
      <4> QED
        BY <1>2, <3>1, <4>1
    <3> QED
      BY <3>2, <3>3
  <2>2. ASSUME NEW c \in Put(k), ~Touched(o, c.name) PROVE c \in Put(k + 1)
    <3>1. PICK i \in 1..k : c \in Written(operations[i]) /\ ~Later(i, c.name, k)
      OBVIOUS
    <3>2. i \in 1..(k + 1) /\ i \in 0..k
      OBVIOUS
    <3> QED
      BY <1>2, <2>2, <3>1, <3>2
  <2>3. ASSUME NEW c \in Written(o) PROVE c \in Put(k + 1)
    <3>1. k + 1 \in 1..(k + 1)
      OBVIOUS
    <3> QED
      BY <1>3, <2>3, <3>1 DEF o
  <2> QED
    BY <2>1, <2>2, <2>3
<1> HIDE DEF Kept, Put
<1> QED
  BY <1>1, <1>4, <1>5 DEF o

\* An operation on the draft is the constructor's, and gives the next of these sets
\* unless it raises.
LEMMA Carried ==
    ASSUME NEW o, Sound(draft), Translated(o), Carry(o)
    PROVE  /\ \E result : Edit(result) /\ (result # Rejected => Sound(result))
           /\ Raises(o) => draft' = connections
           /\ ~Raises(o) => draft' = {c \in draft : ~Touched(o, c.name)} \cup Written(o)
           /\ connections' = connections
<1> DEFINE Good(result) == Edit(result) /\ (result # Rejected => Sound(result))
<1>1. CASE o.kind = "delete"
  <2>1. Edit(Delete(draft, o.name)) /\ (Raises(o) <=> Delete(draft, o.name) = Rejected)
    BY <1>1 DEF Carry, Raises, DeleteConnection
  <2>2. Good(Delete(draft, o.name))
    <3>1. Delete(draft, o.name) # Rejected
            => WellFormed(Delete(draft, o.name)) /\ Delete(draft, o.name) \subseteq draft
      BY ConstructorChecks DEF Delete, ConnectionSet
    <3> QED
      BY <2>1, <3>1 DEF Sound
  <2>3. Delete(draft, o.name) # Rejected
            => Delete(draft, o.name) = {c \in draft : ~Touched(o, c.name)} \cup Written(o)
    BY <1>1 DEF Delete, ConnectionSet, Touched, Written
  <2> QED
    BY <2>1, <2>2, <2>3 DEF Edit
<1>2. CASE o.kind = "replace"
  <2> DEFINE v == ValidateConnection(o.connection)
  <2>1. /\ Raises(o) <=> v = Rejected \/ Replace(draft, v) = Rejected
        /\ v = Rejected => Edit(Rejected)
        /\ v # Rejected => Edit(Replace(draft, v))
    BY <1>2 DEF Carry, Raises, ReplaceConnection
  <2>2. v # Rejected => v.name = o.name /\ Complete(v)
    BY <1>2, ValidatedIsComplete DEF Translated
  <2>3. Written(o) = {v} /\ \A name : Touched(o, name) <=> name = o.name
    BY <1>2 DEF Written, Touched
  <2> HIDE DEF v
  <2>4. v # Rejected /\ Replace(draft, v) # Rejected
            => Replace(draft, v) = {c \in draft : ~Touched(o, c.name)} \cup Written(o)
    BY <2>2, <2>3 DEF Replace, ConnectionSet
  <2>5. v # Rejected /\ Replace(draft, v) # Rejected => Sound(Replace(draft, v))
    <3>1. Replace(draft, v) # Rejected
            => WellFormed(Replace(draft, v)) /\ Replace(draft, v) \subseteq draft \cup {v}
      BY ConstructorChecks DEF Replace, ConnectionSet
    <3> QED
      BY <2>2, <3>1 DEF Sound
  <2>6. \E result : Good(result)
    BY <2>1, <2>5
  <2> QED
    BY <2>1, <2>4, <2>6 DEF Edit
<1>3. CASE o.kind = "replace_all"
  <2>1. Edit(ConnectionSet(o.all)) /\ ~Raises(o)
    BY <1>3 DEF Carry, Raises, ReplaceAll
  <2>2. ConnectionSet(o.all) = o.all /\ o.all # Rejected /\ Sound(o.all)
    BY <1>3 DEF Translated, ConnectionSet, Sound
  <2>3. o.all = {c \in draft : ~Touched(o, c.name)} \cup Written(o)
    BY <1>3 DEF Touched, Written
  <2> QED
    BY <2>1, <2>2, <2>3 DEF Edit
<1> QED
  BY <1>1, <1>2, <1>3 DEF Translated

\* A replace that was carried out had a connection to write.
Valid(o) == o.kind = "replace" => ValidateConnection(o.connection) # Rejected

\* What all operations of a Set leave is what the Set asks for, in whatever order its
\* deletes and replaces are listed.
LEMMA OutcomeIsAfter ==
    ASSUME NEW S, NEW set \in Sets, Operations(set) # Rejected,
           \A i \in 1..Len(Operations(set)) : Valid(Operations(set)[i])
    PROVE  Outcome(S, set) = After(S, Operations(set), Len(Operations(set)))
<1> DEFINE operations == Operations(set)
           replaces == Replaces(set)
           d == Len(set.deletes)
           r == Len(set.replaces)
           Put(i) == IF replaces[i].kind = "replace_all" THEN replaces[i].all
                     ELSE {ValidateConnection(replaces[i].connection)}
           Writers(name) == {i \in 1..r : replaces[i].kind = "replace_all" \/ replaces[i].name = name}
           Last(i, name) == i \in Writers(name) /\ \A j \in Writers(name) : j <= i
           deleted == {Deletes(set)[i].name : i \in 1..d}
           Later(i, name) == \E j \in 1..(d + r) : i < j /\ Touched(operations[j], name)
<1>1. /\ d \in Nat /\ r \in Nat
      /\ Len(operations) = d + r
      /\ \A i \in 1..(d + r) : Translated(operations[i]) /\ Valid(operations[i])
      /\ \A i \in 1..d : operations[i] = Deletes(set)[i] /\ operations[i].kind = "delete"
      /\ \A i \in 1..r : /\ operations[d + i] = replaces[i]
                         /\ operations[d + i].kind \in {"replace", "replace_all"}
  BY OperationsTranslated
<1>2. Len(Replaces(set)) = r
  BY <1>1 DEF Replaces
<1>3. Outcome(S, set) =
        {c \in S : Writers(c.name) = {} /\ c.name \notin deleted}
            \cup UNION {{c \in Put(i) : Last(i, c.name)} : i \in 1..r}
  BY <1>2 DEF Outcome
<1>4. After(S, operations, d + r) =
        {c \in S : ~Later(0, c.name)}
            \cup UNION {{c \in Written(operations[i]) : ~Later(i, c.name)} : i \in 1..(d + r)}
  BY DEF After
<1> HIDE DEF operations, replaces, d, r
<1>5. \A name : ~Later(0, name) <=> Writers(name) = {} /\ name \notin deleted
  <2> SUFFICES ASSUME NEW name PROVE Later(0, name) <=> Writers(name) # {} \/ name \in deleted
    OBVIOUS
  <2>1. ASSUME NEW j \in 1..(d + r), Touched(operations[j], name)
        PROVE  Writers(name) # {} \/ name \in deleted
    <3>1. CASE j <= d
      <4>1. j \in 1..d
        BY <1>1, <3>1
      <4> QED
        BY <1>1, <2>1, <4>1 DEF Touched
    <3>2. CASE j > d
      <4>1. j - d \in 1..r /\ d + (j - d) = j
        BY <1>1, <3>2
      <4>2. operations[j] = replaces[j - d]
        BY <1>1, <4>1
      <4> QED
        BY <2>1, <4>1, <4>2 DEF Touched
    <3> QED
      BY <1>1, <3>1, <3>2
  <2>2. ASSUME NEW i \in Writers(name) PROVE Later(0, name)
    <3>1. d + i \in 1..(d + r) /\ 0 < d + i /\ i \in 1..r
      BY <1>1
    <3>2. Touched(operations[d + i], name)
      BY <1>1, <3>1 DEF Touched
    <3> QED
      BY <3>1, <3>2
  <2>3. ASSUME NEW i \in 1..d, name = Deletes(set)[i].name PROVE Later(0, name)
    <3>1. i \in 1..(d + r) /\ 0 < i
      BY <1>1
    <3>2. Touched(operations[i], name)
      BY <1>1, <2>3 DEF Touched
    <3> QED
      BY <3>1, <3>2
  <2> QED
    BY <2>1, <2>2, <2>3
<1>6. ASSUME NEW i \in 1..r
      PROVE  {c \in Put(i) : Last(i, c.name)} = {c \in Written(operations[d + i]) : ~Later(d + i, c.name)}
  <2>1. operations[d + i] = replaces[i] /\ replaces[i].kind \in {"replace", "replace_all"}
    BY <1>1
  <2>2. Put(i) = Written(operations[d + i])
    BY <2>1 DEF Written
  <2>3. Translated(replaces[i]) /\ Valid(replaces[i])
    <3>1. d + i \in 1..(d + r)
      BY <1>1
    <3> QED
      BY <1>1, <2>1, <3>1
  <2>4. \A c \in Put(i) : i \in Writers(c.name)
    <3>1. CASE replaces[i].kind = "replace_all"
      BY <3>1
    <3>2. CASE replaces[i].kind = "replace"
      <4>1. ValidateConnection(replaces[i].connection).name = replaces[i].name
        BY <2>3, <3>2 DEF Translated, Valid, ValidateConnection
      <4> QED
        BY <3>2, <4>1
    <3> QED
      BY <2>1, <3>1, <3>2
  <2>5. \A name : Later(d + i, name) <=> \E j \in Writers(name) : j > i
    <3> SUFFICES ASSUME NEW name PROVE Later(d + i, name) <=> \E j \in Writers(name) : j > i
      OBVIOUS
    <3>1. ASSUME NEW j \in 1..(d + r), d + i < j, Touched(operations[j], name)
          PROVE  \E m \in Writers(name) : m > i
      <4>1. j - d \in 1..r /\ d + (j - d) = j /\ j - d > i
        BY <1>1, <3>1
      <4>2. operations[j] = replaces[j - d]
        BY <1>1, <4>1
      <4> QED
        BY <3>1, <4>1, <4>2 DEF Touched
    <3>2. ASSUME NEW j \in Writers(name), j > i PROVE Later(d + i, name)
      <4>1. d + j \in 1..(d + r) /\ d + i < d + j /\ j \in 1..r
        BY <1>1, <3>2
      <4>2. Touched(operations[d + j], name)
        BY <1>1, <4>1 DEF Touched
      <4> QED
        BY <4>1, <4>2
    <3> QED
      BY <3>1, <3>2
  <2>6. \A name : Last(i, name) <=> i \in Writers(name) /\ ~\E j \in Writers(name) : j > i
    OBVIOUS
  <2> HIDE DEF Put, Last, Later, Writers
  <2> QED
    BY <2>2, <2>4, <2>5, <2>6
<1>7. \A i \in 1..d : Written(operations[i]) = {}
  BY <1>1 DEF Written
<1> DEFINE Mine(i) == {c \in Put(i) : Last(i, c.name)}
           Its(i) == {c \in Written(operations[i]) : ~Later(i, c.name)}
<1>8. UNION {Mine(i) : i \in 1..r} = UNION {Its(i) : i \in 1..(d + r)}
  <2> HIDE DEF Put, Last, Later
  <2>1. \A i \in 1..r : Mine(i) = Its(d + i) /\ d + i \in 1..(d + r)
    <3>1. \A i \in 1..r : d + i \in 1..(d + r)
      BY <1>1
    <3>2. \A i \in 1..r : Mine(i) = Its(d + i)
      BY <1>6
    <3> QED
      BY <3>1, <3>2
  <2>2. \A i \in 1..(d + r) : i \in 1..d \/ (i - d \in 1..r /\ d + (i - d) = i)
    BY <1>1
  <2>3. \A i \in 1..d : Its(i) = {}
    BY <1>7
  <2> HIDE DEF Mine, Its
  <2>4. ASSUME NEW i \in 1..(d + r), NEW c \in Its(i) PROVE c \in UNION {Mine(j) : j \in 1..r}
    <3>1. i - d \in 1..r /\ Its(i) = Mine(i - d)
      BY <2>1, <2>2, <2>3, <2>4
    <3> QED
      BY <3>1
  <2>5. ASSUME NEW i \in 1..r, NEW c \in Mine(i) PROVE c \in UNION {Its(j) : j \in 1..(d + r)}
    BY <2>1
  <2> QED
    BY <2>4, <2>5
<1> HIDE DEF Put, Last, Later, Writers, deleted
<1>9. Outcome(S, set) = After(S, operations, d + r)
  BY <1>3, <1>4, <1>5, <1>8
<1> QED
  BY <1>1, <1>9 DEF operations

----------------------------------------------------------------------------------
(* The inductive invariant *)

\* A request holds the slot from its first operation to its answer, and nobody leaves
\* a draft behind.
Slots ==
    /\ slot = "free" => draft = connections
    /\ slot = "client" <=> phase \in Writes

\* The first k operations of the request are carried out, the others left.
CarriedOut(k) ==
    LET operations == Operations(request)
    IN  /\ todo \in Seq({operations[i] : i \in 1..Len(operations)})
        /\ Len(todo) = Len(operations) - k
        /\ \A i \in 1..Len(todo) : todo[i] = operations[k + i]
        /\ \A i \in 1..k : Valid(operations[i])
        /\ draft = After(connections, operations, k)

Progress ==
    /\ phase # "set" => request = NoRequest /\ todo = <<>>
    /\ phase = "set" =>
         /\ request \in Sets /\ Operations(request) # Rejected
         /\ \E k \in 0..Len(Operations(request)) : CarriedOut(k)

\* Every answer that the client may write from holds both, or has the pairing first.
Answers ==
    /\ phase = "read" => view.source \in Reads \ {"runtime"}
    /\ AnswersAreSafeToWriteFrom

\* The operation whose turn it is comes from the request.
LEMMA NextOperation ==
    ASSUME Progress, phase = "set", todo # <<>>,
           NEW k \in 0..Len(Operations(request)), CarriedOut(k)
    PROVE  /\ Head(todo) = Operations(request)[k + 1]
           /\ Translated(Head(todo))
           /\ k + 1 \in 1..Len(Operations(request))
           /\ Tail(todo) \in Seq({Operations(request)[i] : i \in 1..Len(Operations(request))})
           /\ Len(Tail(todo)) = Len(Operations(request)) - (k + 1)
           /\ \A i \in 1..Len(Tail(todo)) : Tail(todo)[i] = Operations(request)[(k + 1) + i]
<1> DEFINE operations == Operations(request)
           T == {operations[i] : i \in 1..Len(operations)}
<1>1. /\ todo \in Seq(T)
      /\ Len(todo) = Len(operations) - k
      /\ \A i \in 1..Len(todo) : todo[i] = operations[k + i]
  BY DEF CarriedOut
<1>2. Len(operations) \in Nat /\ \A i \in 1..Len(operations) : Translated(operations[i])
  <2>1. request \in Sets /\ Operations(request) # Rejected
    BY DEF Progress
  <2> DEFINE d == Len(request.deletes)
             r == Len(request.replaces)
  <2>2. d \in Nat /\ r \in Nat
    BY <2>1, SetsAssumption
  <2>3. Len(operations) = d + r /\ \A i \in 1..(d + r) : Translated(operations[i])
    BY <2>1, OperationsTranslated
  <2> HIDE DEF operations, d, r
  <2> QED
    BY <2>2, <2>3
<1> HIDE DEF operations, T
<1>3. Len(todo) \in Nat \ {0}
  BY <1>1, EmptySeq
<1>4. k \in Nat /\ k + 1 \in 1..Len(operations)
  BY <1>1, <1>2, <1>3 DEF operations
<1>5. Head(todo) = operations[k + 1]
  <2>1. Head(todo) = todo[1]
    BY <1>1
  <2> QED
    BY <1>1, <1>3, <2>1
<1>6. /\ Tail(todo) \in Seq(T)
      /\ Len(Tail(todo)) = Len(todo) - 1
      /\ \A i \in 1..Len(Tail(todo)) : Tail(todo)[i] = todo[i + 1]
  BY <1>1, HeadTailProperties
<1>7. Len(Tail(todo)) = Len(operations) - (k + 1)
  BY <1>1, <1>2, <1>4, <1>6
<1>8. ASSUME NEW i \in 1..Len(Tail(todo)) PROVE Tail(todo)[i] = operations[(k + 1) + i]
  <2>1. i + 1 \in 1..Len(todo) /\ k + (i + 1) = (k + 1) + i
    BY <1>3, <1>4, <1>6
  <2> QED
    BY <1>1, <1>6, <2>1
<1> QED
  BY <1>2, <1>4, <1>5, <1>6, <1>7, <1>8 DEF operations, T

\* What an operation of a Set does.
LEMMA OperateCarries ==
    ASSUME Sound(draft), Progress, Operate
    PROVE  /\ phase = "set" /\ connections' = connections
           /\ \E result : Edit(result) /\ (result # Rejected => Sound(result))
           /\ \/ Leave /\ draft' = connections
              \/ /\ UNCHANGED <<phase, slot, request>>
                 /\ \E k \in 0..Len(Operations(request)) : CarriedOut(k)'
<1>1. phase = "set" /\ todo # <<>> /\ Carry(Head(todo))
  BY DEF Operate
<1>2. /\ request \in Sets /\ Operations(request) # Rejected
      /\ \E k \in 0..Len(Operations(request)) : CarriedOut(k)
  BY <1>1 DEF Progress
<1>3. PICK k \in 0..Len(Operations(request)) : CarriedOut(k)
  BY <1>2
<1> DEFINE o == Head(todo)
<1>4. /\ o = Operations(request)[k + 1]
      /\ Translated(o)
      /\ k + 1 \in 1..Len(Operations(request))
      /\ Tail(todo) \in Seq({Operations(request)[i] : i \in 1..Len(Operations(request))})
      /\ Len(Tail(todo)) = Len(Operations(request)) - (k + 1)
      /\ \A i \in 1..Len(Tail(todo)) : Tail(todo)[i] = Operations(request)[(k + 1) + i]
  BY <1>1, <1>3, NextOperation
<1>5. /\ \E result : Edit(result) /\ (result # Rejected => Sound(result))
      /\ Raises(o) => draft' = connections
      /\ ~Raises(o) => draft' = {c \in draft : ~Touched(o, c.name)} \cup Written(o)
      /\ connections' = connections
  BY <1>1, <1>4, Carried
<1>6. CASE Raises(o)
  <2>1. Leave
    BY <1>6 DEF Operate
  <2> QED
    BY <1>1, <1>5, <1>6, <2>1
<1>7. CASE ~Raises(o)
  <2>1. todo' = Tail(todo) /\ UNCHANGED <<phase, slot, request>>
    BY <1>7 DEF Operate
  <2>2. k \in Nat /\ k + 1 \in 0..Len(Operations(request))
    BY <1>4
  <2>3. draft' = After(connections, Operations(request), k + 1)
    <3>1. draft = After(connections, Operations(request), k)
      BY <1>3 DEF CarriedOut
    <3> DEFINE operations == Operations(request)
    <3>3. o = operations[k + 1]
      BY <1>4
    <3> HIDE DEF o, operations
    <3>4. After(connections, operations, k + 1) =
            {c \in After(connections, operations, k) : ~Touched(operations[k + 1], c.name)}
                \cup Written(operations[k + 1])
      BY <2>2, AfterOneMore
    <3>2. After(connections, Operations(request), k + 1) =
            {c \in draft : ~Touched(o, c.name)} \cup Written(o)
      BY <3>1, <3>3, <3>4 DEF operations
    <3> QED
      BY <1>5, <1>7, <3>2
  <2>4. \A i \in 1..(k + 1) : Valid(Operations(request)[i])
    <3>1. \A i \in 1..k : Valid(Operations(request)[i])
      BY <1>3 DEF CarriedOut
    <3>2. Valid(o)
      BY <1>7 DEF Valid, Raises
    <3>3. \A i \in 1..(k + 1) : i \in 1..k \/ i = k + 1
      BY <2>2
    <3> HIDE DEF o
    <3> QED
      BY <1>4, <3>1, <3>2, <3>3
  <2>5. CarriedOut(k + 1)'
    BY <1>4, <1>5, <2>1, <2>3, <2>4 DEF CarriedOut
  <2> QED
    BY <1>1, <1>5, <2>1, <2>2, <2>5
<1> QED
  BY <1>6, <1>7

Inv ==
    /\ ServerTypeOK
    /\ Sound(connections) /\ Sound(draft)
    /\ Slots
    /\ Progress
    /\ Answers

\* What a file or a request may name is complete.
LEMMA ConnectionsAreComplete == \A c \in Connections : Complete(c)
BY AbsentAssumption DEF Connections, Complete

\* A server that has booted from a file the constructor accepted.
LEMMA BootsInOrder == Boot => Inv
<1> SUFFICES ASSUME Boot PROVE Inv
  OBVIOUS
<1>1. Sound(connections) /\ draft = connections
  BY InitialAssumption, ConnectionsAreComplete DEF Boot, Init, Sound
<1>2. ServerTypeOK
  BY DEF Boot, ServerTypeOK, NoTarget, Nothing
<1>3. Slots
  BY <1>1 DEF Boot, Slots, Writes
<1>4. Progress
  BY DEF Boot, Progress
<1>5. Answers
  BY DEF Boot, Answers, AnswersAreSafeToWriteFrom, Nothing
<1> QED
  BY <1>1, <1>2, <1>3, <1>4, <1>5 DEF Inv

\* An edit keeps both sets sound.
LEMMA EditIsSound ==
    ASSUME Sound(connections), NEW result, Edit(result), result # Rejected => Sound(result)
    PROVE  Sound(connections)' /\ Sound(draft)'
<1>1. connections' = connections /\ draft' = IF result = Rejected THEN connections ELSE result
  BY DEF Edit
<1>2. Sound(draft')
  BY <1>1
<1> QED
  BY <1>1, <1>2 DEF Sound, WellFormed

\* So do a commit, the end of a draft and a step that has nothing to do with them.
LEMMA SlotKeepsSound ==
    ASSUME Sound(connections), Sound(draft), Commit \/ Abandon \/ UNCHANGED <<connections, draft>>
    PROVE  Sound(connections)' /\ Sound(draft)'
<1>1. connections' \in {connections, draft} /\ draft' \in {connections, draft}
  BY DEF Commit, Abandon
<1> QED
  BY <1>1 DEF Sound, WellFormed

\* What a request names as a whole is sound if it is accepted.
LEMMA TargetsAreSound ==
    /\ \A S \in Targets : ConnectionSet(S) # Rejected => Sound(ConnectionSet(S))
    /\ \A mapping : FromPermutation(mapping) # Rejected => Sound(FromPermutation(mapping))
<1>1. ASSUME NEW S \in Targets, ConnectionSet(S) # Rejected PROVE Sound(ConnectionSet(S))
  BY <1>1, ConstructorChecks, ConnectionsAreComplete, TargetsAssumption DEF ConnectionSet, Sound
<1>2. ASSUME NEW mapping, FromPermutation(mapping) # Rejected
      PROVE  Sound(FromPermutation(mapping))
  <2>4. mapping \in [Ports -> Ports]
    BY <1>2 DEF FromPermutation
  <2>1. FromPermutation(mapping) = LowerEnds(mapping)
    BY <1>2 DEF FromPermutation, ConnectionSet, LowerEnds
  <2>2. WellFormed(FromPermutation(mapping))
    BY <1>2, ConstructorChecks DEF FromPermutation
  <2>3. LowerEnds(mapping) \subseteq Connections
    BY <2>4 DEF LowerEnds, Connections, AllNames
  <2> QED
    BY <2>1, <2>2, <2>3, ConnectionsAreComplete DEF Sound
<1> QED
  BY <1>1, <1>2

\* The progress of a Set is disturbed only by its own operations.
LEMMA ProgressKept ==
    ASSUME Progress,
           \/ UNCHANGED <<connections, draft, phase, request, todo>>
           \/ phase # "set" /\ phase' # "set" /\ UNCHANGED <<request, todo>>
           \/ phase' # "set" /\ request' = NoRequest /\ todo' = <<>>
    PROVE  Progress'
<1>1. CASE UNCHANGED <<connections, draft, phase, request, todo>>
  <2>1. ASSUME NEW k PROVE CarriedOut(k)' <=> CarriedOut(k)
    BY <1>1 DEF CarriedOut
  <2> QED
    BY <1>1, <2>1 DEF Progress
<1>2. CASE phase # "set" /\ phase' # "set" /\ UNCHANGED <<request, todo>>
  BY <1>2 DEF Progress
<1>3. CASE phase' # "set" /\ request' = NoRequest /\ todo' = <<>>
  BY <1>3 DEF Progress
<1> QED
  BY <1>1, <1>2, <1>3

\* The requests that write: the operations of a Set have yet to be carried out, the
\* others are edited when they enter.
LEMMA EntryKeepsInv ==
    ASSUME Inv,
           \/ \E set \in Sets : Set(set)
           \/ \E S \in Targets : Batch(S)
           \/ \E source \in {"batch", "post"}, mapping \in Mappings : Mapping(source, mapping)
           \/ \E source \in {"batch", "command"} :
                    RecoverDeviceState(source) \/ \E m \in {"ocs", "debug"} : SetMode(source, m)
    PROVE  Inv'
<1> DEFINE Others == \/ \E S \in Targets : Batch(S)
                     \/ \E source \in {"batch", "post"}, mapping \in Mappings :
                            Mapping(source, mapping)
                     \/ \E source \in {"batch", "command"} : RecoverDeviceState(source)
                     \/ \E source \in {"batch", "command"}, m \in {"ocs", "debug"} : SetMode(source, m)
<1>1. (\E set \in Sets : Set(set)) \/ Others
  OBVIOUS
<1>2. CASE \E set \in Sets : Set(set)
  <2>1. PICK set \in Sets : Set(set)
    BY <1>2
  <2>2. /\ phase = "idle" /\ slot = "free" /\ phase' = "set" /\ slot' = "client"
        /\ Operations(set) # Rejected /\ request' = set /\ todo' = Operations(set)
        /\ target' = [mode |-> mode, change |-> FALSE, recover |-> FALSE]
        /\ UNCHANGED <<connections, draft, mode, status, cached, leased, view>>
    BY <2>1 DEF Set, Enter, Keep
  <2>3. ServerTypeOK'
    BY <2>2 DEF Inv, ServerTypeOK, Writes
  <2>4. Sound(connections)' /\ Sound(draft)'
    BY <2>2, SlotKeepsSound DEF Inv
  <2>5. Slots'
    BY <2>2 DEF Slots, Writes
  <2>6. Answers'
    BY <2>2 DEF Inv, Answers, AnswersAreSafeToWriteFrom
  <2>7. CarriedOut(0)'
    <3> DEFINE operations == Operations(set)
               d == Len(set.deletes)
               r == Len(set.replaces)
    <3>1. d \in Nat /\ r \in Nat
      BY SetsAssumption
    <3>2. Len(operations) = d + r /\ operations \in Seq({operations[i] : i \in 1..(d + r)})
      BY <2>2, OperationsTranslated
    <3>3. draft' = After(connections', operations, 0)
      BY <2>2, AfterNone DEF Inv, Slots
    <3> HIDE DEF operations, d, r
    <3>4. /\ operations \in Seq({operations[i] : i \in 1..Len(operations)})
          /\ Len(operations) = Len(operations) - 0
          /\ \A i \in 1..Len(operations) : operations[i] = operations[0 + i]
      BY <3>1, <3>2
    <3> QED
      BY <2>2, <3>3, <3>4 DEF CarriedOut, operations
  <2>8. 0 \in 0..Len(Operations(set))
    <3> DEFINE d == Len(set.deletes)
               r == Len(set.replaces)
    <3>1. d \in Nat /\ r \in Nat
      BY SetsAssumption
    <3>2. Len(Operations(set)) = d + r
      BY <2>2, OperationsTranslated
    <3> HIDE DEF d, r
    <3> QED
      BY <3>1, <3>2
  <2>9. Progress'
    BY <2>2, <2>7, <2>8 DEF Progress
  <2> QED
    BY <2>3, <2>4, <2>5, <2>6, <2>9 DEF Inv
<1>3. CASE Others
  <2>1. \E source \in {"batch", "post", "command"} :
            /\ Enter(source)
            /\ target' \in [mode : {"ocs", "debug"}, change : BOOLEAN, recover : BOOLEAN]
            /\ UNCHANGED <<mode, status, cached, leased, request, todo, view>>
    <3>1. mode \in {"ocs", "debug"}
      BY DEF Inv, ServerTypeOK
    <3>2. CASE \E S \in Targets : Batch(S)
      BY <3>1, <3>2 DEF Batch, Keep
    <3>3. CASE \E source \in {"batch", "post"}, mapping \in Mappings :
                    Mapping(source, mapping)
      BY <3>1, <3>3 DEF Mapping, Keep
    <3>4. CASE \E source \in {"batch", "command"} : RecoverDeviceState(source)
      BY <3>1, <3>4 DEF RecoverDeviceState
    <3>5. CASE \E source \in {"batch", "command"}, m \in {"ocs", "debug"} : SetMode(source, m)
      BY <3>1, <3>5 DEF SetMode
    <3> QED
      BY <1>3, <3>2, <3>3, <3>4, <3>5
  <2>2. Sound(connections)' /\ Sound(draft)'
    <3>1. \/ \E S \in Targets : Edit(ConnectionSet(S))
          \/ \E mapping : Edit(FromPermutation(mapping))
          \/ UNCHANGED <<connections, draft>>
      BY <1>3 DEF Batch, Mapping, RecoverDeviceState, SetMode, ReplaceAll, ApplyPermutation
    <3>2. Sound(connections) /\ Sound(draft)
      BY DEF Inv
    <3> QED
      BY <3>1, <3>2, EditIsSound, SlotKeepsSound, TargetsAreSound
  <2>3. PICK source \in {"batch", "post", "command"} :
            /\ phase = "idle" /\ slot = "free" /\ phase' = source /\ slot' = "client"
            /\ target' \in [mode : {"ocs", "debug"}, change : BOOLEAN, recover : BOOLEAN]
            /\ UNCHANGED <<mode, status, cached, leased, request, todo, view>>
    BY <2>1 DEF Enter
  <2>4. ServerTypeOK'
    BY <2>3 DEF Inv, ServerTypeOK, Writes
  <2>5. Slots'
    BY <2>3 DEF Slots, Writes
  <2>6. Progress'
    BY <2>3, ProgressKept DEF Inv
  <2>7. Answers'
    BY <2>3 DEF Inv, Answers, AnswersAreSafeToWriteFrom
  <2> QED
    BY <2>2, <2>4, <2>5, <2>6, <2>7 DEF Inv
<1> QED
  BY <1>1, <1>2, <1>3

\* A request that ends without a commit: its draft is gone with it.
LEMMA LeaveKeepsInv ==
    ASSUME Inv, phase \in Writes, Leave, draft' = connections, connections' = connections,
           mode' = mode, leased' = leased, view' = view, cached' \in BOOLEAN, status' \in {"ready", "updating", "error"}
    PROVE  Inv'
<1>1. /\ phase' = "idle" /\ slot' = "free"
      /\ request' = NoRequest /\ todo' = <<>>
      /\ target' = [mode |-> "ocs", change |-> FALSE, recover |-> FALSE]
  BY DEF Leave, NoTarget
<1>2. ServerTypeOK'
  BY <1>1 DEF Inv, ServerTypeOK
<1>3. Sound(connections)' /\ Sound(draft)'
  BY SlotKeepsSound DEF Inv, Abandon
<1>4. Slots'
  BY <1>1 DEF Slots, Writes
<1>5. Progress'
  BY <1>1, ProgressKept DEF Inv
<1>6. Answers'
  BY <1>1 DEF Inv, Answers, AnswersAreSafeToWriteFrom, Writes
<1> QED
  BY <1>2, <1>3, <1>4, <1>5, <1>6 DEF Inv

\* A request that is answered: what is committed is what the draft was.
LEMMA AnswerKeepsInv ==
    ASSUME Inv, phase \in Writes, Answered(phase), connections' = draft, draft' = draft,
           mode' \in {"ocs", "debug"}, status' \in {"ready", "updating", "error"},
           cached' \in BOOLEAN, leased' = leased
    PROVE  Inv'
<1>1. /\ view' = IF phase = "set" THEN view
                 ELSE [source |-> phase, revision |-> phase # "batch",
                       config |-> phase \notin {"batch", "post"}]
      /\ slot' = "free"
      /\ phase' = IF phase \in {"batch", "post"} THEN "answer" ELSE "idle"
      /\ request' = NoRequest /\ todo' = <<>>
      /\ target' = [mode |-> "ocs", change |-> FALSE, recover |-> FALSE]
  BY DEF Answered, Know, NoTarget
<1>2. ServerTypeOK'
  BY <1>1 DEF Inv, ServerTypeOK, Writes
<1>3. Sound(connections)' /\ Sound(draft)'
  BY SlotKeepsSound DEF Inv, Commit
<1>4. Slots'
  BY <1>1 DEF Slots, Writes
<1>5. Progress'
  BY <1>1, ProgressKept DEF Inv
<1>6. Answers'
  <2>1. CASE phase = "set"
    BY <1>1, <2>1 DEF Inv, Answers, AnswersAreSafeToWriteFrom
  <2>2. CASE phase # "set"
    BY <1>1, <2>2 DEF Answers, AnswersAreSafeToWriteFrom, Writes
  <2> QED
    BY <2>1, <2>2
<1> QED
  BY <1>2, <1>3, <1>4, <1>5, <1>6 DEF Inv

\* A step that leaves the sets, the slot and the request alone.
LEMMA AsideKeepsInv ==
    ASSUME Inv, UNCHANGED <<connections, draft, slot, request, todo>>,
           phase' = phase \/ (phase \notin Writes /\ phase' \in {"idle", "read"}),
           ServerTypeOK', Answers'
    PROVE  Inv'
<1>1. phase \notin Writes => phase # "set"
  BY DEF Writes
<1>2. Slots'
  BY DEF Inv, Slots, Writes
<1>3. Progress'
  BY <1>1, ProgressKept DEF Inv
<1>4. Sound(connections)' /\ Sound(draft)'
  BY SlotKeepsSound DEF Inv
<1> QED
  BY <1>2, <1>3, <1>4 DEF Inv

\* The steps of the server.
LEMMA ServerKeepsInv == ASSUME Inv, ServerStep PROVE Inv'
<1>1. /\ ServerTypeOK /\ Slots /\ Progress /\ Answers
      /\ Sound(connections) /\ Sound(draft)
  BY DEF Inv
<1>2. CASE Operate
  <2>1. /\ phase = "set" /\ connections' = connections
        /\ \E result : Edit(result) /\ (result # Rejected => Sound(result))
        /\ \/ Leave /\ draft' = connections
           \/ /\ UNCHANGED <<phase, slot, request>>
              /\ \E k \in 0..Len(Operations(request)) : CarriedOut(k)'
    BY <1>1, <1>2, OperateCarries
  <2>2. UNCHANGED <<mode, status, cached, leased, view>>
    BY <1>2 DEF Operate
  <2>3. CASE Leave /\ draft' = connections
    BY <1>1, <2>1, <2>2, <2>3, LeaveKeepsInv DEF ServerTypeOK, Writes
  <2>4. CASE /\ UNCHANGED <<phase, slot, request>>
             /\ \E k \in 0..Len(Operations(request)) : CarriedOut(k)'
    <3>1. Sound(connections)' /\ Sound(draft)'
      BY <1>1, <2>1, EditIsSound
    <3>2. Slots'
      BY <1>1, <2>1, <2>4 DEF Slots, Writes
    <3>3. Progress'
      BY <1>1, <2>1, <2>4 DEF Progress
    <3>4. UNCHANGED target
      <4>1. phase' = "set"
        BY <2>1, <2>4
      <4> QED
        BY <1>2, <4>1 DEF Operate, Leave
    <3>5. ServerTypeOK'
      BY <1>1, <2>2, <2>4, <3>4 DEF ServerTypeOK
    <3>6. Answers'
      BY <1>1, <2>2, <2>4 DEF Answers, AnswersAreSafeToWriteFrom
    <3> QED
      BY <3>1, <3>2, <3>3, <3>5, <3>6 DEF Inv
  <2> QED
    BY <2>1, <2>3, <2>4
<1>3. CASE Refuse
  BY <1>1, <1>3, LeaveKeepsInv DEF Refuse, Edited, Abandon, ServerTypeOK
<1>4. CASE Confirm
  <2>1. draft = connections
    BY <1>4 DEF Confirm, Unchanged
  <2> QED
    BY <1>1, <1>4, <2>1, AnswerKeepsInv DEF Confirm, Edited, ServerTypeOK
<1>5. CASE Program
  <2>1. /\ status' = "updating"
        /\ UNCHANGED <<connections, draft, mode, cached, leased, slot, phase, request, todo, target, view>>
    BY <1>5 DEF Program
  <2>2. ServerTypeOK'
    BY <1>1, <2>1 DEF ServerTypeOK
  <2>3. Answers'
    BY <1>1, <2>1 DEF Answers, AnswersAreSafeToWriteFrom
  <2> QED
    BY <2>1, <2>2, <2>3, AsideKeepsInv
<1>6. CASE Committed
  <2>1. phase \in Writes /\ connections' = draft /\ draft' = draft
    BY <1>1, <1>6 DEF Committed, Programming, Commit, Slots
  <2>2. target.mode \in {"ocs", "debug"}
    BY <1>1 DEF ServerTypeOK
  <2> QED
    BY <1>6, <2>1, <2>2, AnswerKeepsInv DEF Committed
<1>7. CASE Failed
  <2>1. phase \in Writes
    BY <1>1, <1>7 DEF Failed, Programming, Slots
  <2> QED
    BY <1>7, <2>1, LeaveKeepsInv DEF Failed, Abandon
<1>8. CASE Answer
  <2>1. /\ phase = "answer" /\ phase' = "idle"
        /\ view' = IF view.source = "batch" THEN [view EXCEPT !.revision = TRUE, !.config = TRUE]
                   ELSE IF HasPairing THEN [view EXCEPT !.config = TRUE]
                   ELSE [source |-> "none", revision |-> FALSE, config |-> FALSE]
        /\ UNCHANGED <<connections, draft, mode, status, cached, leased, slot, request, todo, target>>
    BY <1>8 DEF Answer, Nothing
  <2>2. /\ view \in [source : Reads \cup Writes \cup {"none"},
                     revision : BOOLEAN, config : BOOLEAN]
    BY <1>1 DEF ServerTypeOK
  <2>3. ServerTypeOK'
    BY <1>1, <2>1, <2>2 DEF ServerTypeOK
  <2>4. Answers'
    BY <2>1, <2>2 DEF Answers, AnswersAreSafeToWriteFrom
  <2> QED
    BY <2>1, <2>3, <2>4, AsideKeepsInv DEF Writes
<1>9. CASE FinishRead
  <2>1. /\ phase = "read" /\ phase' = "idle"
        /\ view' = IF view.source = "mapping" /\ ~HasPairing
                   THEN [source |-> "none", revision |-> FALSE, config |-> FALSE]
                   ELSE IF view.source \in {"tree", "mapping"}
                   THEN [view EXCEPT !.config = TRUE]
                   ELSE [view EXCEPT !.revision = TRUE]
        /\ UNCHANGED <<connections, draft, mode, status, cached, leased, slot, request, todo, target>>
    BY <1>9 DEF FinishRead, Nothing, RevisionFirst
  <2>2. /\ view \in [source : Reads \cup Writes \cup {"none"},
                     revision : BOOLEAN, config : BOOLEAN]
    BY <1>1 DEF ServerTypeOK
  <2>3. view.source \in {"tree", "mapping", "permutation"}
    BY <1>1, <2>1 DEF Answers, Reads
  <2>4. ServerTypeOK'
    BY <1>1, <2>1, <2>2 DEF ServerTypeOK
  <2>5. Answers'
    BY <2>1, <2>2, <2>3 DEF Answers, AnswersAreSafeToWriteFrom
  <2> QED
    BY <2>1, <2>4, <2>5, AsideKeepsInv DEF Writes
<1> QED
  BY <1>2, <1>3, <1>4, <1>5, <1>6, <1>7, <1>8, <1>9 DEF ServerStep

\* Reads begin outside of the slot.
LEMMA ReadsKeepInv ==
    ASSUME Inv, ReadRuntime \/ \E source \in Reads \ {"runtime"} : StartRead(source)
    PROVE  Inv'
<1>1. /\ ServerTypeOK /\ Answers
      /\ \/ /\ phase' = phase
            /\ view' = [source |-> "runtime", revision |-> TRUE, config |-> TRUE]
         \/ /\ phase' = "read"
            /\ \E source \in Reads \ {"runtime"} :
                    view' = [source |-> source, revision |-> source \in {"tree", "mapping"},
                             config |-> source \notin {"tree", "mapping"}]
      /\ phase = "idle"
      /\ UNCHANGED <<connections, draft, mode, status, cached, leased, slot, request, todo, target>>
  BY DEF Inv, ReadRuntime, StartRead, RevisionFirst
<1>2. ServerTypeOK'
  <2>1. view' \in [source : Reads \cup Writes \cup {"none"}, revision : BOOLEAN, config : BOOLEAN]
    <3>1. ASSUME NEW source \in Reads,
                 view' = [source |-> source, revision |-> source \in {"tree", "mapping"},
                          config |-> source \notin {"tree", "mapping"}]
          PROVE  view' \in [source : Reads \cup Writes \cup {"none"},
                            revision : BOOLEAN, config : BOOLEAN]
      <4>1. source \in Reads \cup Writes \cup {"none"}
        OBVIOUS
      <4>2. CASE source \in {"tree", "mapping"}
        BY <3>1, <4>1, <4>2
      <4>3. CASE source \notin {"tree", "mapping"}
        BY <3>1, <4>1, <4>3
      <4> QED
        BY <4>2, <4>3
    <3>2. [source |-> "runtime", revision |-> TRUE, config |-> TRUE]
            \in [source : Reads \cup Writes \cup {"none"}, revision : BOOLEAN, config : BOOLEAN]
      BY DEF Reads
    <3> QED
      BY <1>1, <3>1, <3>2
  <2>2. phase' \in Writes \cup {"idle", "answer", "read"}
    BY <1>1
  <2> QED
    BY <1>1, <2>1, <2>2 DEF ServerTypeOK
<1>3. Answers'
  BY <1>1 DEF Answers, AnswersAreSafeToWriteFrom
<1> QED
  BY <1>1, <1>2, <1>3, AsideKeepsInv DEF Writes

\* What the client knows becomes outdated, never wrong.
LEMMA OutdatedIsSafe ==
    ASSUME ServerTypeOK, Answers, view' = Outdated, phase' = phase
    PROVE  /\ Answers'
           /\ view' \in [source : Reads \cup Writes \cup {"none"},
                         revision : BOOLEAN, config : BOOLEAN]
<1>1. view \in [source : Reads \cup Writes \cup {"none"}, revision : BOOLEAN, config : BOOLEAN]
  BY DEF ServerTypeOK
<1>2. view' = IF phase \in {"read", "answer"}
              THEN [view EXCEPT !.revision = FALSE, !.config = FALSE]
              ELSE [source |-> "none", revision |-> FALSE, config |-> FALSE]
  BY DEF Outdated, Nothing
<1>3. view' \in [source : Reads \cup Writes \cup {"none"}, revision : BOOLEAN, config : BOOLEAN]
  <2>1. CASE phase \in {"read", "answer"}
    BY <1>1, <1>2, <2>1
  <2>2. CASE phase \notin {"read", "answer"}
    BY <1>2, <2>2
  <2> QED
    BY <2>1, <2>2
<1>4. Answers'
  BY <1>1, <1>2 DEF Answers, AnswersAreSafeToWriteFrom
<1> QED
  BY <1>3, <1>4

\* The steps of the others.
LEMMA OthersKeepInv == ASSUME Inv, OtherStep PROVE Inv'
<1>1. /\ ServerTypeOK /\ Slots /\ Progress /\ Answers
      /\ Sound(connections) /\ Sound(draft)
  BY DEF Inv
<1>2. CASE ChangeControl \/ Reconcile
  <2>1. /\ status' \in {"ready", "updating", "error"}
        /\ cached' \in BOOLEAN /\ leased' \in BOOLEAN
        /\ UNCHANGED <<connections, draft, mode, slot, phase, request, todo, target, view>>
    BY <1>1, <1>2 DEF ChangeControl, Reconcile, ServerTypeOK
  <2>2. ServerTypeOK'
    BY <1>1, <2>1 DEF ServerTypeOK
  <2>3. Answers'
    BY <1>1, <2>1 DEF Answers, AnswersAreSafeToWriteFrom
  <2> QED
    BY <2>1, <2>2, <2>3, AsideKeepsInv
<1>3. CASE OtherMode \/ OtherRecover
  <2>1. /\ mode' \in {"ocs", "debug"} /\ status' \in {"ready", "updating", "error"}
        /\ cached' \in BOOLEAN
        /\ view' = Outdated
        /\ UNCHANGED <<connections, draft, leased, slot, phase, request, todo, target>>
    BY <1>1, <1>3 DEF OtherMode, OtherRecover, ServerTypeOK
  <2>2. Answers' /\ view' \in [source : Reads \cup Writes \cup {"none"},
                               revision : BOOLEAN, config : BOOLEAN]
    BY <1>1, <2>1, OutdatedIsSafe
  <2>3. ServerTypeOK'
    BY <1>1, <2>1, <2>2 DEF ServerTypeOK
  <2> QED
    BY <2>1, <2>2, <2>3, AsideKeepsInv
<1>4. CASE \E S \in Targets : OtherEdit(S)
  <2>1. /\ slot = "free" /\ slot' = "other"
        /\ UNCHANGED <<mode, status, cached, leased, phase, request, todo, target, view>>
    BY <1>4 DEF OtherEdit
  <2>2. Sound(connections)' /\ Sound(draft)'
    BY <1>1, <1>4, EditIsSound, TargetsAreSound DEF OtherEdit, ReplaceAll
  <2>3. phase # "set" /\ Slots'
    BY <1>1, <2>1 DEF Slots, Writes
  <2>4. Progress'
    BY <1>1, <2>1, <2>3, ProgressKept
  <2>5. ServerTypeOK'
    BY <1>1, <2>1 DEF ServerTypeOK
  <2>6. Answers'
    BY <1>1, <2>1 DEF Answers, AnswersAreSafeToWriteFrom
  <2> QED
    BY <2>2, <2>3, <2>4, <2>5, <2>6 DEF Inv
<1>5. CASE OtherCommit
  <2>1. /\ slot = "other" /\ slot' = "free" /\ view' = Outdated
        /\ connections' = draft /\ draft' = draft /\ status' = "ready" /\ cached' = TRUE
        /\ UNCHANGED <<mode, leased, phase, request, todo, target>>
    BY <1>5 DEF OtherCommit, Commit
  <2>2. Sound(connections)' /\ Sound(draft)'
    BY <1>1, <1>5, SlotKeepsSound DEF OtherCommit
  <2>3. phase # "set" /\ Slots'
    BY <1>1, <2>1 DEF Slots, Writes
  <2>4. Progress'
    BY <1>1, <2>1, <2>3, ProgressKept
  <2>5. Answers' /\ view' \in [source : Reads \cup Writes \cup {"none"},
                               revision : BOOLEAN, config : BOOLEAN]
    BY <1>1, <2>1, OutdatedIsSafe
  <2>6. ServerTypeOK'
    BY <1>1, <2>1, <2>5 DEF ServerTypeOK
  <2> QED
    BY <2>2, <2>3, <2>4, <2>5, <2>6 DEF Inv
<1> QED
  BY <1>2, <1>3, <1>4, <1>5 DEF OtherStep

----------------------------------------------------------------------------------
(* The theorems *)

\* What the interfaces rely on holds of every message, port count and set of names.
THEOREM ServerInvariance == ServerSpec => []Inv
<1>1. Boot => Inv
  BY BootsInOrder
<1>2. Inv /\ [Serve]_serverVars => Inv'
  <2> SUFFICES ASSUME Inv, [Serve]_serverVars PROVE Inv'
    OBVIOUS
  <2>1. CASE ClientStep
    BY <2>1, EntryKeepsInv, ReadsKeepInv DEF ClientStep
  <2>2. CASE ServerStep
    BY <2>2, ServerKeepsInv
  <2>3. CASE OtherStep
    BY <2>3, OthersKeepInv
  <2>4. CASE UNCHANGED serverVars
    <3>1. ServerTypeOK'
      BY <2>4 DEF Inv, ServerTypeOK, serverVars
    <3>2. Answers'
      BY <2>4 DEF Inv, Answers, AnswersAreSafeToWriteFrom, serverVars
    <3> QED
      BY <2>4, <3>1, <3>2, AsideKeepsInv DEF serverVars
  <2> QED
    BY <2>1, <2>2, <2>3, <2>4 DEF Serve
<1> QED
  BY <1>1, <1>2, PTL DEF ServerSpec

\* Type correctness of the interfaces.
THEOREM ServerTypeCorrect == ServerSpec => []ServerTypeOK
<1>1. Inv => ServerTypeOK
  BY DEF Inv
<1> QED
  BY <1>1, ServerInvariance, PTL

\* Whatever the interfaces are asked for, the connections stay a matching.
THEOREM ServerKeepsMatching == ServerSpec => []PairsFormMatching
<1>1. Inv => PairsFormMatching
  BY WellFormedIsMatching DEF Inv, Sound, PairsFormMatching
<1> QED
  BY <1>1, ServerInvariance, PTL

\* A Set that gets through its operations programs what it asks for, for every number
\* of deletes and replaces, of whatever connections.
THEOREM SetsAreLastWriterWins == ServerSpec => []SetIsLastWriterWins
<1>1. Inv => SetIsLastWriterWins
  <2> SUFFICES ASSUME Inv, request # NoRequest, todo = <<>>
               PROVE  draft = Outcome(connections, request)
    BY DEF SetIsLastWriterWins
  <2> DEFINE operations == Operations(request)
  <2>1. /\ request \in Sets /\ operations # Rejected
        /\ \E k \in 0..Len(operations) : CarriedOut(k)
    BY DEF Inv, Progress
  <2>2. PICK k \in 0..Len(operations) : CarriedOut(k)
    BY <2>1
  <2>3. /\ Len(todo) = Len(operations) - k
        /\ \A i \in 1..k : Valid(operations[i])
        /\ draft = After(connections, operations, k)
    BY <2>2 DEF CarriedOut
  <2>4. Len(operations) \in Nat
    <3> DEFINE d == Len(request.deletes)
               r == Len(request.replaces)
    <3>1. d \in Nat /\ r \in Nat
      BY <2>1, SetsAssumption
    <3>2. Len(operations) = d + r
      BY <2>1, OperationsTranslated
    <3> HIDE DEF operations, d, r
    <3> QED
      BY <3>1, <3>2
  <2>5. k = Len(operations)
    <3>1. Len(todo) = 0
      OBVIOUS
    <3> HIDE DEF operations
    <3> QED
      BY <2>3, <2>4, <3>1
  <2> QED
    BY <2>1, <2>3, <2>5, OutcomeIsAfter
<1> QED
  BY <1>1, ServerInvariance, PTL

\* An answer whose revision a client can write with holds the present connections.
THEOREM AnswersAreSafe == ServerSpec => []AnswersAreSafeToWriteFrom
<1>1. Inv => AnswersAreSafeToWriteFrom
  BY DEF Inv, Answers
<1> QED
  BY <1>1, ServerInvariance, PTL

----------------------------------------------------------------------------------
(* The permutation view *)

\* The names that gNMI clients choose do not matter to it.
LEMMA SoundIsPlaced == ASSUME NEW S, Sound(S) PROVE Placed(S) /\ WellFormed(S)
BY DEF Sound, Complete, Placed

\* Behind the northbound interfaces, too, exactly the matchings are accepted as a
\* mapping, and exactly the mapping that is read leaves the device as it is.
THEOREM ServerPermutationsExact ==
    RejectedIsNoValue => (ServerSpec => []PermutationsAreExact)
<1> SUFFICES ASSUME RejectedIsNoValue PROVE ServerSpec => []PermutationsAreExact
  OBVIOUS
<1>1. Inv => PermutationsAreExact
  BY ExactFor, SoundIsPlaced DEF Inv
<1> QED
  BY <1>1, ServerInvariance, PTL

\* GET /ocs_mapping followed by POST never changes the device.
THEOREM ServerRoundTrips ==
    RejectedIsNoValue => (ServerSpec => []PermutationRoundTrip)
<1> SUFFICES ASSUME RejectedIsNoValue PROVE ServerSpec => []PermutationRoundTrip
  OBVIOUS
<1>1. Inv => PermutationRoundTrip
  BY RoundTripFor, SoundIsPlaced DEF Inv
<1> QED
  BY <1>1, ServerInvariance, PTL

----------------------------------------------------------------------------------
(* The two trees *)

\* A connection takes two ports: a sound set covers them all exactly when the device
\* would say so by counting.
LEMMA FullByCounting ==
    ASSUME NEW S, Sound(S)
    PROVE  /\ IsFiniteSet(S)
           /\ 2 * Cardinality(S) = PortCount <=> Occupied(S) = Ports
<1> DEFINE near == [c \in S |-> c.near]
           far == [c \in S |-> c.far]
           N == {c.near : c \in S}
           F == {c.far : c \in S}
<1>1. IsFiniteSet(Ports) /\ Cardinality(Ports) = PortCount
  <2>1. 1 \in Int /\ PortCount \in Int /\ (IF 1 > PortCount THEN 0 ELSE PortCount - 1 + 1) = PortCount
    BY PortCountAssumption
  <2>2. /\ IsFiniteSet(1..PortCount)
        /\ Cardinality(1..PortCount) = IF 1 > PortCount THEN 0 ELSE PortCount - 1 + 1
    BY <2>1, FS_Interval
  <2> QED
    BY <2>1, <2>2 DEF Ports
<1>2. /\ \A c, d \in S : c.near = d.near => c = d
      /\ \A c, d \in S : c.far = d.far => c = d
      /\ \A c, d \in S : c.near # d.far
  BY DEF Sound, WellFormed, Ends
<1>3. N \in SUBSET Ports /\ F \in SUBSET Ports /\ Occupied(S) \in SUBSET Ports
  BY DEF Sound, Complete, Occupied, Ends
<1>4. Occupied(S) = N \cup F
  BY DEF Occupied, Ends
<1>5. N \cap F = {}
  BY <1>2
<1>6. near \in Injection(S, N) /\ near \in Surjection(S, N)
  BY <1>2 DEF Injection, Surjection, IsInjective
<1>7. far \in Injection(S, F) /\ far \in Surjection(S, F)
  BY <1>2 DEF Injection, Surjection, IsInjective
<1> HIDE DEF near, far, N, F
<1>8. IsFiniteSet(N) /\ IsFiniteSet(F)
  BY <1>1, <1>3, FS_Subset
<1>9. IsFiniteSet(S) /\ Cardinality(S) = Cardinality(N)
  BY <1>6, <1>8, FS_Injection
<1>10. Cardinality(S) = Cardinality(F)
  BY <1>7, <1>8, FS_Injection
<1>11. Cardinality(S) \in Nat /\ Cardinality(Occupied(S)) \in Nat
  BY <1>1, <1>3, <1>9, FS_CardinalityType, FS_Subset
<1>12. Cardinality(Occupied(S)) = 2 * Cardinality(S)
  <2>1. Cardinality(N \cup F) = Cardinality(N) + Cardinality(F) - Cardinality({})
    BY <1>5, <1>8, FS_Union
  <2>2. Cardinality({}) = 0
    BY FS_EmptySet
  <2> QED
    BY <1>4, <1>9, <1>10, <1>11, <2>1, <2>2
<1>13. Cardinality(Ports) = Cardinality(Occupied(S)) => Ports = Occupied(S)
  BY <1>1, <1>3, FS_Subset
<1> QED
  BY <1>1, <1>9, <1>12, <1>13

\* A port of a connection has one peer, the connection's other end.
LEMMA PeersAreEnds ==
    ASSUME NEW S, Sound(S), NEW port \in Ports
    PROVE  /\ Peers(S, port) = {IF c.near = port THEN c.far ELSE c.near :
                                    c \in {d \in S : port \in Ends(d)}}
           /\ Peers(S, port) # {} <=> port \in Occupied(S)
           /\ \A c \in S : /\ port = c.near => Peers(S, port) = {c.far}
                           /\ port = c.far => Peers(S, port) = {c.near}
<1>1. \A c \in S : c.near \in Ports /\ c.far \in Ports /\ c.near # c.far
  BY DEF Sound, Complete, WellFormed
<1>2. \A q : q \in Peers(S, port) <=> \E c \in S : \/ c.near = port /\ c.far = q
                                                   \/ c.far = port /\ c.near = q
  <2> SUFFICES ASSUME NEW q
               PROVE  q \in Peers(S, port) <=> \E c \in S : \/ c.near = port /\ c.far = q
                                                            \/ c.far = port /\ c.near = q
    OBVIOUS
  <2>1. <<port, q>> \in DirectedPairs(S) <=> \E c \in S : \/ c.near = port /\ c.far = q
                                                          \/ c.far = port /\ c.near = q
    BY DEF DirectedPairs
  <2> QED
    BY <1>1, <2>1 DEF Peers
<1>3. Peers(S, port) = {IF c.near = port THEN c.far ELSE c.near : c \in {d \in S : port \in Ends(d)}}
  BY <1>1, <1>2 DEF Ends
<1>4. Peers(S, port) # {} <=> port \in Occupied(S)
  BY <1>2 DEF Occupied, Ends
<1>5. \A c, d \in S : c # d => /\ c.near # d.near /\ c.near # d.far
                               /\ c.far # d.near /\ c.far # d.far
  BY DEF Sound, WellFormed, Ends
<1>6. ASSUME NEW c \in S
      PROVE  /\ port = c.near => Peers(S, port) = {c.far}
             /\ port = c.far => Peers(S, port) = {c.near}
  BY <1>1, <1>2, <1>5
<1> QED
  BY <1>3, <1>4, <1>6

\* The Go and the Python agent show the same tree and the same mapping for every
\* number of ports, though one counts connections and the other collects ports.
THEOREM TreesAlwaysAgree == ServerSpec => []TreesAgree
<1>1. Inv => TreesAgree
  <2> SUFFICES ASSUME Inv PROVE TreesAgree
    OBVIOUS
  <2> DEFINE S == connections
             peers(port) == {IF c.near = port THEN c.far ELSE c.near :
                                c \in {d \in S : port \in Ends(d)}}
             tuned == {port \in Ports : GoPort(S, port).status = "TUNED"}
  <2>1. Sound(S)
    BY DEF Inv
  <2>2. \A port \in Ports : GoPort(S, port) = PythonPort(S, port)
    <3> SUFFICES ASSUME NEW port \in Ports PROVE GoPort(S, port) = PythonPort(S, port)
      OBVIOUS
    <3>1. peers(port) = Peers(S, port)
      BY <2>1, PeersAreEnds
    <3> DEFINE portStatus == IF status = "error" THEN "FAILED"
                             ELSE IF mode # "ocs" THEN "BLOCKED"
                             ELSE IF Peers(S, port) = {} THEN "OFF" ELSE "TUNED"
    <3>2. PythonPort(S, port) = [peers |-> Peers(S, port), connected |-> portStatus = "TUNED",
                                 status |-> portStatus]
      BY <3>1 DEF PythonPort
    <3>3. CASE status = "error"
      <4>1. PythonPort(S, port) =
                [peers |-> Peers(S, port), connected |-> FALSE, status |-> "FAILED"]
        <5>1. portStatus = "FAILED"
          BY <3>3
        <5> HIDE DEF portStatus
        <5>2. (portStatus = "TUNED") = FALSE
          BY <5>1
        <5> QED
          BY <3>2, <5>1, <5>2
      <4>2. (Peers(S, port) # {} /\ status # "error" /\ mode = "ocs") = FALSE
        BY <3>3
      <4> QED
        BY <3>3, <4>1, <4>2 DEF GoPort
    <3>4. CASE status # "error" /\ mode # "ocs"
      <4>1. PythonPort(S, port) =
                [peers |-> Peers(S, port), connected |-> FALSE, status |-> "BLOCKED"]
        <5>1. portStatus = "BLOCKED"
          BY <3>4
        <5> HIDE DEF portStatus
        <5>2. (portStatus = "TUNED") = FALSE
          BY <5>1
        <5> QED
          BY <3>2, <5>1, <5>2
      <4>2. (Peers(S, port) # {} /\ status # "error" /\ mode = "ocs") = FALSE
        BY <3>4
      <4> QED
        BY <3>4, <4>1, <4>2 DEF GoPort
    <3>5. CASE status # "error" /\ mode = "ocs" /\ Peers(S, port) = {}
      BY <3>2, <3>5 DEF GoPort
    <3>6. CASE status # "error" /\ mode = "ocs" /\ Peers(S, port) # {}
      BY <3>2, <3>6 DEF GoPort
    <3> QED
      BY <3>3, <3>4, <3>5, <3>6
  <2>3. Permutation(S) = ToPermutation(S)
    BY <2>1, FullByCounting DEF Permutation, ToPermutation
  <2>4. \A port \in Ports : GoPort(S, port).status = "TUNED"
            <=> status # "error" /\ mode = "ocs" /\ port \in Occupied(S)
    BY <2>1, PeersAreEnds DEF GoPort
  <2>5. ConnectionStatus = "CONNECTED" <=> status # "error" /\ mode = "ocs"
    BY DEF ConnectionStatus
  <2>6. Occupied(S) \subseteq Ports
    BY <2>1 DEF Sound, Complete, Occupied, Ends
  <2>7. tuned = IF ConnectionStatus = "CONNECTED" THEN Occupied(S) ELSE {}
    BY <2>4, <2>5, <2>6
  <2>8. \A c \in S : /\ GoPort(S, c.near).peers = {c.far}
                     /\ GoPort(S, c.far).peers = {c.near}
    <3> SUFFICES ASSUME NEW c \in S
                 PROVE  Peers(S, c.near) = {c.far} /\ Peers(S, c.far) = {c.near}
      BY DEF GoPort
    <3>1. c.near \in Ports /\ c.far \in Ports
      BY <2>1 DEF Sound, Complete
    <3> QED
      BY <2>1, <3>1, PeersAreEnds
  <2> QED
    BY <2>2, <2>3, <2>7, <2>8 DEF TreesAgree
<1> QED
  BY <1>1, ServerInvariance, PTL

----------------------------------------------------------------------------------
(* Reading the configuration and writing it back *)

\* A missing key, a value of another type and a failed translation are none of the
\* values they are told from.
SentinelsAreNoValues ==
    /\ Absent # Malformed /\ TRUE # Malformed
    /\ \A c : Config(c) \notin {Absent, Malformed}
    /\ \A S, n : Malformed \notin [1..n -> S]
    /\ \A S : Sound(S) => S # Rejected
    /\ \A c : Complete(c) => c # Rejected
    /\ \A name, bidirectional, near, far :
            [name |-> name, bidirectional |-> bidirectional, near |-> near, far |-> far] # Rejected
    /\ \A kind, qualified, siblings, list :
            [kind |-> kind, qualified |-> qualified, siblings |-> siblings, list |-> list] # Rejected
    /\ \A kind, entry : [kind |-> kind, entry |-> entry] # Rejected
    /\ \A kind, name, connection :
            [kind |-> kind, name |-> name, connection |-> connection] # Rejected

\* The list of a sound set has each of its connections once.
LEMMA ListsAreComplete ==
    ASSUME NEW S, Sound(S)
    PROVE  /\ Cardinality(S) \in Nat
           /\ AsList(S) \in [1..Cardinality(S) -> S]
           /\ \A i, j \in 1..Cardinality(S) : i # j => AsList(S)[i] # AsList(S)[j]
           /\ \A c \in S : \E i \in 1..Cardinality(S) : AsList(S)[i] = c
<1> DEFINE n == Cardinality(S)
           Once(list) == \A i, j \in 1..n : i # j => list[i] # list[j]
<1>1. IsFiniteSet(S)
  BY FullByCounting
<1>2. n \in Nat /\ ExistsBijection(1..n, S)
  BY <1>1, FS_CardinalityType
<1> HIDE DEF n
<1>3. \E list \in [1..n -> S] : Once(list)
  <2>1. PICK f \in Bijection(1..n, S) : TRUE
    BY <1>2 DEF ExistsBijection
  <2>2. f \in [1..n -> S] /\ Once(f)
    BY <2>1 DEF Bijection, Injection, IsInjective
  <2> QED
    BY <2>2
<1>4. AsList(S) \in [1..n -> S] /\ Once(AsList(S))
  <2>1. AsList(S) = CHOOSE list \in [1..n -> S] : Once(list)
    BY DEF AsList, n
  <2> HIDE DEF Once
  <2> QED
    BY <1>3, <2>1
<1>5. AsList(S) \in Injection(1..n, S)
  BY <1>4 DEF Injection, IsInjective
<1>6. Cardinality(1..n) = n
  <2>1. 1 \in Int /\ n \in Int /\ (IF 1 > n THEN 0 ELSE n - 1 + 1) = n
    BY <1>2
  <2> QED
    BY <2>1, FS_Interval
<1>7. AsList(S) \in Surjection(1..n, S)
  BY <1>1, <1>5, <1>6, FS_Injection DEF n
<1> QED
  BY <1>2, <1>4, <1>7 DEF Surjection, n

\* An entry that was read with type CONFIG is a connection again, with its name in
\* the entry or in the path.
LEMMA EntriesRoundTrip ==
    ASSUME SentinelsAreNoValues, NEW c, Complete(c), NEW pathName \in {Absent, c.name}
    PROVE  LET entry == FilteredEntry(c, "CONFIG")
               container == [object |-> Config(c), config |-> Absent]
               read == [name |-> c.name, bidirectional |-> TRUE, near |-> c.near, far |-> c.far]
           IN  /\ ConnectionFromJSON(entry, pathName) = read
               /\ ConnectionFromJSON(container, pathName) = read
<1> DEFINE entry == FilteredEntry(c, "CONFIG")
           container == [object |-> Config(c), config |-> Absent]
           read == [name |-> c.name, bidirectional |-> TRUE, near |-> c.near, far |-> c.far]
<1>1. Config(c) # Absent /\ Config(c) # Malformed /\ Absent # Malformed /\ TRUE # Malformed
  BY DEF SentinelsAreNoValues
<1>2. /\ Config(c).name = c.name /\ Config(c).bidirectional = TRUE /\ Config(c).other = FALSE
      /\ Config(c).near = c.near /\ Config(c).far = c.far
  BY DEF Config
<1>3. c.name # Absent
  BY DEF Complete
<1>4. entry.config = Config(c) /\ ~entry.object.other
  BY DEF FilteredEntry
<1>5. container.config = Absent /\ container.object = Config(c) /\ ~container.object.other
  BY <1>2
<1> HIDE DEF entry, container
<1>6. ConnectionFromJSON(entry, pathName) = read
  BY <1>1, <1>2, <1>3, <1>4 DEF ConnectionFromJSON
<1>7. ConnectionFromJSON(container, pathName) = read
  BY <1>1, <1>2, <1>3, <1>5 DEF ConnectionFromJSON
<1> QED
  BY <1>6, <1>7 DEF entry, container

\* What was read of a connection is valid and the connection itself.
LEMMA ReadIsValid ==
    ASSUME NEW c, Complete(c), c.near # c.far
    PROVE  ValidateConnection([name |-> c.name, bidirectional |-> TRUE,
                               near |-> c.near, far |-> c.far]) = c
BY DEF ValidateConnection, Complete

\* A subtree that was read with type CONFIG is the connections again; with another
\* type its first entry is refused.
LEMMA SubtreesRoundTrip ==
    ASSUME SentinelsAreNoValues, NEW S, Sound(S), NEW qualified \in BOOLEAN
    PROVE  /\ ConnectionSetFromJSON(SubtreeValue(S, "CONFIG", qualified)) = S
           /\ S # {} => ConnectionSetFromJSON(SubtreeValue(S, "ALL", qualified)) = Rejected
<1> DEFINE n == Cardinality(S)
           Value(type) == SubtreeValue(S, type, qualified)
           At(type) == [i \in 1..n |-> FilteredEntry(AsList(S)[i], type)]
           Read(type) == [i \in 1..n |-> ConnectionFromJSON(At(type)[i], Absent)]
<1>1. /\ n \in Nat
      /\ \A i \in 1..n : AsList(S)[i] \in S
      /\ \A i, j \in 1..n : i # j => AsList(S)[i] # AsList(S)[j]
      /\ \A c \in S : \E i \in 1..n : AsList(S)[i] = c
  BY ListsAreComplete
<1> HIDE DEF n
<1>2. ASSUME NEW type
      PROVE  ConnectionSetFromJSON(Value(type)) =
                IF \E i \in 1..n : Read(type)[i] = Rejected
                THEN Rejected ELSE NewConnectionSet(Read(type))
  <2>1. /\ Value(type).kind = "subtree" /\ Value(type).list = At(type)
        /\ Value(type).siblings = qualified /\ Value(type).qualified = qualified
    BY DEF SubtreeValue, n
  <2>2. At(type) \in [1..n -> {At(type)[i] : i \in 1..n}]
    OBVIOUS
  <2>3. Value(type).list # Malformed
    <3> HIDE DEF Value, At
    <3> QED
      BY <2>1, <2>2 DEF SentinelsAreNoValues
  <2>4. Len(At(type)) = n /\ Len(Read(type)) = n
    BY <1>1
  <2> HIDE DEF Value
  <2> QED
    BY <2>1, <2>3, <2>4 DEF ConnectionSetFromJSON
<1>3. ASSUME NEW i \in 1..n
      PROVE  /\ Read("CONFIG")[i] # Rejected
             /\ Read("CONFIG")[i].name = AsList(S)[i].name
             /\ ValidateConnection(Read("CONFIG")[i]) = AsList(S)[i]
             /\ ValidateConnection(Read("CONFIG")[i]) # Rejected
  <2> DEFINE c == AsList(S)[i]
  <2>1. c \in S /\ Complete(c) /\ c.near # c.far
    BY <1>1 DEF Sound, WellFormed
  <2>2. Read("CONFIG")[i] = ConnectionFromJSON(FilteredEntry(c, "CONFIG"), Absent)
    OBVIOUS
  <2> HIDE DEF c, Read
  <2>3. Read("CONFIG")[i] = [name |-> c.name, bidirectional |-> TRUE, near |-> c.near, far |-> c.far]
    BY <2>1, <2>2, EntriesRoundTrip
  <2>4. ValidateConnection(Read("CONFIG")[i]) = c
    BY <2>1, <2>3, ReadIsValid
  <2>5. c # Rejected /\ Read("CONFIG")[i] # Rejected
    BY <2>1, <2>3 DEF SentinelsAreNoValues
  <2> QED
    BY <2>3, <2>4, <2>5 DEF c
<1>4. ConnectionSetFromJSON(Value("CONFIG")) = S
  <2> DEFINE list == Read("CONFIG")
             valid == [i \in 1..Len(list) |-> ValidateConnection(list[i])]
  <2>1. Len(list) = n
    BY <1>1
  <2>2. \A i \in 1..n : valid[i] = AsList(S)[i] /\ valid[i] # Rejected
    BY <1>3, <2>1
  <2>3. {valid[i] : i \in 1..Len(list)} = S
    BY <1>1, <2>1, <2>2
  <2>4. \A i, j \in 1..n : i # j => list[i].name # list[j].name
    BY <1>1, <1>3 DEF Sound, WellFormed
  <2>5. ConnectionSet(S) = S
    BY DEF ConnectionSet, Sound
  <2>6. NewConnectionSet(list) = ConnectionSet({valid[i] : i \in 1..Len(list)})
    <3> HIDE DEF list
    <3> QED
      BY <2>1, <2>2, <2>4 DEF NewConnectionSet
  <2>7. ConnectionSetFromJSON(Value("CONFIG")) = NewConnectionSet(list)
    BY <1>2, <1>3
  <2> HIDE DEF list, valid
  <2> QED
    BY <2>3, <2>5, <2>6, <2>7
<1>5. ASSUME S # {} PROVE ConnectionSetFromJSON(Value("ALL")) = Rejected
  <2>1. PICK i \in 1..n : TRUE
    BY <1>1, <1>5
  <2>2. ConnectionFromJSON(FilteredEntry(AsList(S)[i], "ALL"), Absent) = Rejected
    BY DEF ConnectionFromJSON, FilteredEntry
  <2>3. Read("ALL")[i] = Rejected
    BY <2>2
  <2> HIDE DEF Read
  <2> QED
    BY <1>2, <2>3
<1> QED
  BY <1>4, <1>5

\* The paths to the subtree, its list, an entry and its config container: what they
\* are made of, and that a request without a prefix asks for them.
LEMMA PathsNamed ==
    ASSUME NEW name
    PROVE  LET root == Element("optical-switch-connections")
               entry == Keyed("port-connection", name)
           IN  /\ NormalizedNames(<<>>) = <<>>
               /\ NormalizedNames(<<root>>) = Subtree
               /\ NormalizedNames(<<root, Element("port-connection")>>) = ListPath
               /\ NormalizedNames(<<root, entry>>) = ListPath
               /\ NormalizedNames(<<root, entry, Element("config")>>) = Append(ListPath, "config")
<1> DEFINE root == Element("optical-switch-connections")
           entry == Keyed("port-connection", name)
<1>1. /\ root.name = "optical-switch-connections" /\ entry.name = "port-connection"
      /\ Element("port-connection").name = "port-connection"
      /\ Element("config").name = "config"
  BY DEF Element, Keyed
<1> HIDE DEF root, entry
<1>2. NormalizedNames(<<>>) = <<>>
  BY DEF NormalizedNames
<1>3. NormalizedNames(<<root>>) = Subtree
  BY <1>1 DEF NormalizedNames, Subtree
<1>4. NormalizedNames(<<root, Element("port-connection")>>) = ListPath
  BY <1>1 DEF NormalizedNames, ListPath
<1>5. NormalizedNames(<<root, entry>>) = ListPath
  BY <1>1 DEF NormalizedNames, ListPath
<1>6. NormalizedNames(<<root, entry, Element("config")>>) = Append(ListPath, "config")
  BY <1>1 DEF NormalizedNames, ListPath
<1> QED
  BY <1>2, <1>3, <1>4, <1>5, <1>6 DEF root, entry

\* The key that such a path holds.
LEMMA PathsKeyed ==
    ASSUME NEW name
    PROVE  LET root == Element("optical-switch-connections")
               entry == Keyed("port-connection", name)
           IN  /\ ConnectionNameFromPath(<<root, Element("port-connection")>>) = Absent
               /\ ConnectionNameFromPath(<<root, entry>>) = name
               /\ ConnectionNameFromPath(<<root, entry, Element("config")>>) = name
<1> DEFINE root == Element("optical-switch-connections")
           Found(path) == {i \in 1..Len(path) : path[i].name = "port-connection"}
<1>1. ASSUME NEW path, Len(path) \in Nat, 2 \in 1..Len(path),
             path[1] = root, path[2].name = "port-connection"
      PROVE  ConnectionNameFromPath(path) = path[2].key
  <2>1. 2 \in Found(path) /\ 1 \notin Found(path)
    BY <1>1 DEF Element
  <2>2. \A i \in Found(path) : 2 <= i
    BY <1>1, <2>1
  <2>3. ConnectionNameFromPath(path) =
            IF Found(path) = {} THEN Absent
            ELSE path[CHOOSE i \in Found(path) : \A j \in Found(path) : i <= j].key
    BY DEF ConnectionNameFromPath
  <2>4. \A i \in Found(path) : i \in Nat
    BY <1>1
  <2> HIDE DEF Found
  <2>5. (CHOOSE i \in Found(path) : \A j \in Found(path) : i <= j) = 2
    BY <2>1, <2>2, <2>4
  <2> QED
    BY <2>1, <2>3, <2>5
<1>2. ConnectionNameFromPath(<<root, Element("port-connection")>>) = Absent
  BY <1>1 DEF Element
<1>3. ConnectionNameFromPath(<<root, Keyed("port-connection", name)>>) = name
  BY <1>1 DEF Keyed
<1>4. ConnectionNameFromPath(<<root, Keyed("port-connection", name), Element("config")>>) = name
  BY <1>1 DEF Keyed
<1> QED
  BY <1>2, <1>3, <1>4

\* The four shapes of a path differ.
LEMMA PathsDiffer ==
    /\ <<>> # Subtree /\ <<>> # ListPath /\ <<>> # Append(ListPath, "config")
    /\ Subtree # ListPath /\ Subtree # Append(ListPath, "config")
    /\ ListPath # Append(ListPath, "config")
BY DEF Subtree, ListPath

\* A request for one path is answered with what is found there.
LEMMA OnePathAnswered ==
    ASSUME NEW S, NEW T, NEW path \in Seq(T), NEW type,
           SelectTree(S, path, type) # Rejected
    PROVE  Get(<<S>>, [prefix |-> <<>>, paths |-> <<path>>, type |-> type,
                   unsupported |-> FALSE])[1] = SelectTree(S, path, type)
<1> DEFINE asked == [prefix |-> <<>>, paths |-> <<path>>, type |-> type, unsupported |-> FALSE]
<1>1. JoinPath(<<>>, path) = path
  BY ConcatEmptySeq DEF JoinPath
<1>2. /\ asked.paths # <<>> /\ Len(asked.paths) = 1 /\ asked.paths[1] = path
      /\ asked.prefix = <<>> /\ asked.type = type /\ ~asked.unsupported
  OBVIOUS
<1> HIDE DEF asked
<1>3. Get(<<S>>, asked) = [i \in 1..1 |-> SelectTree(S, path, type)]
  BY <1>1, <1>2 DEF Get
<1> QED
  BY <1>3 DEF asked

\* A path of two elements with a third behind it.
LEMMA LongerByOne == ASSUME NEW a, NEW b, NEW e PROVE <<a, b>> \o <<e>> = <<a, b, e>>
<1> DEFINE T == {a, b, e}
<1>1. <<a, b>> \in Seq(T) /\ <<e>> \in Seq(T) /\ <<a, b, e>> \in Seq(T)
  OBVIOUS
<1>2. /\ <<a, b>> \o <<e>> \in Seq(T)
      /\ Len(<<a, b>> \o <<e>>) = 3
      /\ \A i \in 1..3 : (<<a, b>> \o <<e>>)[i] = IF i <= 2 THEN <<a, b>>[i] ELSE <<e>>[i - 2]
  BY <1>1, ConcatProperties
<1>3. \A i \in 1..3 : (<<a, b>> \o <<e>>)[i] = <<a, b, e>>[i]
  BY <1>2
<1> QED
  BY <1>1, <1>2, <1>3, SeqEqual

\* Three paths lead to the whole subtree.
LEMMA SubtreesSelected ==
    ASSUME NEW S, NEW type, NEW path,
           LET root == Element("optical-switch-connections")
           IN  path \in {<<>>, <<root>>, <<root, Element("port-connection")>>}
    PROVE  \E qualified \in BOOLEAN : SelectTree(S, path, type) = SubtreeValue(S, type, qualified)
<1> DEFINE names == NormalizedNames(path)
<1>1. \/ names = <<>>
      \/ names = Subtree
      \/ names = ListPath /\ ConnectionNameFromPath(path) = Absent
  BY PathsNamed, PathsKeyed
<1> HIDE DEF names
<1>2. CASE names = <<>>
  <2>1. SelectTree(S, path, type) = SubtreeValue(S, type, TRUE)
    BY <1>2, PathsDiffer DEF SelectTree, names
  <2> QED
    BY <2>1
<1>3. CASE names = Subtree \/ (names = ListPath /\ ConnectionNameFromPath(path) = Absent)
  <2>1. SelectTree(S, path, type) = SubtreeValue(S, type, FALSE)
    BY <1>3, PathsDiffer DEF SelectTree, names
  <2> QED
    BY <2>1
<1> QED
  BY <1>1, <1>2, <1>3

\* A path with the name of a connection leads to its entry or its config container.
LEMMA EntriesSelected ==
    ASSUME NEW S, Sound(S), NEW c \in S
    PROVE  LET path == <<Element("optical-switch-connections"), Keyed("port-connection", c.name)>>
               config == <<Element("optical-switch-connections"), Keyed("port-connection", c.name),
                           Element("config")>>
           IN  /\ SelectTree(S, path, "CONFIG") =
                    [kind |-> "connection", entry |-> FilteredEntry(c, "CONFIG")]
               /\ SelectTree(S, config, "CONFIG") =
                    [kind |-> "connection", entry |-> [object |-> Config(c), config |-> Absent]]
<1> DEFINE path == <<Element("optical-switch-connections"), Keyed("port-connection", c.name)>>
           config == <<Element("optical-switch-connections"), Keyed("port-connection", c.name),
                       Element("config")>>
<1>1. (CHOOSE d \in S : d.name = c.name) = c /\ \E d \in S : d.name = c.name
  BY DEF Sound, WellFormed
<1>2. c.name # Absent
  BY DEF Sound, Complete
<1>3. /\ NormalizedNames(path) = ListPath /\ ConnectionNameFromPath(path) = c.name
      /\ NormalizedNames(config) = Append(ListPath, "config")
      /\ ConnectionNameFromPath(config) = c.name
  BY PathsNamed, PathsKeyed
<1> HIDE DEF path, config
<1>4. SelectTree(S, path, "CONFIG") =
          [kind |-> "connection", entry |-> FilteredEntry(c, "CONFIG")]
  BY <1>1, <1>2, <1>3, PathsDiffer DEF SelectTree
<1>5. SelectTree(S, config, "CONFIG") =
          [kind |-> "connection", entry |-> [object |-> Config(c), config |-> Absent]]
  BY <1>1, <1>2, <1>3, PathsDiffer DEF SelectTree
<1> QED
  BY <1>4, <1>5 DEF path, config

\* What a client reads of sound connections it can send back.
LEMMA SoundRoundTrips ==
    ASSUME SentinelsAreNoValues, Sound(connections)
    PROVE  ConfigRoundTrip
<1> DEFINE S == connections
           root == Element("optical-switch-connections")
           Read(path, type) ==
               Get(<<S>>, [prefix |-> <<>>, paths |-> path, type |-> type, unsupported |-> FALSE])
<1>1. S # Rejected
  BY DEF SentinelsAreNoValues
<1>2. NormalizedNames(<<root>>) = Subtree
  BY PathsNamed
<1>3. ASSUME NEW type, NEW path \in {<<>>, <<root>>, <<root, Element("port-connection")>>}
      PROVE  \E qualified \in BOOLEAN : Read(<<path>>, type)[1] = SubtreeValue(S, type, qualified)
  <2>1. PICK qualified \in BOOLEAN : SelectTree(S, path, type) = SubtreeValue(S, type, qualified)
    BY SubtreesSelected
  <2>2. SubtreeValue(S, type, qualified) # Rejected
    BY DEF SentinelsAreNoValues, SubtreeValue
  <2>3. path \in Seq({root, Element("port-connection")})
    <3> HIDE DEF root
    <3>1. <<>> \in Seq({root, Element("port-connection")})
      OBVIOUS
    <3>2. <<root>> \in Seq({root, Element("port-connection")})
      OBVIOUS
    <3>3. <<root, Element("port-connection")>> \in Seq({root, Element("port-connection")})
      OBVIOUS
    <3> QED
      BY <1>3, <3>1, <3>2, <3>3
  <2>4. Read(<<path>>, type)[1] = SelectTree(S, path, type)
    BY <2>1, <2>2, <2>3, OnePathAnswered
  <2> QED
    BY <2>1, <2>4
<1>4. ASSUME NEW path \in {<<>>, <<root>>, <<root, Element("port-connection")>>}
      PROVE  ReplaceOperation(<<root>>, Read(<<path>>, "CONFIG")[1]) = [kind |-> "replace_all", all |-> S]
  <2>1. PICK qualified \in BOOLEAN : Read(<<path>>, "CONFIG")[1] = SubtreeValue(S, "CONFIG", qualified)
    BY <1>3
  <2>2. ConnectionSetFromJSON(SubtreeValue(S, "CONFIG", qualified)) = S
    BY SubtreesRoundTrip
  <2> HIDE DEF Read, root, S
  <2> QED
    BY <1>1, <1>2, <2>1, <2>2 DEF ReplaceOperation
<1>5. ASSUME NEW c \in S, NEW rest \in {<<>>, <<Element("config")>>}
      PROVE  LET path == <<root, Keyed("port-connection", c.name)>>
                 operation == ReplaceOperation(path, Read(<<path \o rest>>, "CONFIG")[1])
             IN  operation # Rejected /\ ValidateConnection(operation.connection) = c
  <2> DEFINE path == <<root, Keyed("port-connection", c.name)>>
             config == <<root, Keyed("port-connection", c.name), Element("config")>>
             value == Read(<<path \o rest>>, "CONFIG")[1]
             read == [name |-> c.name, bidirectional |-> TRUE, near |-> c.near, far |-> c.far]
             T == {root, Keyed("port-connection", c.name), Element("config")}
  <2>1. Complete(c) /\ c.near # c.far /\ c.name # Absent
    BY DEF Sound, WellFormed, Complete
  <2>2. path \o rest \in {path, config}
    <3>1. path \in Seq({root, Keyed("port-connection", c.name)})
      OBVIOUS
    <3>2. path \o <<>> = path
      BY <3>1, ConcatEmptySeq
    <3>3. path \o <<Element("config")>> = config
      BY LongerByOne
    <3> QED
      BY <3>2, <3>3
  <2>3. path \in Seq(T) /\ config \in Seq(T)
    OBVIOUS
  <2>4. /\ SelectTree(S, path, "CONFIG") =
                [kind |-> "connection", entry |-> FilteredEntry(c, "CONFIG")]
        /\ SelectTree(S, config, "CONFIG") =
                [kind |-> "connection", entry |-> [object |-> Config(c), config |-> Absent]]
    BY EntriesSelected
  <2>5. SelectTree(S, path, "CONFIG") # Rejected /\ SelectTree(S, config, "CONFIG") # Rejected
    BY <2>4 DEF SentinelsAreNoValues
  <2>6. /\ Read(<<path>>, "CONFIG")[1] = SelectTree(S, path, "CONFIG")
        /\ Read(<<config>>, "CONFIG")[1] = SelectTree(S, config, "CONFIG")
    BY <2>3, <2>5, OnePathAnswered
  <2>7. value.kind = "connection" /\ ConnectionFromJSON(value.entry, c.name) = read
    <3>1. /\ ConnectionFromJSON(FilteredEntry(c, "CONFIG"), c.name) = read
          /\ ConnectionFromJSON([object |-> Config(c), config |-> Absent], c.name) = read
      BY <2>1, EntriesRoundTrip
    <3>2. \/ value = [kind |-> "connection", entry |-> FilteredEntry(c, "CONFIG")]
          \/ value = [kind |-> "connection", entry |-> [object |-> Config(c), config |-> Absent]]
      BY <2>2, <2>4, <2>6
    <3> HIDE DEF value, read
    <3> QED
      BY <3>1, <3>2
  <2>8. NormalizedNames(path) = ListPath /\ ConnectionNameFromPath(path) = c.name
    BY PathsNamed, PathsKeyed
  <2>9. read # Rejected /\ ValidateConnection(read) = c
    BY <2>1, ReadIsValid DEF SentinelsAreNoValues
  <2> HIDE DEF value, path, read
  <2>10. ReplaceOperation(path, value) =
            [kind |-> "replace", name |-> c.name, connection |-> read]
    BY <2>1, <2>7, <2>8, <2>9, PathsDiffer DEF ReplaceOperation
  <2>11. ReplaceOperation(path, value) # Rejected
    BY <2>10 DEF SentinelsAreNoValues
  <2>12. ValidateConnection(ReplaceOperation(path, value).connection) = c
    BY <2>9, <2>10
  <2> QED
    BY <2>11, <2>12 DEF value, path
<1>6. ASSUME S # {} PROVE ReplaceOperation(<<root>>, Read(<<<<root>>>>, "ALL")[1]) = Rejected
  <2>1. PICK qualified \in BOOLEAN : Read(<<<<root>>>>, "ALL")[1] = SubtreeValue(S, "ALL", qualified)
    BY <1>3
  <2>2. ConnectionSetFromJSON(SubtreeValue(S, "ALL", qualified)) = Rejected
    BY <1>6, SubtreesRoundTrip
  <2> HIDE DEF Read, root, S
  <2> QED
    BY <1>2, <2>1, <2>2, PathsDiffer DEF ReplaceOperation
<1> HIDE DEF Read
<1> QED
  BY <1>4, <1>5, <1>6 DEF ConfigRoundTrip, Read

\* For every number of connections and whatever their names, what a gNMI client reads
\* as configuration it can write back, and what it reads with the state it cannot.
THEOREM ConfigurationsRoundTrip ==
    SentinelsAreNoValues => (ServerSpec => []ConfigRoundTrip)
<1> SUFFICES ASSUME SentinelsAreNoValues PROVE ServerSpec => []ConfigRoundTrip
  OBVIOUS
<1>1. Inv => ConfigRoundTrip
  BY SoundRoundTrips DEF Inv
<1> QED
  BY <1>1, ServerInvariance, PTL
================================================================================
