------------------------------ MODULE GnmiRequests ------------------------------
(***************************************************************************)
(* agent/go/internal/server/gnmi.go: how a gNMI Set becomes a list of      *)
(* operations on the connections and what a gNMI Get answers.              *)
(*                                                                         *)
(* A path is a sequence of elements [name, key] whose names carry no       *)
(* module prefix any more.  A JSON object that describes a connection is   *)
(* the record of its four fields, Absent where a key is missing, with      *)
(* "other" saying that it has a further key; a list entry may nest a       *)
(* config object in it.  What cannot be translated is Rejected.            *)
(***************************************************************************)
EXTENDS ConnectionModel, Sequences

CONSTANTS
    Absent,     \* a key that is missing
    Malformed   \* a JSON value of another type than the code asks for

\* A connection has a name.
ASSUME AbsentAssumption == Absent \notin AllNames

Element(name) == [name |-> name, key |-> Absent]
Keyed(name, key) == [name |-> name, key |-> key]

Subtree == <<"optical-switch-connections">>
ListPath == <<"optical-switch-connections", "port-connection">>

JoinPath(prefix, path) == prefix \o path

NormalizedNames(path) == [i \in 1..Len(path) |-> path[i].name]

\* The key of the first port-connection element.
ConnectionNameFromPath(path) ==
    LET found == {i \in 1..Len(path) : path[i].name = "port-connection"}
    IN  IF found = {} THEN Absent
        ELSE path[CHOOSE i \in found : \A j \in found : i <= j].key

----------------------------------------------------------------------------------
(* Writes *)

\* The name of the entry, if it has one, must be the one in the path.
ConnectionFromJSON(entry, pathName) ==
    LET body == IF entry.config = Absent THEN entry.object ELSE entry.config
        name == IF body.name = Absent THEN entry.object.name ELSE body.name
    IN  IF \/ entry.object.other
           \/ entry.config = Malformed
           \/ body.other
           \/ pathName # Absent /\ name \notin {Absent, pathName}
           \/ body.bidirectional = Malformed
        THEN Rejected
        ELSE [name |-> IF pathName = Absent THEN name ELSE pathName,
              bidirectional |-> body.bidirectional # FALSE,
              near |-> body.near, far |-> body.far]

\* Every field is required, and a connection has two directions.
ValidateConnection(c) ==
    IF /\ c.name # Absent /\ c.bidirectional
       /\ c.near \in Ports /\ c.far \in Ports /\ c.near # c.far
    THEN [name |-> c.name, near |-> c.near, far |-> c.far]
    ELSE Rejected

\* A list may repeat an entry; a set could not say so.
NewConnectionSet(list) ==
    LET valid == [i \in 1..Len(list) |-> ValidateConnection(list[i])]
    IN  IF \/ \E i \in 1..Len(list) : valid[i] = Rejected
           \/ \E i, j \in 1..Len(list) : i # j /\ list[i].name = list[j].name
        THEN Rejected
        ELSE ConnectionSet({valid[i] : i \in 1..Len(list)})

\* The subtree may come in its qualified name, whose siblings are then ignored.
ConnectionSetFromJSON(value) ==
    IF \/ value.kind # "subtree"
       \/ value.siblings /\ ~value.qualified
       \/ value.list = Malformed
    THEN Rejected
    ELSE LET list == [i \in 1..Len(value.list) |-> ConnectionFromJSON(value.list[i], Absent)]
         IN  IF \E i \in 1..Len(list) : list[i] = Rejected
             THEN Rejected
             ELSE NewConnectionSet(list)

DeleteOperation(path) ==
    IF NormalizedNames(path) = ListPath /\ ConnectionNameFromPath(path) # Absent
    THEN [kind |-> "delete", name |-> ConnectionNameFromPath(path)]
    ELSE Rejected

\* The connection itself is validated later, when the operation is carried out.
ReplaceOperation(path, value) ==
    LET names == NormalizedNames(path)
        name == ConnectionNameFromPath(path)
        all == ConnectionSetFromJSON(value)
    IN  IF names = Subtree /\ all # Rejected
        THEN [kind |-> "replace_all", all |-> all]
        ELSE IF /\ names = ListPath /\ name # Absent
                /\ value.kind = "connection"
                /\ ConnectionFromJSON(value.entry, name) # Rejected
             THEN [kind |-> "replace", name |-> name,
                   connection |-> ConnectionFromJSON(value.entry, name)]
             ELSE Rejected

Deletes(set) ==
    [i \in 1..Len(set.deletes) |-> DeleteOperation(JoinPath(set.prefix, set.deletes[i]))]

Replaces(set) ==
    [i \in 1..Len(set.replaces) |->
        ReplaceOperation(JoinPath(set.prefix, set.replaces[i].path), set.replaces[i].value)]

\* bug: the replaces are carried out before the deletes
ReplacesFirst(set) ==
    LET operations == Replaces(set) \o Deletes(set)
    IN  IF \/ set.extension \/ set.update
           \/ operations = <<>>
           \/ \E i \in 1..Len(operations) : operations[i] = Rejected
        THEN Rejected
        ELSE operations

\* Deletes come first, then replaces, in the order of the request.
Operations(set) ==
    LET operations == Deletes(set) \o Replaces(set)
    IN  IF \/ set.extension \/ set.update
           \/ operations = <<>>
           \/ \E i \in 1..Len(operations) : operations[i] = Rejected
        THEN Rejected
        ELSE operations

----------------------------------------------------------------------------------
(* Reads *)

Config(c) ==
    [name |-> c.name, bidirectional |-> TRUE, near |-> c.near, far |-> c.far, other |-> FALSE]

\* bug: the type of the request is ignored
FilterNothing(c, type) ==
    [object |-> [name |-> c.name, bidirectional |-> Absent,
                 near |-> Absent, far |-> Absent, other |-> TRUE],
     config |-> Config(c)]

\* An entry of the list: CONFIG leaves the state container out, STATE the config.
FilteredEntry(c, type) ==
    [object |-> [name |-> c.name, bidirectional |-> Absent,
                 near |-> Absent, far |-> Absent, other |-> type # "CONFIG"],
     config |-> IF type = "STATE" THEN Absent ELSE Config(c)]

\* The entries in the order of their names, of which only that it is one matters.
AsList(S) == CHOOSE list \in [1..Cardinality(S) -> S] :
                \A i, j \in 1..Cardinality(S) : i # j => list[i] # list[j]

SubtreeValue(S, type, qualified) ==
    [kind |-> "subtree", qualified |-> qualified, siblings |-> qualified,
     list |-> LET list == AsList(S)
              IN  [i \in 1..Cardinality(S) |-> FilteredEntry(list[i], type)]]

\* The root, the subtree, its list, an entry or the config container of an entry, from
\* which the type of the request takes nothing away: it filters what is below.
SelectTree(S, path, type) ==
    LET names == NormalizedNames(path)
        requested == ConnectionNameFromPath(path)
        entry == CHOOSE c \in S : c.name = requested
        found == \E c \in S : c.name = requested
    IN  CASE names = <<>> -> SubtreeValue(S, type, TRUE)
          [] names = Subtree \/ (names = ListPath /\ requested = Absent) ->
                SubtreeValue(S, type, FALSE)
          [] names = ListPath /\ requested # Absent /\ found ->
                [kind |-> "connection", entry |-> FilteredEntry(entry, type)]
          [] names = Append(ListPath, "config") /\ found ->
                [kind |-> "connection",
                 entry |-> [object |-> Config(entry), config |-> Absent]]
          [] OTHER -> Rejected

\* Every path of the request is looked up in a snapshot of its own; no path is the root.
Get(snapshots, request) ==
    LET paths == IF request.paths = <<>> THEN <<<<>>>> ELSE request.paths
        answers == [i \in 1..Len(paths) |->
                        SelectTree(snapshots[i], JoinPath(request.prefix, paths[i]), request.type)]
    IN  IF request.unsupported \/ \E i \in 1..Len(paths) : answers[i] = Rejected
        THEN Rejected
        ELSE answers
==================================================================================
