----------------------------- MODULE MC_Northbound -----------------------------
\* Instance of Northbound: four ports, two names a client may choose, one of them
\* the name from_permutation gives to the connection of ports 1 and 2.
EXTENDS Northbound

CONSTANT link

MCNames == {link, <<1, 2>>}

Link(name, near, far) == [name |-> name, near |-> near, far |-> far]

\* An empty file, and one with a link.
MCInitial == {{}, {Link(link, 2, 1)}}

\* What the other clients and ApplyBatch ask for; the last two are refused.
MCTargets ==
    {{}, {Link(link, 1, 2), Link(<<1, 2>>, 3, 4)}, {Link(<<1, 2>>, 1, 3)},
     {Link(link, 1, 2), Link(<<1, 2>>, 2, 3)}, {Link(link, 1, 1)}}

Object(name, bidirectional, near, far) ==
    [name |-> name, bidirectional |-> bidirectional, near |-> near, far |-> far, other |-> FALSE]

Flat(object) == [object |-> object, config |-> Absent]
Nested(name, config) == [object |-> Object(name, Absent, Absent, Absent), config |-> config]

Root == Element("optical-switch-connections")

At(name, entry) ==
    [path |-> <<Keyed("port-connection", name)>>,
     value |-> [kind |-> "connection", entry |-> entry]]

All(list) ==
    [path |-> <<>>,
     value |-> [kind |-> "subtree", qualified |-> FALSE, siblings |-> FALSE, list |-> list]]

\* Replaces that are translated; some of them conflict with each other.
Good ==
    {At(link, Flat(Object(Absent, Absent, 1, 2))),
     At(link, Nested(link, Object(Absent, TRUE, 3, 4))),
     At(<<1, 2>>, Flat(Object(<<1, 2>>, TRUE, 3, 1))),
     All(<<Flat(Object(link, TRUE, 3, 4)), Nested(<<1, 2>>, Object(Absent, Absent, 2, 1))>>),
     All(<<>>)}

\* Replaces that fail: in translation, or when they are carried out.
Bad ==
    {At(link, Flat(Object(Absent, FALSE, 1, 2))),
     At(link, Flat(Object(Absent, Absent, 1, 1))),
     At(link, Flat(Object(Absent, Absent, Absent, 2))),
     At(link, Flat(Object(<<1, 2>>, TRUE, 1, 2))),
     At(link, Flat(Object(link, Malformed, 1, 2))),
     At(link, [object |-> Object(link, Absent, 1, 2), config |-> Malformed]),
     At(Absent, Flat(Object(link, TRUE, 1, 2))),
     All(<<Flat(Object(link, TRUE, 1, 2)), Flat(Object(link, TRUE, 1, 2))>>),
     All(<<Flat(Object(link, TRUE, 1, 2)), Flat(Object(<<1, 2>>, TRUE, 2, 3))>>)}

MCDeletes == {<<>>, <<<<Keyed("port-connection", link)>>>>}

Message(deletes, replaces) ==
    [prefix |-> <<Root>>, deletes |-> deletes, replaces |-> replaces,
     update |-> FALSE, extension |-> FALSE]

MCSets ==
    {Message(d, <<>>) : d \in MCDeletes \cup {<<<<Keyed("port-connection", link)>>,
                                                 <<Keyed("port-connection", link)>>>>}}
    \cup {Message(d, <<r>>) : d \in MCDeletes, r \in Good \cup Bad}
    \cup {Message(d, <<r, t>>) : d \in MCDeletes, r \in Good, t \in Good}
================================================================================
