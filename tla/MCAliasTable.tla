----------------------------- MODULE MCAliasTable -----------------------------
(* Small instances of AliasTable: two providers a and b of application Y,    *)
(* a thread of each; peer p is of application X, provider b is a peer of     *)
(* provider a, too.  Some files name them, some do not; p may take the name  *)
(* of b.                                                                     *)
EXTENDS AliasTable

CONSTANTS t1, t2

Path(app, name, type) == [app |-> app, name |-> name, type |-> type]

a == Path(<<"Y">>, "a", "tcp")
b == Path(<<"Y">>, "b", "tcp")
p == Path(<<"X">>, "p", "tcp")

TwoPeers == {p, b}
TwoProviders == {a, b}
TwoThreads == {t1, t2}
Owners == [t \in Threads |-> IF t = t2 THEN b ELSE a]
AppOfPath == [x \in Paths |-> x.app]

-----------------------------------------------------------------------------
Trans(name, type, addr) == [name |-> name, type |-> type, keys |-> addr, functions |-> <<>>]
Service(name, functions) ==
    [name |-> name, type |-> "vsomeip", keys |-> <<"service-id", "instance-id">>, functions |-> functions]
Function(list, name, id) == [list |-> list, name |-> name, id |-> id]
Single(name, where, list) ==
    [name |-> name, type |-> "single", self |-> "self", where |-> where, list |-> list]
Multi(name, self, list) ==
    [name |-> name, type |-> "multi", self |-> self, where |-> FALSE, list |-> list]

Full == <<"ip", "mask", "port">>
A == Trans("a", "tcp", Full)
B == Trans("b", "tcp", Full)
P == Trans("p", "tcp", Full)
Valve == Service("valve", <<Function("reqresp", "get", 1), Function("pubsub", "get", 1),
                            Function("reqresp", "set", 2)>>)

(* Files of which a table is made: the program's own app; two apps, one      *)
(* provider written twice; apps within apps, two of them of one name.        *)
GoodFiles ==
    {<<Single("Y", TRUE, <<A>>)>>,
     <<Single("Y", TRUE, <<A, B, A>>), Single("X", TRUE, <<P>>)>>,
     <<Multi("R", "S", <<Single("T", TRUE, <<P>>),
                         Multi("S", "X", <<Single("X", TRUE, <<Valve, Trans("p", "udp", <<"ip">>)>>),
                                           Single("X", TRUE, <<Trans("p", "tcp", Full)>>)>>)>>)>>}

(* The app the resource names is missing, or names one that is; a place, a   *)
(* name, a type, a member of an address or of the functions is wrong, each   *)
(* in the last entry of a file that begins well.                             *)
BadResources ==
    {Multi("R", "S", <<Single("T", TRUE, <<P>>)>>),
     Multi("R", "S", <<Multi("S", "U", <<Single("T", TRUE, <<P>>)>>), Single("U", TRUE, <<P>>)>>),
     Multi("R", "", <<Single("", TRUE, <<P>>)>>),
     Single("R", FALSE, <<P>>),
     [Single("R", TRUE, <<P>>) EXCEPT !.type = "other"],
     Single("R", TRUE, <<P, Trans("q", "iotivity", Full)>>),
     Single("R", TRUE, <<P, Trans("q", "udp", <<"ip", "service-id">>)>>),
     Single("R", TRUE, <<P, [Valve EXCEPT !.keys = <<"port">>]>>),
     Single("R", TRUE, <<P, Service("q", <<Function("pubsub", "get", 0)>>)>>),
     Single("R", TRUE, <<P, Service("q", <<Function("pubsub", "get", 1), Function("pubsub", "get", 2)>>)>>)}

AllFiles == GoodFiles \cup {<<Single("Y", TRUE, <<A>>), r>> : r \in BadResources}

RECURSIVE PlacesOf(_, _)
PlacesOf(app, parent) ==
    {<<app, parent>>} \cup
    (IF app.type = "multi"
     THEN UNION {PlacesOf(app.list[i], Append(parent, app.name)) : i \in DOMAIN app.list}
     ELSE {})

AllPlaces == UNION {UNION {PlacesOf(f[i], <<>>) : i \in DOMAIN f} : f \in AllFiles}
AllWritten == UNION {FileWritten(f) : f \in AllFiles}
AllApps == {<<"X">>, <<"Y">>} \cup {x.app : x \in AllWritten}
===============================================================================
