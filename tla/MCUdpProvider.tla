----------------------------- MODULE MCUdpProvider -----------------------------
(* A small instance of UdpProvider: peer p is in the alias file, client c may *)
(* be named by its address (cc) or by the application (x).                    *)
EXTENDS UdpProvider

CONSTANTS p, c, pp, cc, x

TwoAddrs == {p, c}
ThreePaths == {pp, cc, x}
AddrOfPath == [y \in Paths |-> IF y = pp THEN p ELSE c]
OwnNames == [a \in Addrs |-> IF a = p THEN pp ELSE cc]
FilePaths == {pp}
===============================================================================
