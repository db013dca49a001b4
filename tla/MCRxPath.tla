------------------------------- MODULE MCRxPath -------------------------------
(* A session whose peer has two names; the pool of IHProtocolInf. *)
EXTENDS RxPath

CONSTANTS o, l1, n0, n1

TwoProducers == {Rcv, o}
OneLooper == {l1}
Never == {FALSE}
TwoNames == {n0, n1}
===============================================================================
