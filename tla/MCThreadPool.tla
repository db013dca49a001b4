---------------------------- MODULE MCThreadPool ----------------------------
(* Small instances of ThreadPool for TLC. *)
EXTENDS ThreadPool

CONSTANTS p1, p2, l1, l2

OneProducer == {p1}
TwoProducers == {p1, p2}
OneLooper == {l1}
TwoLoopers == {l1, l2}
Never == {FALSE}
Either == BOOLEAN
=============================================================================
