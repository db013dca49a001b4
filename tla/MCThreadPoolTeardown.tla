------------------------ MODULE MCThreadPoolTeardown ------------------------
(* Small instances of ThreadPoolTeardown for TLC. *)
EXTENDS ThreadPoolTeardown

CONSTANTS p1, l1, l2

OneProducer == {p1}
TwoLoopers == {l1, l2}
Never == {FALSE}
=============================================================================
