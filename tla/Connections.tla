----------------------------- MODULE Connections -----------------------------
(***************************************************************************)
(* What CConfigAliases promises of connected peers, whatever threads call: *)
(* a relation between peers and the providers of this process, changed one *)
(* pair at a time.                                                         *)
(***************************************************************************)
CONSTANTS Peers, Mine

VARIABLE connected    \* pairs of a peer and a provider connected with it

Init == connected = {}

Connect(p, m) == connected' = connected \cup {<<p, m>>}

Disconnect(p, m) == connected' = connected \ {<<p, m>>}

Next == \E p \in Peers, m \in Mine : Connect(p, m) \/ Disconnect(p, m)

Spec == Init /\ [][Next]_connected
===============================================================================
