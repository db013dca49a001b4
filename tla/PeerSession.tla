----------------------------- MODULE PeerSession -----------------------------
(***************************************************************************)
(* What the application is to see of one session with a peer, through the  *)
(* handler of cb_register_connection_handler: E_CONNECTED, then any number *)
(* of E_SUSPEND and E_RESUME_UPDATE pairs that change the peer's name, and *)
(* E_DISCONNECTED once, at last.  A handler that throws at E_SUSPEND keeps *)
(* the peer's old name; one that throws at E_DISCONNECTED is told again.   *)
(*                                                                         *)
(* The code keeps this only as long as no change of name meets the end of  *)
(* the session; from then on the specification says nothing.               *)
(***************************************************************************)
CONSTANTS Names, NoName
VARIABLES view,   \* the last state told; "refused" and "unheard": E_SUSPEND and
                  \* E_DISCONNECTED, and the handler threw
          name    \* the name of the peer then

svars == <<view, name>>

PSInit == view = "nothing" /\ name = NoName

Connect == view = "nothing" /\ view' = "connected" /\ name' \in Names

Suspend ==
    /\ view \in {"connected", "resumed", "refused"}
    /\ view' \in {"suspended", "refused"}
    /\ UNCHANGED name

Resume == view = "suspended" /\ view' = "resumed" /\ name' \in Names \ {name}

Disconnect ==
    /\ \/ view \in {"connected", "resumed", "refused"} /\ view' \in {"disconnected", "unheard"}
       \/ view = "unheard" /\ view' = "disconnected"
    /\ UNCHANGED name

Overtaken == view # "overtaken" /\ view' = "overtaken" /\ name' = NoName

PSNext == Connect \/ Suspend \/ Resume \/ Disconnect \/ Overtaken

PSSpec == PSInit /\ [][PSNext]_svars
===============================================================================
