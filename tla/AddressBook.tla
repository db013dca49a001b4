----------------------------- MODULE AddressBook -----------------------------
(***************************************************************************)
(* What CAliasAddr promises its callers: two maps, of paths to addresses   *)
(* and of addresses to paths, in which every call takes effect at once.    *)
(***************************************************************************)
CONSTANTS Paths, Addrs, None

VARIABLES addr, flag, alias    \* address and connect flag of a path, path of an address

Init ==
    /\ addr = [x \in Paths |-> None]
    /\ flag = [x \in Paths |-> FALSE]
    /\ alias = [a \in Addrs |-> None]

Enter(x, a) ==
    /\ addr[x] = None /\ alias[a] = None
    /\ addr' = [addr EXCEPT ![x] = a]
    /\ alias' = [alias EXCEPT ![a] = x]
    /\ \E f \in BOOLEAN : flag' = [flag EXCEPT ![x] = f]

(* The address is the one the caller found under x. *)
Remove(x, a) ==
    /\ addr' = [addr EXCEPT ![x] = None]
    /\ flag' = [flag EXCEPT ![x] = FALSE]
    /\ alias' = [alias EXCEPT ![a] = None]

SetFlag(x) ==
    /\ addr[x] # None
    /\ \E f \in BOOLEAN : flag' = [flag EXCEPT ![x] = f]
    /\ UNCHANGED <<addr, alias>>

Next == \E x \in Paths :
            SetFlag(x) \/ \E a \in Addrs : Enter(x, a) \/ Remove(x, a)

Spec == Init /\ [][Next]_<<addr, flag, alias>>
===============================================================================
