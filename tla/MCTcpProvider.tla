---------------------------- MODULE MCTcpProvider ----------------------------
(* Instances of TcpProvider for TLC. *)
EXTENDS TcpProvider, TLC

(* Receivers, sessions and descriptors are interchangeable where the model   *)
(* chooses them freely (server mode: SelfFd plays no part).                  *)
Symmetry == Permutations(Receivers) \cup Permutations(Conns) \cup Permutations(Fds)
===============================================================================
