----------------------------- MODULE MCAliasAddr -----------------------------
(* A small instance of AliasAddr: three threads, each of which enters either *)
(* of two paths of one address (the flag set or not), removes the first path *)
(* and resets its flag.                                                      *)
EXTENDS AliasAddr

CONSTANTS px, py, da, t1, t2, t3

Ins(p, ad, f) == [do |-> "insert", path |-> p, addr |-> ad, flag |-> f]
OnPath(d, p) == [do |-> d, path |-> p]

ThreeThreads == {t1, t2, t3}
SharedCalls == {Ins(px, da, TRUE), Ins(py, da, FALSE), OnPath("remove", px), OnPath("reset", px)}
===============================================================================
