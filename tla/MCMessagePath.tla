--------------------------- MODULE MCMessagePath ---------------------------
(* Instances of MessagePath: every protocol of the library alone, and two    *)
(* chains of two.                                                            *)
EXTENDS MessagePath, TLC

AllChains == {<<"none">>, <<"endian">>, <<"ucmd">>, <<"ucmd", "endian">>, <<"endian", "ucmd">>}
OneChain == {<<"ucmd">>}

Symmetry == Permutations(Peers)
============================================================================
