-------------------------- MODULE MCSovereignServer --------------------------
EXTENDS SovereignServer, TLC

MCTaskLists == {<<>>, <<"persistent", "transient">>}
MCShortTaskLists == {<<>>, <<"transient">>}

(* Sound for the safety run only. *)
MCSymmetry == Permutations(Conns) \cup Permutations(Workers)
=============================================================================
