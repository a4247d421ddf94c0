--------------------------- MODULE MCJwtBlocklist ---------------------------
EXTENDS JwtBlocklist, TLC

CONSTANTS t1, t2, t3, p1, p2

(* Two threads in one process, one in another. *)
MCThreads == {t1, t2, t3}
MCProcesses == {p1, p2}
MCOwner == (t1 :> p1) @@ (t2 :> p1) @@ (t3 :> p2)
MCSymmetry == Permutations({t1, t2})
=============================================================================
