------------------------------ MODULE MCSessions ------------------------------
(* Instances of Sessions for TLC: two callers, or one. *)
EXTENDS Sessions, TLC

CONSTANTS p1, p2, t1, t2

MCCaller == {p1, p2}
OneCaller == {p1}
MCTx == {t1, t2}

\* Callers and transactions are interchangeable.
Perms == Permutations(MCCaller) \cup Permutations(MCTx)
===============================================================================
