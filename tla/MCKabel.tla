-------------------------------- MODULE MCKabel --------------------------------
(***************************************************************************)
(* Kabel on a small instance: two transactions, of clients with one        *)
(* connection or of the owner's own callers, or one transaction beside two *)
(* connections to the same tiered store.                                   *)
(***************************************************************************)
EXTENDS Kabel

CONSTANTS t1, t2, c1, c2

MCTx == {t1, t2}
MCConn == {c1, c2}

\* A bound: three calls and connections in all, where those of a kind are
\* interchangeable and so begin in one order; beside a second connection the
\* store is tiered and its updates are published.  Only steps are cut off that
\* no fairness makes happen.
Small == LET calls == {t \in Tx : call'[t] # "none"}
             conns == {c \in Conn : phase'[c] # "new"}
         IN /\ Cardinality(calls) + Cardinality(conns) <= 3
            /\ t2 \in calls => t1 \in calls
            /\ c2 \in conns => c1 \in conns /\ tiered /\ synced'
===============================================================================
