------------------------------- MODULE MCWriter -------------------------------
(***************************************************************************)
(* Writer on small instances: three transactions, of which one changes the *)
(* schema, and a background operation.                                     *)
(***************************************************************************)
EXTENDS Writer

CONSTANTS t1, t2, t3, gc

MCTx == {t1, t2, t3}
MCTxGc == {t1, t2, gc}
MCSchemaTx == {t2}
MCAsyncTx == {gc}
NoTx == {}
===============================================================================
