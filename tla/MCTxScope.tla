----------------------------- MODULE MCTxScope -----------------------------
EXTENDS TxScope
=============================================================================
