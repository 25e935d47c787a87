--------------------------- MODULE MCBatchTimeout ---------------------------
(* A batch nobody cancels, whose jobs all end in a failure: the handler     *)
(* runs into its timeout, and its context has ended when failJob records    *)
(* the outcome.                                                             *)
EXTENDS Batch

TimeoutNext == Next /\ ~Cancel /\ \A j \in Jobs : job'[j] # "succeeded"

TimeoutSpec == Init /\ [][TimeoutNext]_vars /\ Fairness
=============================================================================
