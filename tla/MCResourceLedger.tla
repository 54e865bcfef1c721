--------------------------- MODULE MCResourceLedger ---------------------------
(* The ledger with checkpointing callers that can be exchanged.            *)
EXTENDS ResourceLedger, TLC

Interchangeable == Permutations(Recorders)

===============================================================================
