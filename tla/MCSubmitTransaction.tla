------------------------ MODULE MCSubmitTransaction ------------------------
(* Instances of SubmitTransaction for TLC. *)
EXTENDS SubmitTransaction, TLC

\* A synced node with the index, and one that is still syncing.
SyncInfo == {{"utxo_indexed"}, Full}

RequestSymmetry == Permutations(Request)
=============================================================================
