------------------------ MODULE MCKaspadMultiClient ------------------------
(* Instances of KaspadMultiClient for TLC. *)
EXTENDS KaspadMultiClient

\* Nodes are synced or down: what failover and the retry depend on.
SyncedOnly == {Full}
=============================================================================
