------------------------------ MODULE MCHealth ------------------------------
(* Instances of Health for TLC: three workers, one with a host that syncs  *)
(* and fails, one whose host has no UTXO index, and one that has a second  *)
(* host which never answers.                                               *)
EXTENDS Health, TLC

CONSTANTS h1, h2, h3, h4
HostReports == h1 :> {"full", "syncing"} @@ h2 :> {"synced", "down"}
               @@ h3 :> {"full", "down"} @@ h4 :> {"down"}
SetupFirst == {h1} :> h1 @@ {h2} :> h2 @@ {h3, h4} :> h3
=============================================================================
