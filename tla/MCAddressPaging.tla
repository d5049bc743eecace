-------------------------- MODULE MCAddressPaging --------------------------
(* Instances of AddressPaging for TLC. *)
EXTENDS AddressPaging

\* Transactions 2 and 3 have the same block time.
MCTime == [x \in Tx |-> IF x < 3 THEN x + 1 ELSE x]
=============================================================================
