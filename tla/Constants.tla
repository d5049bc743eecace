----------------------------- MODULE Constants ------------------------------
(* The one setting of constants.py that several calculations share.        *)
EXTENDS Integers

CONSTANT BPS   \* blocks per second, thus blue score and DAA score per second

ASSUME BPSAssumption == BPS \in Nat \ {0}
=============================================================================
