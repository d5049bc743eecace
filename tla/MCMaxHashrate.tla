--------------------------- MODULE MCMaxHashrate ---------------------------
(* Instances of MaxHashrate for TLC. *)
EXTENDS MaxHashrate, TLC

\* As few blocks as an order, a tie and a drop of the difficulty need.
ThreeBlocks == {[score |-> 1, diff |-> 3], [score |-> 2, diff |-> 2],
                [score |-> 2, diff |-> 1]}

TaskSymmetry == Permutations(Task)
=============================================================================
