----------------------------- MODULE NodeReads ------------------------------
(***************************************************************************)
(* The endpoints that hand on one answer of the node, over either client.  *)
(* The node answers, or refuses with an error, or stays silent.            *)
(*                                                                         *)
(* A refusal is an exception over wRPC.  Over gRPC it is an answer whose   *)
(* inner message has an `error`, beside fields that all have their         *)
(* defaults (KaspadThread.py:64); the endpoints look for an error of the   *)
(* outer message, which never has one.                                     *)
(***************************************************************************)
EXTENDS Naturals

Transport == {"grpc", "wrpc"}
Outcome == {"answers", "refuses", "silent"}

Tells(data) == [code |-> 200, data |-> data]
Raises(code) == [code |-> code, data |-> "nothing"]

\* KaspadCommunicationError is 503, any other exception 500.
FromNode(transport, outcome) ==
    CASE outcome = "answers"                         -> Tells("node")
      [] outcome = "refuses" /\ transport = "grpc"   -> Tells("defaults")
      [] outcome = "silent" /\ transport = "grpc"    -> Raises(503)
      [] outcome # "answers" /\ transport = "wrpc"   -> Raises(500)

\* get_balance: an address is decoded before the node is asked.
Balance(transport, outcome, valid) ==
    IF valid THEN FromNode(transport, outcome) ELSE Raises(400)

\* get_balances: each of the addresses, of which there may be none.
Balances(transport, outcome, valid, asked) ==
    IF asked = {} THEN Tells("empty")
    ELSE IF asked \subseteq valid THEN FromNode(transport, outcome) ELSE Raises(400)

\* get_fee_estimate: the estimate is a message, which has no default.
FeeEstimate(transport, outcome) ==
    LET told == FromNode(transport, outcome)
    IN IF told.data = "defaults" THEN Raises(500) ELSE told

\* get_blocks: over wRPC, every exception is an empty list.
Blocks(transport, outcome) ==
    IF transport = "wrpc" /\ outcome # "answers" THEN Tells("empty")
    ELSE FromNode(transport, outcome)

\* What is computed from an answer is as true as the answer.
Blockdag(transport, outcome) == FromNode(transport, outcome)
Hashrate(transport, outcome) == Blockdag(transport, outcome)
KaspadInfo(transport, outcome) == FromNode(transport, outcome)
Coinsupply(transport, outcome) == FromNode(transport, outcome)
CirculatingCoins(transport, outcome) == Coinsupply(transport, outcome)
SinkBlueScore(transport, outcome) == FromNode(transport, outcome)
VirtualChainFromBlock(transport, outcome) == FromNode(transport, outcome)
=============================================================================
