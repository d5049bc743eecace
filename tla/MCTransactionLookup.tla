------------------------ MODULE MCTransactionLookup ------------------------
(* Instances of TransactionLookup for TLC. *)
EXTENDS TransactionLookup, TLC

CONSTANTS b1, b2, b3, x1, x2

\* Two blocks share a blue score; x1 is in two blocks, x2 is a coinbase.
MCScore == (b1 :> 1) @@ (b2 :> 2) @@ (b3 :> 2)
MCContent == (b1 :> {x1}) @@ (b2 :> {x1, x2}) @@ (b3 :> {x2})

Transports == {"grpc", "wrpc"}

Meet(Queries, Worlds, Currents) ==
    [q : Queries, world : Worlds, current : Currents, transport : Transports]

BlockWorlds(T) == [blocks : SUBSET Block, txs : T, acc : {NoBlock},
                   node : SUBSET Block, up : BOOLEAN]

ScoreQueries == [op : {"from_score"}, kind : {"eq", "gte", "lt"}, n : 0..3]

TxWorlds == [blocks : SUBSET {b1, b2}, txs : SUBSET Tx,
             acc : [Tx -> {{}, {b1}, {b2}}], node : SUBSET {b1, b2}, up : BOOLEAN]

\* A client may name no block, one with the transaction, or another one.
TxQueries == {[op |-> "tx", x |-> r[1], hint |-> r[2]] :
                 r \in {<<x1, {}>>, <<x1, {b2}>>, <<x2, {b1}>>}}
             \cup [op : {"ids"}, mode : {"any", "accepted", "rejected"}]
             \cup [op : {"scores"}, gte : {0, 1}, lt : {2}]
             \cup {[op |-> "acceptance"]}

ChainQueries == [op : {"chain"}, gte : {0, 2}, coinbase : BOOLEAN]

\* Requests for blocks, for transactions, and for the virtual chain.
AllStarts == Meet([op : {"block"}, b : Block], BlockWorlds(SUBSET Tx), {0})
             \cup Meet(ScoreQueries, BlockWorlds({{}}), {0, 1, 2})
             \cup Meet(TxQueries, TxWorlds, {0})
             \cup Meet(ChainQueries, TxWorlds, {0, 1})
=============================================================================
