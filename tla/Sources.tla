------------------------------ MODULE Sources ------------------------------
(***************************************************************************)
(* What the lookup endpoints read: the tables that the threads of the      *)
(* indexer fill in any order, and a node that has recent blocks only and   *)
(* is away at times.  Both change between any two statements of a request. *)
(***************************************************************************)
EXTENDS Naturals

CONSTANTS Tx, Block,
          Content,    \* Content[b]: the transactions in block b
          Score,      \* Score[b]: the blue score of b
          MaxChanges  \* bound on the changes during a request

ASSUME BlockAssumption == Content \in [Block -> SUBSET Tx] /\ Score \in [Block -> Nat]
ASSUME BoundAssumption == MaxChanges \in Nat

VARIABLES
    world,    \* both sources as they are now
    past,     \* history: as they have been since the request arrived
    changes   \* how many changes there were

sources == <<world, past, changes>>

AtMostOne == {S \in SUBSET Block : \A a, b \in S : a = b}

\* acc[x] is the accepting block of x, if it has one: the acceptance table
\* has one row for a transaction.
World == [blocks : SUBSET Block, txs : SUBSET Tx, acc : [Tx -> AtMostOne],
          node : SUBSET Block, up : BOOLEAN]

Change(w) ==
    /\ changes < MaxChanges
    /\ world' = w
    /\ past' = past \cup {w}
    /\ changes' = changes + 1

IndexBlock == \E b \in Block \ world.blocks :
                 Change([world EXCEPT !.blocks = @ \cup {b}])

IndexTransaction == \E x \in Tx \ world.txs :
                       Change([world EXCEPT !.txs = @ \cup {x}])

\* An acceptance is added, taken away, or moved to another block.
Reorganise == \E x \in Tx : \E S \in AtMostOne \ {world.acc[x]} :
                 Change([world EXCEPT !.acc[x] = S])

NodeReceives == \E b \in Block \ world.node :
                   Change([world EXCEPT !.node = @ \cup {b}])

\* A node keeps a block for longer than the indexer needs to store it.
NodePrunes == \E b \in world.node \cap world.blocks :
                 Change([world EXCEPT !.node = @ \ {b}])

NodeGoesOrReturns == Change([world EXCEPT !.up = ~@])

SourcesStep == \/ IndexBlock \/ IndexTransaction \/ Reorganise
               \/ NodeReceives \/ NodePrunes \/ NodeGoesOrReturns
=============================================================================
