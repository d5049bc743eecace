---------------------------- MODULE BlockLookup ----------------------------
(***************************************************************************)
(* One request to GET /blocks/{id} or GET /blocks-from-bluescore, await by *)
(* await: the node is asked first, the database second.                    *)
(***************************************************************************)
EXTENDS Sources

CONSTANTS Starts,  \* the requests, and the states of the sources they meet
          Day      \* 86400 * BPS: as far as the node is asked for blocks

ASSUME DayAssumption == Day \in Nat

VARIABLES
    q,          \* the request
    transport,  \* "wrpc" if KASPAD_WRPC_URL is set, otherwise "grpc"
    current,    \* current_blue_score_data["blue_score"]
    pc,
    score,      \* blueScore of the handler
    todo,       \* blocks the node is still to be asked for
    res,        \* the blocks of the answer
    found       \* the transactions of the answer

fixed == <<q, transport>>
blockVars == <<sources, fixed, current, pc, score, todo, res, found>>

Settled == {"answered", "not_found", "failed"}

BlockInit ==
    \E s \in Starts :
        /\ world = s.world /\ past = {s.world} /\ changes = 0
        /\ q = s.q /\ transport = s.transport /\ current = s.current
        /\ pc = "start" /\ score = 0 /\ todo = {} /\ res = {} /\ found = {}

(* get_block_from_kaspad.  The answer is a block, nothing, or, over gRPC   *)
(* only, an exception that ends the request.                               *)
NodeHas(b) == world.up /\ b \in world.node

NodeRaises == ~world.up /\ transport = "grpc"

(* The worker's loop stores the blue score of the sink.                    *)
UpdateBlueScore ==
    /\ changes < MaxChanges
    /\ \E b \in Block : current < Score[b] /\ current' = Score[b]
    /\ changes' = changes + 1
    /\ UNCHANGED <<world, past, fixed, pc, score, todo, res, found>>

\* What the database does not have is looked up in the node afterwards (mutant).
DatabaseFirst ==
    /\ q.op = "block" /\ pc \in {"start", "node"}
    /\ \/ pc = "start" /\ q.b \in world.blocks /\ pc' = "body" /\ res' = {q.b}
       \/ pc = "start" /\ q.b \notin world.blocks /\ pc' = "node" /\ UNCHANGED res
       \/ pc = "node" /\ NodeHas(q.b) /\ pc' = "answered" /\ res' = {q.b}
       \/ pc = "node" /\ NodeRaises /\ pc' = "failed" /\ UNCHANGED res
       \/ pc = "node" /\ ~NodeHas(q.b) /\ ~NodeRaises
          /\ pc' = "not_found" /\ UNCHANGED res
    /\ UNCHANGED <<sources, fixed, current, score, todo, found>>

(* GET /blocks/{blockId} with its transactions, a database configured.     *)
BlockFromNode ==
    /\ q.op = "block" /\ pc = "start"
    /\ \/ NodeHas(q.b) /\ pc' = "answered"
          /\ res' = {q.b} /\ found' = Content[q.b]
       \/ NodeRaises /\ pc' = "failed" /\ UNCHANGED <<res, found>>
       \/ ~NodeHas(q.b) /\ ~NodeRaises /\ pc' = "db" /\ UNCHANGED <<res, found>>
    /\ UNCHANGED <<sources, fixed, current, score, todo>>

BlockFromDb ==
    /\ q.op = "block" /\ pc = "db"
    /\ IF q.b \in world.blocks THEN pc' = "body" /\ res' = {q.b}
                               ELSE pc' = "not_found" /\ UNCHANGED res
    /\ UNCHANGED <<sources, fixed, current, score, todo, found>>

\* The transactions of the block are read by a statement of their own.
BlockBody ==
    /\ pc = "body"
    /\ found' = Content[q.b] \cap world.txs
    /\ pc' = "answered"
    /\ UNCHANGED <<sources, fixed, current, score, todo, res>>

(* GET /blocks-from-bluescore with blueScore, blueScoreGte or blueScoreLt. *)
RowsOf(s) == {b \in world.blocks : Score[b] = s}

InRange(s) == /\ q.kind = "eq" => s = q.n
              /\ q.kind = "gte" => s >= q.n
              /\ q.kind = "lt" => s < q.n

\* LIMIT 1 of an ascending order for every kind (mutant).
LowestOf(S) == CHOOSE s \in S : \A t \in S : s <= t

NearestOf(S) == CHOOSE s \in S : \A t \in S : IF q.kind = "lt" THEN t <= s ELSE s <= t

ChooseScore ==
    /\ q.op = "from_score" /\ pc = "start"
    /\ LET scores == {s \in {Score[b] : b \in world.blocks} : InRange(s)}
           none == \/ q.kind # "lt" /\ q.n > current
                   \/ q.kind # "eq" /\ scores = {}
           s == IF q.kind = "eq" THEN q.n ELSE NearestOf(scores)
       IN
       IF none
       THEN pc' = "answered" /\ UNCHANGED score
       ELSE /\ score' = s
            /\ pc' = IF current # 0 /\ current < s + Day THEN "hashes" ELSE "rows"
    /\ UNCHANGED <<sources, fixed, current, todo, res, found>>

ReadHashes ==
    /\ pc = "hashes"
    /\ todo' = RowsOf(score)
    /\ pc' = IF RowsOf(score) = {} THEN "answered" ELSE "blocks"
    /\ UNCHANGED <<sources, fixed, current, score, res, found>>

\* The first block that the node gives is the answer (mutant).
AskNodeUntilFound ==
    /\ pc = "blocks"
    /\ \E b \in todo :
          IF NodeRaises
          THEN pc' = "failed" /\ UNCHANGED <<todo, res>>
          ELSE /\ todo' = IF NodeHas(b) THEN {} ELSE todo \ {b}
               /\ res' = IF NodeHas(b) THEN {b} ELSE res
               /\ pc' = IF todo' # {} THEN pc ELSE IF res' = {} THEN "rows" ELSE "answered"
    /\ UNCHANGED <<sources, fixed, current, score, found>>

AskNode ==
    /\ pc = "blocks"
    /\ \E b \in todo :
          IF NodeRaises
          THEN pc' = "failed" /\ UNCHANGED <<todo, res>>
          ELSE /\ todo' = todo \ {b}
               /\ res' = IF NodeHas(b) THEN res \cup {b} ELSE res
               /\ pc' = IF todo' # {} THEN pc ELSE IF res' = {} THEN "rows" ELSE "answered"
    /\ UNCHANGED <<sources, fixed, current, score, found>>

\* Only reached when the node had none of the blocks, or for an old score.
ReadRows ==
    /\ pc = "rows"
    /\ res' = RowsOf(score)
    /\ pc' = "answered"
    /\ UNCHANGED <<sources, fixed, current, score, todo, found>>

BlockRequest == \/ BlockFromNode \/ BlockFromDb \/ BlockBody
                \/ ChooseScore \/ ReadHashes \/ AskNode \/ ReadRows

\* The sources change between the statements: before the first one, a request
\* has seen nothing, and after the answer it sees nothing any more.
BlockEnvironment ==
    /\ pc \notin Settled \cup {"start"}
    /\ \/ SourcesStep /\ UNCHANGED <<fixed, current, pc, score, todo, res, found>>
       \/ UpdateBlueScore
-----------------------------------------------------------------------------
(* "Block not found" (get_blocks.py:170) is said only when there was a     *)
(* moment at which neither source could give the block.                    *)
BlockNotFoundIsTrue ==
    q.op = "block" /\ pc = "not_found" =>
        \E w \in past : q.b \notin w.blocks /\ ~(w.up /\ q.b \in w.node)

(* The blocks of an answer have one blue score, which fits the query, and  *)
(* no row that was there from the beginning is nearer to it                *)
(* (get_blocks.py:231-251).  An answer without blocks passes over none     *)
(* that the worker has heard of.                                           *)
ListIsNearest ==
    q.op = "from_score" /\ pc = "answered" =>
        /\ \A b \in res : Score[b] = score /\ InRange(score)
        /\ \A b \in Block :
              InRange(Score[b]) /\ (\A w \in past : b \in w.blocks) =>
                  IF res = {} THEN q.kind # "lt" /\ q.n > current
                  ELSE IF q.kind = "lt" THEN Score[b] <= score ELSE score <= Score[b]

(* Of the blocks of the score, none is left out that the node could give   *)
(* at any moment (get_blocks.py:266-271).                                  *)
ListHasNodeBlocks ==
    q.op = "from_score" /\ pc = "answered" /\ res # {} =>
        \A b \in Block :
            /\ Score[b] = score
            /\ \A w \in past : b \in w.blocks /\ b \in w.node /\ w.up
            => b \in res
=============================================================================
