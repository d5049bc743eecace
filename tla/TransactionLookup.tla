------------------------- MODULE TransactionLookup -------------------------
(***************************************************************************)
(* One request for transactions, await by await: GET /transactions/{id},   *)
(* POST /transactions/search and /acceptance, GET /virtual-chain.  The     *)
(* node is asked for what the database does not have yet.  Requests share  *)
(* no state, so one at a time is enough.                                   *)
(***************************************************************************)
EXTENDS BlockLookup

CONSTANTS HasInputs,   \* the transactions that are not coinbases
          ChainLimit   \* limit of /virtual-chain

ASSUME LimitAssumption == HasInputs \subseteq Tx /\ ChainLimit \in Nat \ {0}

\* A request with the parameters of its endpoint.
QueryOK(r) ==
    /\ r.op \in {"block", "from_score", "tx", "ids", "scores", "acceptance", "chain"}
    /\ r.op = "block" => r.b \in Block
    /\ r.op = "from_score" => r.kind \in {"eq", "gte", "lt"} /\ r.n \in Nat
    /\ r.op = "tx" => r.x \in Tx /\ r.hint \in AtMostOne
    /\ r.op \in {"scores", "chain"} => r.gte \in Nat

ASSUME StartAssumption ==
    \A s \in Starts : /\ QueryOK(s.q) /\ s.world \in World
                      /\ s.transport \in {"grpc", "wrpc"} /\ s.current \in Nat

VARIABLES
    facc,  \* the accepting blocks of the answer
    told   \* the accepting blocks whose blue score the answer tells

vars == <<blockVars, facc, told>>

NoBlock == [x \in Tx |-> {}]

Init == BlockInit /\ facc = NoBlock /\ told = {}

Restrict(acc, S) == [x \in Tx |-> IF x \in S THEN acc[x] ELSE {}]
Accepting(acc, S) == UNION {acc[x] : x \in S}

\* The rows S with their acceptances, joined with the blocks that are there;
\* the missing scores are asked of the node.
JoinAcceptances(S) ==
    /\ facc' = Restrict(world.acc, S)
    /\ told' = Accepting(world.acc, S) \cap world.blocks

\* All scores are asked of the node (mutant).
AllScores(S) == Accepting(world.acc, S)

\* GET /transactions/{id} takes a score of 0 for a missing one.
MissingScores(S) ==
    {b \in Accepting(world.acc, S) : b \in world.blocks => q.op = "tx" /\ Score[b] = 0}

\* x was accepted by a stored block with a blue score from lo to hi - 1.
AcceptedBetween(w, x, lo, hi) ==
    \E b \in w.acc[x] \cap w.blocks : lo <= Score[b] /\ Score[b] < hi

ModeFits(w, x) == /\ q.mode = "accepted" => w.acc[x] # {}
                  /\ q.mode = "rejected" => w.acc[x] = {}

(* GET /transactions/{transaction_id}, with or without blockHash.          *)
ReadTransaction ==
    /\ q.op = "tx" /\ pc = "start"
    /\ found' = {q.x} \cap world.txs
    /\ pc' = IF found' = {} /\ q.hint = {} THEN "not_found" ELSE "acceptance"
    /\ UNCHANGED <<sources, fixed, current, score, todo, res, facc, told>>

\* The second statement of the same session, for a transaction not found too.
ReadAcceptance ==
    /\ pc = "acceptance"
    /\ JoinAcceptances({q.x})
    /\ todo' = MissingScores({q.x})
    /\ pc' = IF found = {} THEN "hint" ELSE IF todo' = {} THEN "answered" ELSE "scores"
    /\ UNCHANGED <<sources, fixed, current, score, res, found>>

ReadHint ==
    /\ pc = "hint"
    /\ \E b \in q.hint :
          \/ NodeRaises /\ pc' = "failed" /\ UNCHANGED found
          \/ /\ NodeHas(b) /\ q.x \in Content[b]
             /\ found' = {q.x}
             /\ pc' = IF todo = {} THEN "answered" ELSE "scores"
          \/ /\ ~NodeRaises /\ ~(NodeHas(b) /\ q.x \in Content[b])
             /\ pc' = "not_found" /\ UNCHANGED found
    /\ UNCHANGED <<sources, fixed, current, score, todo, res, facc, told>>

(* POST /transactions/search.  A range that starts at 0 is taken for none, *)
(* and then there are no ids either.                                       *)
Searched ==
    {x \in world.txs :
        IF q.op = "scores" THEN q.gte # 0 /\ AcceptedBetween(world, x, q.gte, q.lt)
                           ELSE ModeFits(world, x)}

\* Acceptances whose block is not there yet are lost by the join (mutant).
SearchInnerJoin ==
    /\ q.op \in {"ids", "scores"} /\ pc = "start"
    /\ found' = {x \in Searched : world.acc[x] \subseteq world.blocks}
    /\ JoinAcceptances(found')
    /\ todo' = MissingScores(found')
    /\ pc' = IF todo' = {} THEN "answered" ELSE "scores"
    /\ UNCHANGED <<sources, fixed, current, score, res>>

Search ==
    /\ q.op \in {"ids", "scores"} /\ pc = "start"
    /\ found' = Searched
    /\ JoinAcceptances(found')
    /\ todo' = MissingScores(found')
    /\ pc' = IF todo' = {} THEN "answered" ELSE "scores"
    /\ UNCHANGED <<sources, fixed, current, score, res>>

\* The acceptance is read again together with the score (mutant).
AskScoreAndAcceptance ==
    /\ pc = "scores"
    /\ \E b \in todo :
          IF NodeRaises
          THEN pc' = "failed" /\ UNCHANGED <<todo, told, facc>>
          ELSE /\ todo' = todo \ {b}
               /\ told' = IF NodeHas(b) THEN told \cup {b} ELSE told
               /\ facc' = [x \in Tx |-> IF b \in facc[x] THEN world.acc[x] ELSE facc[x]]
               /\ pc' = IF todo' = {} THEN "answered" ELSE pc
    /\ UNCHANGED <<sources, fixed, current, score, res, found>>

\* Each missing accepting block is asked for once (block_cache).
AskScore ==
    /\ pc = "scores"
    /\ \E b \in todo :
          IF NodeRaises
          THEN pc' = "failed" /\ UNCHANGED <<todo, told>>
          ELSE /\ todo' = todo \ {b}
               /\ told' = IF NodeHas(b) THEN told \cup {b} ELSE told
               /\ pc' = IF todo' = {} THEN "answered" ELSE pc
    /\ UNCHANGED <<sources, fixed, current, score, res, found, facc>>

(* POST /transactions/acceptance: one statement, for ids found or not.     *)
ReadAcceptances ==
    /\ q.op = "acceptance" /\ pc = "start"
    /\ found' = Tx
    /\ JoinAcceptances(Tx)
    /\ pc' = "answered"
    /\ UNCHANGED <<sources, fixed, current, score, todo, res>>

(* GET /virtual-chain.  A transaction without known inputs is taken for a  *)
(* coinbase.                                                               *)
ReadChain ==
    /\ q.op = "chain" /\ pc = "start"
    /\ found' = IF 0 < current /\ current < q.gte THEN {}
                ELSE {x \in Tx : AcceptedBetween(world, x, q.gte, q.gte + ChainLimit)}
    /\ JoinAcceptances(found')
    /\ pc' = IF found' = {} THEN "answered" ELSE "inputs"
    /\ UNCHANGED <<sources, fixed, current, score, todo, res>>

ReadInputs ==
    /\ pc = "inputs"
    /\ found' = {x \in found : q.coinbase \/ x \in world.txs \cap HasInputs}
    /\ pc' = "answered"
    /\ UNCHANGED <<sources, fixed, current, score, todo, res, facc, told>>

TxRequest == \/ ReadTransaction \/ ReadAcceptance \/ ReadHint \/ Search
             \/ AskScore \/ ReadAcceptances \/ ReadChain \/ ReadInputs

Next == \/ TxRequest
        \/ (BlockRequest \/ BlockEnvironment) /\ UNCHANGED <<facc, told>>

Spec == Init /\ [][Next]_vars
-----------------------------------------------------------------------------
(* Sources and request have their types, and what the answer tells about   *)
(* accepting blocks belongs to its transactions.                           *)
TypeOK ==
    /\ world \in World /\ past \subseteq World /\ world \in past
    /\ changes \in 0..MaxChanges /\ QueryOK(q)
    /\ transport \in {"grpc", "wrpc"} /\ current \in Nat /\ score \in Nat
    /\ pc \in Settled \cup {"start", "db", "body", "hashes", "blocks", "rows",
                            "acceptance", "hint", "scores", "inputs"}
    /\ todo \subseteq Block /\ res \subseteq Block /\ found \subseteq Tx
    /\ facc \in [Tx -> AtMostOne]
    /\ told \subseteq Accepting(facc, Tx)

TxOps == {"tx", "ids", "scores", "acceptance", "chain"}

(* The acceptances in one answer held together at one moment of the        *)
(* request: an answer never mixes two states of the chain.                 *)
AcceptancesHeldTogether ==
    q.op \in TxOps /\ pc = "answered" =>
        \E w \in past : \A x \in found : facc[x] = w.acc[x]

(* The blue score of an accepting block is left out only if neither source *)
(* had the block all the time (get_transactions.py:204-212, 293-307).      *)
ScoreIsTold ==
    q.op \in {"tx", "ids", "scores"} /\ pc = "answered" =>
        \A x \in found : \A b \in facc[x] \ told :
            /\ \E w \in past : b \notin w.blocks
            /\ \E w \in past : ~(w.up /\ b \in w.node)

\* What the query asks for, in a state w of the sources.
Asked(w, x) ==
    /\ q.op # "from_score"
    /\ q.op = "block" => x \in Content[q.b] \cap w.txs
    /\ q.op = "tx" => x = q.x /\ x \in w.txs
    /\ q.op = "ids" => x \in w.txs /\ ModeFits(w, x)
    /\ q.op = "scores" => x \in w.txs /\ q.gte # 0 /\ AcceptedBetween(w, x, q.gte, q.lt)
    /\ q.op = "chain" => /\ AcceptedBetween(w, x, q.gte, q.gte + ChainLimit)
                         /\ ~(0 < current /\ current < q.gte)
                         /\ q.coinbase \/ x \in w.txs \cap HasInputs

\* The node could give q.x from the block that the client names.
Hinted(w) == q.op = "tx" /\ \E b \in q.hint : w.up /\ b \in w.node /\ q.x \in Content[b]

(* An answer leaves out no transaction that fitted the query all the time, *)
(* although its parts are read by different statements and from different  *)
(* sources.                                                                *)
NothingOverlooked ==
    /\ pc = "answered" \/ (pc = "not_found" /\ q.op = "tx") =>
          \A x \in Tx : (\A w \in past : Asked(w, x)) => x \in found
    /\ pc = "not_found" /\ q.op = "tx" => \E w \in past : ~Hinted(w)

(* A lookup whose rows were there all the time does not depend on the      *)
(* node: only with gRPC, and only for want of a row or for a score of 0, a *)
(* request fails.                                                          *)
FailsOnlyWithoutRows ==
    pc = "failed" /\ q.op \in TxOps =>
        /\ \E w \in past : ~w.up
        /\ \E w \in past : \/ q.op = "tx" /\ q.x \notin w.txs
                           \/ q.op = "tx" /\ \E b \in w.acc[q.x] : Score[b] = 0
                           \/ \E x \in Tx : Asked(w, x) /\ ~(w.acc[x] \subseteq w.blocks)

(* What is in the database is told, whatever the node does.                *)
RowsAreEnough == ScoreIsTold /\ FailsOnlyWithoutRows
=============================================================================
