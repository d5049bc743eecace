---------------------- MODULE TransactionLookupProofs ----------------------
(***************************************************************************)
(* Theorems about the lookup endpoints, for any number of blocks and       *)
(* transactions, any request, and any number of changes of the database    *)
(* and the node between its statements.                                    *)
(***************************************************************************)
EXTENDS TransactionLookup, WellFoundedInduction, TLAPS

AllAssumptions ==
    /\ Content \in [Block -> SUBSET Tx] /\ Score \in [Block -> Nat]
    /\ MaxChanges \in Nat /\ Day \in Nat /\ HasInputs \subseteq Tx
    /\ \A s \in Starts : /\ QueryOK(s.q) /\ s.world \in World
                         /\ s.transport \in {"grpc", "wrpc"} /\ s.current \in Nat

LEMMA Assumptions == AllAssumptions
BY BlockAssumption, BoundAssumption, DayAssumption, LimitAssumption, StartAssumption
   DEF AllAssumptions
-----------------------------------------------------------------------------
(* The inductive invariant.  Which requests are where, and what they hold. *)
PlaceInv ==
    /\ pc \in {"db", "body"} => q.op = "block"
    /\ pc \in {"hashes", "blocks", "rows"} => q.op = "from_score"
    /\ pc \in {"acceptance", "hint"} => q.op = "tx"
    /\ pc = "scores" => q.op \in {"tx", "ids", "scores"}
    /\ pc = "inputs" => q.op = "chain"
    /\ pc = "start" => found = {} /\ todo = {}
    /\ pc \in {"start", "hashes", "rows"} => res = {}
    /\ pc = "acceptance" => found \subseteq world.txs /\ todo = {}
    /\ pc \in {"hint", "scores"} => todo \subseteq Accepting(facc, Tx)
    /\ q.op = "tx" => found \subseteq {q.x}
    /\ pc = "hint" => found = {}

\* Rows of blocks and of transactions are never deleted.
PastInv == \A w \in past : w.blocks \subseteq world.blocks /\ w.txs \subseteq world.txs

\* The database is asked for a block after a moment without it in the node.
BlockInv ==
    q.op = "block" /\ pc \in {"db", "not_found"} =>
        \E w \in past : /\ ~(w.up /\ q.b \in w.node)
                        /\ pc = "not_found" => q.b \notin w.blocks

Nearer(s, t) == IF q.kind = "lt" THEN t <= s ELSE s <= t

\* The chosen score is the nearest, and the rows it was taken from remain.
ScoreInv ==
    q.op = "from_score" /\ pc \in {"hashes", "blocks", "rows"} =>
        /\ InRange(score)
        /\ \A b \in Block : InRange(Score[b]) /\ (\A w \in past : b \in w.blocks) =>
                                Nearer(score, Score[b])
        /\ q.kind # "eq" => RowsOf(score) # {}

\* Of these rows, those that the node has are still to be asked for, or found.
ListInv ==
    q.op = "from_score" =>
        /\ pc = "blocks" =>
              /\ todo # {} /\ \A b \in todo \cup res : Score[b] = score
              /\ \A b \in Block :
                    /\ Score[b] = score
                    /\ \A w \in past : b \in w.blocks /\ b \in w.node /\ w.up
                    => b \in todo \cup res
        /\ ListIsNearest /\ ListHasNodeBlocks

Target == IF q.op = "tx" THEN {q.x} ELSE {}

\* The acceptances that were read held together.
HeldInv ==
    q.op \in TxOps /\ pc \in {"hint", "scores", "inputs", "answered"} =>
        \E w \in past : \A x \in found \cup Target : facc[x] = w.acc[x]

\* A score that is not told was missing in the database, and the node is
\* still to be asked for it, or did not have it.
ToldInv ==
    q.op \in {"tx", "ids", "scores"} /\ pc \in {"hint", "scores", "answered"} =>
        /\ pc = "answered" => todo = {}
        /\ \A x \in found \cup Target : \A b \in facc[x] \ told :
              /\ \E w \in past : b \notin w.blocks
              /\ b \in todo \/ \E w \in past : ~(w.up /\ b \in w.node)

\* A transaction that is not found was once not asked for.
CoverInv ==
    /\ q.op = "block" /\ pc = "answered" =>
          \A x \in Tx : (\A w \in past : Asked(w, x)) => x \in found
    /\ q.op = "tx" /\ pc # "start" /\ found = {} => \E w \in past : q.x \notin w.txs
    /\ q.op = "tx" /\ pc = "not_found" => \E w \in past : ~Hinted(w)
    /\ q.op \in {"ids", "scores"} /\ pc \in {"scores", "answered"} =>
          \A x \in Tx \ found : \E w \in past : ~Asked(w, x)
    /\ q.op = "acceptance" /\ pc = "answered" => found = Tx
    /\ q.op = "chain" /\ pc = "inputs" =>
          \A x \in Tx \ found : \E w \in past :
              ~AcceptedBetween(w, x, q.gte, q.gte + ChainLimit)
    /\ q.op = "chain" /\ pc = "answered" =>
          \A x \in Tx \ found : \E w \in past : ~Asked(w, x)

\* The node is asked for scores for want of a row, or for a score of 0.
FailInv ==
    /\ q.op \in TxOps /\ pc = "scores" =>
          \E w \in past : \/ q.op = "tx" /\ q.x \notin w.txs
                          \/ q.op = "tx" /\ \E b \in w.acc[q.x] : Score[b] = 0
                          \/ \E x \in Tx : Asked(w, x) /\ ~(w.acc[x] \subseteq w.blocks)
    /\ FailsOnlyWithoutRows

LookupInv == /\ TypeOK /\ PlaceInv /\ PastInv /\ BlockInv /\ ScoreInv /\ ListInv
             /\ HeldInv /\ ToldInv /\ CoverInv /\ FailInv
-----------------------------------------------------------------------------
(* What the joined rows tell belongs to the transactions that were read.   *)
LEMMA AcceptingRestrict ==
    ASSUME NEW acc \in [Tx -> AtMostOne], NEW S \in SUBSET Tx
    PROVE  /\ Restrict(acc, S) \in [Tx -> AtMostOne]
           /\ Accepting(Restrict(acc, S), Tx) = Accepting(acc, S)
           /\ Accepting(acc, S) \subseteq Block
BY DEF Restrict, Accepting, AtMostOne

(* Every non-empty set of natural numbers has a least element: blue scores.  *)
LEMMA LeastNatural ==
    ASSUME NEW S \in SUBSET Nat, S # {}
    PROVE  \E m \in S : \A j \in S : m <= j
<1> DEFINE R == OpToRel(<, Nat)
<1>1. \A x, y \in Nat : ~ (<<y, x>> \in R) => x <= y
  BY DEF OpToRel
<1> HIDE DEF R
<1>2. \E m \in S : \A j \in S : ~ (<<j, m>> \in R)
  BY NatLessThanWellFounded, WFMin DEF R
<1> QED BY <1>1, <1>2

(* The nearest score exists (get_blocks.py:231-251, LIMIT 1).              *)
LEMMA NearestExists ==
    ASSUME NEW S \in SUBSET Nat, S # {}, q.kind = "lt" => q.n \in Nat /\ \A s \in S : s < q.n
    PROVE  NearestOf(S) \in S /\ \A t \in S : Nearer(NearestOf(S), t)
<1>1. \E s \in S : \A t \in S : IF q.kind = "lt" THEN t <= s ELSE s <= t
  <2>1. CASE q.kind # "lt"
    BY <2>1, LeastNatural
  <2>2. CASE q.kind = "lt"
    <3> DEFINE Left == {q.n - s : s \in S}
    <3>1. Left \in SUBSET Nat /\ Left # {}
      BY <2>2
    <3>2. PICK m \in Left : \A j \in Left : m <= j
      BY <3>1, LeastNatural
    <3>3. PICK s \in S : m = q.n - s
      BY <3>2
    <3>4. \A t \in S : t <= s
      <4> TAKE t \in S
      <4>1. q.n - t \in Left
        OBVIOUS
      <4>2. q.n - s <= q.n - t
        BY <4>1, <3>2, <3>3
      <4> QED BY <4>2, <2>2
    <3> QED BY <3>4, <2>2
  <2> QED BY <2>1, <2>2
<1> QED BY <1>1 DEF NearestOf, Nearer
-----------------------------------------------------------------------------
LEMMA Initially == Init => LookupInv
<1> SUFFICES ASSUME Init PROVE LookupInv
  OBVIOUS
<1>1. PICK s \in Starts :
        /\ world = s.world /\ past = {s.world} /\ changes = 0
        /\ q = s.q /\ transport = s.transport /\ current = s.current
        /\ pc = "start" /\ score = 0 /\ todo = {} /\ res = {} /\ found = {}
  BY DEF Init, BlockInit
<1>2. QueryOK(q) /\ world \in World /\ transport \in {"grpc", "wrpc"} /\ current \in Nat
  BY <1>1, Assumptions DEF AllAssumptions
<1>3. facc \in [Tx -> AtMostOne] /\ told = {}
  BY DEF Init, NoBlock, AtMostOne
<1>4. TypeOK
  BY <1>1, <1>2, <1>3, Assumptions DEF TypeOK, AllAssumptions
<1>5. PlaceInv /\ PastInv
  BY <1>1 DEF PlaceInv, PastInv
<1>6. BlockInv /\ ScoreInv /\ ListInv
  BY <1>1 DEF BlockInv, ScoreInv, ListInv, ListIsNearest, ListHasNodeBlocks
<1>7. HeldInv /\ ToldInv /\ CoverInv /\ FailInv
  BY <1>1 DEF HeldInv, ToldInv, CoverInv, FailInv, FailsOnlyWithoutRows
<1> QED BY <1>4, <1>5, <1>6, <1>7 DEF LookupInv

(* A change of the sources only adds rows of blocks and transactions.      *)
LEMMA ChangeKeepsRows ==
    ASSUME TypeOK, SourcesStep
    PROVE  /\ world' \in World /\ past' = past \cup {world'}
           /\ changes' \in 0..MaxChanges
           /\ world.blocks \subseteq world'.blocks /\ world.txs \subseteq world'.txs
<1> USE DEF TypeOK, World
<1>1. changes < MaxChanges /\ changes' = changes + 1 /\ past' = past \cup {world'}
  BY DEF SourcesStep, IndexBlock, IndexTransaction, Reorganise, NodeReceives,
         NodePrunes, NodeGoesOrReturns, Change
<1>2. changes' \in 0..MaxChanges
  BY <1>1, Assumptions DEF AllAssumptions
<1>3. CASE IndexBlock
  BY <1>1, <1>2, <1>3 DEF IndexBlock, Change
<1>4. CASE IndexTransaction
  BY <1>1, <1>2, <1>4 DEF IndexTransaction, Change
<1>5. CASE Reorganise
  <2>1. PICK x \in Tx, S \in AtMostOne : world' = [world EXCEPT !.acc[x] = S]
    BY <1>5 DEF Reorganise, Change
  <2>2. [world.acc EXCEPT ![x] = S] \in [Tx -> AtMostOne]
    OBVIOUS
  <2> QED BY <1>1, <1>2, <2>1, <2>2
<1>6. CASE NodeReceives
  BY <1>1, <1>2, <1>6 DEF NodeReceives, Change
<1>7. CASE NodePrunes
  BY <1>1, <1>2, <1>7 DEF NodePrunes, Change
<1>8. CASE NodeGoesOrReturns
  BY <1>1, <1>2, <1>8 DEF NodeGoesOrReturns, Change
<1> QED BY <1>3, <1>4, <1>5, <1>6, <1>7, <1>8 DEF SourcesStep

(* What was true at some moment of the request stays so; what was true at  *)
(* every moment can only cease to be.                                      *)
LEMMA EnvironmentStep ==
    LookupInv /\ BlockEnvironment /\ UNCHANGED <<facc, told>> => LookupInv'
<1> SUFFICES ASSUME LookupInv, BlockEnvironment, UNCHANGED <<facc, told>>
             PROVE  LookupInv'
  OBVIOUS
<1> USE DEF LookupInv
<1>1. /\ UNCHANGED <<fixed, pc, score, todo, res, found, facc, told>>
      /\ pc \notin Settled \cup {"start"}
      /\ past \subseteq past' /\ world' \in World /\ world' \in past'
      /\ past' \subseteq past \cup {world'}
      /\ changes' \in 0..MaxChanges /\ current' \in Nat
      /\ world.blocks \subseteq world'.blocks /\ world.txs \subseteq world'.txs
  <2>1. CASE SourcesStep /\ UNCHANGED <<fixed, current, pc, score, todo, res, found>>
    BY <2>1, ChangeKeepsRows DEF BlockEnvironment, TypeOK
  <2>2. CASE UpdateBlueScore
    BY <2>2, Assumptions DEF BlockEnvironment, UpdateBlueScore, TypeOK, AllAssumptions
  <2> QED BY <2>1, <2>2 DEF BlockEnvironment
<1> USE DEF fixed
<1>2. TypeOK'
  BY <1>1 DEF TypeOK
<1>3. PlaceInv'
  BY <1>1 DEF PlaceInv
<1>4. PastInv'
  BY <1>1 DEF PastInv
<1>5. BlockInv'
  BY <1>1 DEF BlockInv
<1>6. ScoreInv'
  BY <1>1 DEF ScoreInv, InRange, Nearer, RowsOf
<1>7. ListInv'
  BY <1>1 DEF ListInv, ListIsNearest, ListHasNodeBlocks, Settled
<1>8. HeldInv'
  BY <1>1 DEF HeldInv, Target
<1>9. ToldInv'
  BY <1>1 DEF ToldInv, Target
<1>10. CoverInv'
  <2>1. q.op \in {"ids", "scores"} => \A w \in past, x \in Tx : Asked(w, x)' = Asked(w, x)
    BY <1>1 DEF Asked, ModeFits, AcceptedBetween
  <2>2. \A w \in past, x \in Tx :
           AcceptedBetween(w, x, q.gte, q.gte + ChainLimit)' =
           AcceptedBetween(w, x, q.gte, q.gte + ChainLimit)
    BY <1>1 DEF AcceptedBetween
  <2> QED BY <1>1, <2>1, <2>2 DEF CoverInv, Settled
<1>11. FailInv'
  <2>1. q.op \in {"tx", "ids", "scores"} =>
           \A w \in past, x \in Tx : Asked(w, x)' = Asked(w, x)
    BY <1>1 DEF Asked, ModeFits, AcceptedBetween
  <2> QED BY <1>1, <2>1 DEF FailInv, FailsOnlyWithoutRows, Settled, PlaceInv
<1> QED BY <1>2, <1>3, <1>4, <1>5, <1>6, <1>7, <1>8, <1>9, <1>10, <1>11

(* GET /blocks/{blockId}.                                                  *)
LEMMA BlockStep ==
    /\ LookupInv /\ UNCHANGED <<facc, told>>
    /\ BlockFromNode \/ BlockFromDb \/ BlockBody
    => LookupInv'
<1> SUFFICES ASSUME LookupInv, UNCHANGED <<facc, told>>,
                    BlockFromNode \/ BlockFromDb \/ BlockBody
             PROVE  LookupInv'
  OBVIOUS
<1> USE DEF LookupInv
<1>1. /\ UNCHANGED <<sources, fixed, current, score, todo, facc, told>>
      /\ q.op = "block" /\ world \in past /\ q.b \in Block
  BY DEF BlockFromNode, BlockFromDb, BlockBody, PlaceInv, TypeOK, QueryOK
<1> USE DEF sources, fixed
<1>2. /\ pc' \in {"answered", "failed", "db", "body", "not_found"}
      /\ res' \subseteq Block /\ found' \subseteq Tx
  BY <1>1, Assumptions
     DEF BlockFromNode, BlockFromDb, BlockBody, TypeOK, AllAssumptions
<1>3. TypeOK'
  BY <1>1, <1>2 DEF TypeOK, Settled
<1>4. PlaceInv'
  BY <1>1, <1>2 DEF PlaceInv
<1>5. PastInv'
  BY <1>1 DEF PastInv
<1>6. BlockInv'
  <2>1. CASE BlockFromNode
    BY <1>1, <2>1 DEF BlockFromNode, BlockInv, NodeHas
  <2>2. CASE BlockFromDb
    BY <1>1, <2>2 DEF BlockFromDb, BlockInv, PastInv
  <2>3. CASE BlockBody
    BY <1>1, <2>3 DEF BlockBody, BlockInv
  <2> QED BY <2>1, <2>2, <2>3
<1>7. ScoreInv' /\ ListInv' /\ HeldInv' /\ ToldInv'
  BY <1>1 DEF ScoreInv, ListInv, HeldInv, ToldInv, TxOps
<1>8. CoverInv'
  <2>1. pc' = "answered" => \A x \in Tx : Asked(world, x)' => x \in found'
    BY <1>1 DEF BlockFromNode, BlockFromDb, BlockBody, Asked
  <2> QED BY <1>1, <2>1 DEF CoverInv
<1>9. FailInv'
  BY <1>1 DEF FailInv, FailsOnlyWithoutRows, TxOps
<1> QED BY <1>3, <1>4, <1>5, <1>6, <1>7, <1>8, <1>9

(* GET /blocks-from-bluescore: what all its statements leave alone.        *)
ListRest ==
    /\ UNCHANGED <<sources, fixed, current, facc, told, found>>
    /\ q.op = "from_score"
    /\ pc' \in {"hashes", "blocks", "rows", "answered", "failed"}
    /\ todo' \subseteq Block /\ res' \subseteq Block /\ score' \in Nat
    /\ pc' \in {"hashes", "rows"} => res' = {}

LEMMA ListRestStep ==
    LookupInv /\ ListRest =>
        /\ TypeOK' /\ PlaceInv' /\ PastInv' /\ BlockInv'
        /\ HeldInv' /\ ToldInv' /\ CoverInv' /\ FailInv'
<1> SUFFICES ASSUME LookupInv, ListRest
             PROVE  /\ TypeOK' /\ PlaceInv' /\ PastInv' /\ BlockInv'
                    /\ HeldInv' /\ ToldInv' /\ CoverInv' /\ FailInv'
  OBVIOUS
<1> USE DEF LookupInv, ListRest, sources, fixed
<1>1. TypeOK' /\ PlaceInv' /\ PastInv'
  BY DEF TypeOK, Settled, PlaceInv, PastInv
<1>2. BlockInv' /\ HeldInv' /\ ToldInv' /\ CoverInv' /\ FailInv'
  BY DEF BlockInv, HeldInv, ToldInv, CoverInv, FailInv, FailsOnlyWithoutRows, TxOps
<1> QED BY <1>1, <1>2

\* A row that was there all the time is there now.
LEMMA LastingRow ==
    ASSUME TypeOK, NEW b, \A w \in past : b \in w.blocks
    PROVE  b \in world.blocks
BY DEF TypeOK

LEMMA ChooseScoreStep ==
    LookupInv /\ ChooseScore /\ UNCHANGED <<facc, told>> => LookupInv'
<1> SUFFICES ASSUME LookupInv, ChooseScore, UNCHANGED <<facc, told>>
             PROVE  LookupInv'
  OBVIOUS
<1> USE DEF LookupInv
<1> DEFINE scores == {s \in {Score[b] : b \in world.blocks} : InRange(s)}
           none == \/ q.kind # "lt" /\ q.n > current
                   \/ q.kind # "eq" /\ scores = {}
           s == IF q.kind = "eq" THEN q.n ELSE NearestOf(scores)
<1>1. /\ q.op = "from_score" /\ pc = "start"
      /\ q.kind \in {"eq", "gte", "lt"} /\ q.n \in Nat /\ current \in Nat
      /\ world.blocks \subseteq Block /\ res = {} /\ todo = {}
  BY DEF ChooseScore, TypeOK, QueryOK, PlaceInv, World
<1>2. /\ UNCHANGED <<sources, fixed, current, todo, res, found>>
      /\ IF none THEN pc' = "answered" /\ UNCHANGED score
         ELSE score' = s /\ pc' \in {"hashes", "rows"}
  BY DEF ChooseScore
<1>3. scores \in SUBSET Nat
  BY <1>1, Assumptions DEF AllAssumptions
<1>4. ~none /\ q.kind # "eq" => s \in scores /\ \A t \in scores : Nearer(s, t)
  <2> SUFFICES ASSUME ~none, q.kind # "eq"
               PROVE  s \in scores /\ \A t \in scores : Nearer(s, t)
    OBVIOUS
  <2>1. q.kind = "lt" => \A t \in scores : t < q.n
    BY DEF InRange
  <2>2. NearestOf(scores) \in scores /\ \A t \in scores : Nearer(NearestOf(scores), t)
    BY <1>1, <1>3, <2>1, NearestExists
  <2> QED BY <2>2
<1>5. \A b \in Block : InRange(Score[b]) /\ (\A w \in past : b \in w.blocks) =>
                           Score[b] \in scores
  BY LastingRow
<1>6. score' \in Nat
  BY <1>1, <1>2, <1>3, <1>4 DEF TypeOK
<1>7. ListRest
  BY <1>1, <1>2, <1>6 DEF ListRest
<1>8. ScoreInv'
  <2> SUFFICES ASSUME ~none PROVE ScoreInv'
    BY <1>2 DEF ScoreInv
  <2>1. CASE q.kind = "eq"
    BY <1>1, <1>2, <2>1 DEF ScoreInv, InRange, Nearer, fixed, sources
  <2>2. CASE q.kind # "eq"
    <3>1. PICK b \in world.blocks : Score[b] = s /\ InRange(s)
      BY <1>4, <2>2
    <3>2. RowsOf(score)' # {}
      BY <1>2, <3>1 DEF RowsOf, sources
    <3>3. InRange(score)'
      BY <1>2, <3>1 DEF InRange, fixed
    <3>4. \A c \in Block : InRange(Score[c]) /\ (\A w \in past : c \in w.blocks) =>
                              Nearer(s, Score[c])
      BY <1>4, <1>5, <2>2
    <3> QED BY <1>2, <3>2, <3>3, <3>4 DEF ScoreInv, InRange, Nearer, fixed, sources
  <2> QED BY <2>1, <2>2
<1>9. ListInv'
  <2>1. ListIsNearest'
    <3> SUFFICES ASSUME none PROVE ListIsNearest'
      BY <1>2 DEF ListIsNearest
    <3>1. CASE q.kind # "lt" /\ q.n > current
      BY <1>1, <1>2, <3>1 DEF ListIsNearest, fixed, sources
    <3>2. CASE scores = {}
      BY <1>1, <1>2, <1>5, <3>2 DEF ListIsNearest, InRange, fixed, sources
    <3> QED BY <3>1, <3>2
  <2>2. ListHasNodeBlocks' /\ pc' # "blocks"
    BY <1>1, <1>2 DEF ListHasNodeBlocks
  <2> QED BY <2>1, <2>2 DEF ListInv
<1> QED BY <1>7, <1>8, <1>9, ListRestStep

LEMMA ReadHashesStep ==
    LookupInv /\ ReadHashes /\ UNCHANGED <<facc, told>> => LookupInv'
<1> SUFFICES ASSUME LookupInv, ReadHashes, UNCHANGED <<facc, told>>
             PROVE  LookupInv'
  OBVIOUS
<1> USE DEF LookupInv
<1>1. /\ q.op = "from_score" /\ pc = "hashes"
      /\ UNCHANGED <<sources, fixed, current, score, res, found>>
      /\ todo' = RowsOf(score)
      /\ pc' = IF RowsOf(score) = {} THEN "answered" ELSE "blocks"
      /\ q.kind \in {"eq", "gte", "lt"} /\ q.n \in Nat
      /\ world.blocks \subseteq Block
  BY DEF ReadHashes, PlaceInv, TypeOK, QueryOK, World
<1>2. ListRest
  BY <1>1 DEF ListRest, RowsOf, TypeOK
<1> USE DEF sources, fixed
<1>3. ScoreInv'
  BY <1>1 DEF ScoreInv, InRange, Nearer, RowsOf
<1>4. CASE RowsOf(score) = {}
  <2>1. q.kind = "eq" /\ InRange(score)
    BY <1>1, <1>4 DEF ScoreInv
  <2>2. \A b \in Block : InRange(Score[b]) => ~ \A w \in past : b \in w.blocks
    BY <1>1, <1>4, <2>1, LastingRow DEF InRange, RowsOf
  <2>3. pc' = "answered" /\ res' = {}
    BY <1>1, <1>4 DEF PlaceInv
  <2>4. ListInv'
    BY <1>1, <2>2, <2>3 DEF ListInv, ListIsNearest, ListHasNodeBlocks, InRange
  <2> QED BY <1>2, <1>3, <2>4, ListRestStep
<1>5. CASE RowsOf(score) # {}
  <2>1. pc' = "blocks" /\ res' = {} /\ todo' # {}
    BY <1>1, <1>5 DEF PlaceInv
  <2>2. \A b \in todo' \cup res' : Score[b] = score'
    BY <1>1, <2>1 DEF RowsOf
  <2>3. \A b \in Block : (Score[b] = score' /\ \A w \in past : b \in w.blocks) => b \in todo'
    BY <1>1, LastingRow DEF RowsOf
  <2>4. ListInv'
    BY <1>1, <2>1, <2>2, <2>3 DEF ListInv, ListIsNearest, ListHasNodeBlocks
  <2> QED BY <1>2, <1>3, <2>4, ListRestStep
<1> QED BY <1>4, <1>5

LEMMA AskNodeStep ==
    LookupInv /\ AskNode /\ UNCHANGED <<facc, told>> => LookupInv'
<1> SUFFICES ASSUME LookupInv, AskNode, UNCHANGED <<facc, told>>
             PROVE  LookupInv'
  OBVIOUS
<1> USE DEF LookupInv
<1>1. /\ q.op = "from_score" /\ pc = "blocks"
      /\ UNCHANGED <<sources, fixed, current, score, found>>
      /\ todo \subseteq Block /\ res \subseteq Block /\ world \in past
  BY DEF AskNode, PlaceInv, TypeOK
<1>2. PICK b \in todo :
        IF NodeRaises
        THEN pc' = "failed" /\ UNCHANGED <<todo, res>>
        ELSE /\ todo' = todo \ {b}
             /\ res' = IF NodeHas(b) THEN res \cup {b} ELSE res
             /\ pc' = IF todo' # {} THEN pc ELSE IF res' = {} THEN "rows" ELSE "answered"
  BY DEF AskNode
<1>3. ListRest
  BY <1>1, <1>2 DEF ListRest, TypeOK
<1> USE DEF sources, fixed
<1>4. ScoreInv'
  BY <1>1 DEF ScoreInv, InRange, Nearer, RowsOf
<1>5. \A c \in todo' \cup res' : Score[c] = score'
  BY <1>1, <1>2 DEF ListInv
<1>6. ASSUME pc' # "failed", NEW c \in Block, Score[c] = score,
             \A w \in past : c \in w.blocks /\ c \in w.node /\ w.up
      PROVE  c \in todo' \cup res'
  BY <1>1, <1>2, <1>6 DEF ListInv, NodeHas
<1>7. pc' = "answered" => ListIsNearest' /\ ListHasNodeBlocks'
  <2> SUFFICES ASSUME pc' = "answered" PROVE ListIsNearest' /\ ListHasNodeBlocks'
    OBVIOUS
  <2>1. todo' = {} /\ res' # {}
    BY <1>1, <1>2
  <2>2. InRange(score) /\ \A c \in Block :
           InRange(Score[c]) /\ (\A w \in past : c \in w.blocks) => Nearer(score, Score[c])
    BY <1>1 DEF ScoreInv
  <2>3. ListIsNearest'
    BY <1>1, <1>5, <2>1, <2>2 DEF ListIsNearest, InRange, Nearer
  <2>4. ListHasNodeBlocks'
    BY <1>1, <1>6, <2>1 DEF ListHasNodeBlocks
  <2> QED BY <2>3, <2>4
<1>8. pc' # "answered" => ListIsNearest' /\ ListHasNodeBlocks'
  BY DEF ListIsNearest, ListHasNodeBlocks
<1>9. ListInv'
  BY <1>1, <1>2, <1>5, <1>6, <1>7, <1>8 DEF ListInv
<1> QED BY <1>3, <1>4, <1>9, ListRestStep

LEMMA ReadRowsStep ==
    LookupInv /\ ReadRows /\ UNCHANGED <<facc, told>> => LookupInv'
<1> SUFFICES ASSUME LookupInv, ReadRows, UNCHANGED <<facc, told>>
             PROVE  LookupInv'
  OBVIOUS
<1> USE DEF LookupInv
<1>1. /\ q.op = "from_score" /\ pc = "rows" /\ pc' = "answered"
      /\ UNCHANGED <<sources, fixed, current, score, todo, found>>
      /\ res' = RowsOf(score) /\ world.blocks \subseteq Block
      /\ q.kind \in {"eq", "gte", "lt"}
  BY DEF ReadRows, PlaceInv, TypeOK, QueryOK, World
<1>2. ListRest
  BY <1>1 DEF ListRest, RowsOf, TypeOK
<1> USE DEF sources, fixed
<1>3. ScoreInv'
  BY <1>1 DEF ScoreInv
<1>4. InRange(score) /\ \A c \in Block :
         InRange(Score[c]) /\ (\A w \in past : c \in w.blocks) => Nearer(score, Score[c])
  BY <1>1 DEF ScoreInv
<1>5. res' = {} => \A c \in Block : InRange(Score[c]) => ~ \A w \in past : c \in w.blocks
  <2> SUFFICES ASSUME RowsOf(score) = {}, NEW c \in Block, InRange(Score[c]),
                      \A w \in past : c \in w.blocks
               PROVE  FALSE
    BY <1>1
  <2>1. q.kind = "eq"
    BY <1>1 DEF ScoreInv
  <2>2. c \in RowsOf(score)
    BY <1>4, <2>1, LastingRow DEF InRange, RowsOf
  <2> QED BY <2>2
<1>6. ListIsNearest'
  BY <1>1, <1>4, <1>5 DEF ListIsNearest, InRange, Nearer, RowsOf
<1>7. ListHasNodeBlocks'
  BY <1>1, LastingRow DEF ListHasNodeBlocks, RowsOf
<1>8. ListInv'
  BY <1>1, <1>6, <1>7 DEF ListInv
<1> QED BY <1>2, <1>3, <1>8, ListRestStep

(* The transaction endpoints: what all their statements leave alone.       *)
TxRest == UNCHANGED <<sources, fixed, current, score, res>> /\ q.op \in TxOps

LEMMA TxRestStep ==
    LookupInv /\ TxRest => PastInv' /\ BlockInv' /\ ScoreInv' /\ ListInv'
BY DEF LookupInv, TxRest, sources, fixed, TxOps, PastInv, BlockInv, ScoreInv, ListInv

LEMMA ReadTransactionStep == LookupInv /\ ReadTransaction => LookupInv'
<1> SUFFICES ASSUME LookupInv, ReadTransaction PROVE LookupInv'
  OBVIOUS
<1> USE DEF LookupInv
<1>1. /\ q.op = "tx" /\ pc = "start" /\ world \in past /\ q.x \in Tx
      /\ UNCHANGED <<sources, fixed, current, score, todo, res, facc, told>>
      /\ found' = {q.x} \cap world.txs /\ todo = {}
      /\ pc' = IF found' = {} /\ q.hint = {} THEN "not_found" ELSE "acceptance"
  BY DEF ReadTransaction, TypeOK, QueryOK, PlaceInv
<1>2. TxRest
  BY <1>1 DEF TxRest, TxOps
<1> USE DEF sources, fixed
<1>3. TypeOK' /\ PlaceInv'
  BY <1>1 DEF TypeOK, PlaceInv, Settled
<1>4. HeldInv' /\ ToldInv' /\ FailInv'
  BY <1>1 DEF HeldInv, ToldInv, FailInv, FailsOnlyWithoutRows
<1>5. found' = {} => q.x \notin world.txs
  BY <1>1
<1>6. pc' = "not_found" => ~Hinted(world)'
  BY <1>1 DEF Hinted
<1>7. CoverInv'
  BY <1>1, <1>5, <1>6 DEF CoverInv
<1> QED BY <1>2, <1>3, <1>4, <1>7, TxRestStep

LEMMA ReadAcceptanceStep == LookupInv /\ ReadAcceptance => LookupInv'
<1> SUFFICES ASSUME LookupInv, ReadAcceptance PROVE LookupInv'
  OBVIOUS
<1> USE DEF LookupInv
<1>1. /\ q.op = "tx" /\ pc = "acceptance" /\ world \in past /\ q.x \in Tx
      /\ UNCHANGED <<sources, fixed, current, score, res, found>>
      /\ facc' = Restrict(world.acc, {q.x})
      /\ told' = Accepting(world.acc, {q.x}) \cap world.blocks
      /\ todo' = {b \in Accepting(world.acc, {q.x}) : b \in world.blocks => Score[b] = 0}
      /\ pc' = IF found = {} THEN "hint" ELSE IF todo' = {} THEN "answered" ELSE "scores"
      /\ world.acc \in [Tx -> AtMostOne]
  BY DEF ReadAcceptance, JoinAcceptances, MissingScores, TypeOK, World, QueryOK, PlaceInv
<1>2. /\ facc' \in [Tx -> AtMostOne]
      /\ Accepting(facc', Tx) = Accepting(world.acc, {q.x})
      /\ Accepting(world.acc, {q.x}) \subseteq Block
  BY <1>1, AcceptingRestrict
<1>3. facc'[q.x] = world.acc[q.x] /\ Accepting(world.acc, {q.x}) = world.acc[q.x]
  BY <1>1 DEF Restrict, Accepting
<1>4. found \subseteq {q.x} /\ found \subseteq world.txs
  BY <1>1 DEF PlaceInv
<1>5. TxRest
  BY <1>1 DEF TxRest, TxOps
<1> USE DEF sources, fixed
<1>6. TypeOK'
  BY <1>1, <1>2 DEF TypeOK, Settled
<1>7. PlaceInv'
  BY <1>1, <1>2 DEF PlaceInv
<1>8. HeldInv'
  BY <1>1, <1>3, <1>4 DEF HeldInv, Target
<1>9. ToldInv'
  BY ZenonT(40), <1>1, <1>3, <1>4 DEF ToldInv, Target
<1>10. CoverInv'
  BY <1>1 DEF CoverInv
<1>11. pc' = "scores" => /\ Asked(world, q.x)'
                         /\ \/ \E b \in world.acc[q.x] : Score[b] = 0
                            \/ ~(world.acc[q.x] \subseteq world.blocks)
  BY <1>1, <1>3, <1>4 DEF Asked
<1>12. FailInv'
  BY <1>1, <1>11 DEF FailInv, FailsOnlyWithoutRows
<1> QED BY <1>5, <1>6, <1>7, <1>8, <1>9, <1>10, <1>12, TxRestStep

LEMMA ReadHintStep == LookupInv /\ ReadHint => LookupInv'
<1> SUFFICES ASSUME LookupInv, ReadHint PROVE LookupInv'
  OBVIOUS
<1> USE DEF LookupInv
<1>1. /\ q.op = "tx" /\ pc = "hint" /\ world \in past /\ q.x \in Tx /\ found = {}
      /\ UNCHANGED <<sources, fixed, current, score, todo, res, facc, told>>
      /\ q.hint \in AtMostOne
  BY DEF ReadHint, TypeOK, QueryOK, PlaceInv
<1>2. PICK b \in q.hint :
         \/ NodeRaises /\ pc' = "failed" /\ UNCHANGED found
         \/ /\ NodeHas(b) /\ q.x \in Content[b] /\ found' = {q.x}
            /\ pc' = IF todo = {} THEN "answered" ELSE "scores"
         \/ /\ ~NodeRaises /\ ~(NodeHas(b) /\ q.x \in Content[b])
            /\ pc' = "not_found" /\ UNCHANGED found
  BY DEF ReadHint
<1>3. TxRest
  BY <1>1 DEF TxRest, TxOps
<1> USE DEF sources, fixed
<1>4. found' \subseteq {q.x} /\ pc' \in {"failed", "answered", "scores", "not_found"}
  BY <1>1, <1>2
<1>5. TypeOK' /\ PlaceInv'
  BY <1>1, <1>4 DEF TypeOK, Settled, PlaceInv
<1>6. HeldInv'
  BY <1>1, <1>4 DEF HeldInv, Target, TxOps
<1>7. ToldInv'
  BY <1>1, <1>2, <1>4 DEF ToldInv, Target
<1>8. \E w \in past : q.x \notin w.txs
  BY <1>1 DEF CoverInv
<1>9. pc' = "not_found" => ~Hinted(world)'
  BY <1>1, <1>2 DEF Hinted, AtMostOne, NodeHas
<1>10. CoverInv'
  BY <1>1, <1>8, <1>9 DEF CoverInv
<1>11. FailInv'
  BY <1>1, <1>2, <1>8 DEF FailInv, FailsOnlyWithoutRows, NodeRaises
<1> QED BY <1>3, <1>5, <1>6, <1>7, <1>10, <1>11, TxRestStep

LEMMA SearchStep == LookupInv /\ Search => LookupInv'
<1> SUFFICES ASSUME LookupInv, Search PROVE LookupInv'
  OBVIOUS
<1> USE DEF LookupInv
<1>1. /\ q.op \in {"ids", "scores"} /\ pc = "start" /\ world \in past
      /\ UNCHANGED <<sources, fixed, current, score, res>>
      /\ found' = Searched
      /\ facc' = Restrict(world.acc, found')
      /\ told' = Accepting(world.acc, found') \cap world.blocks
      /\ todo' = Accepting(world.acc, found') \ world.blocks
      /\ pc' = IF todo' = {} THEN "answered" ELSE "scores"
      /\ world.acc \in [Tx -> AtMostOne] /\ world.txs \subseteq Tx
  BY DEF Search, JoinAcceptances, MissingScores, TypeOK, World
<1>2. found' \in SUBSET Tx
  BY <1>1 DEF Searched
<1>3. /\ facc' \in [Tx -> AtMostOne]
      /\ Accepting(facc', Tx) = Accepting(world.acc, found')
      /\ Accepting(world.acc, found') \subseteq Block
  BY <1>1, <1>2, AcceptingRestrict
<1>4. \A x \in found' : facc'[x] = world.acc[x] /\ world.acc[x] \subseteq todo' \cup told'
  BY <1>1, <1>2 DEF Restrict, Accepting
<1>5. TxRest
  BY <1>1 DEF TxRest, TxOps
<1> USE DEF sources, fixed
<1>6. \A x \in Tx : x \in found' <=> Asked(world, x)'
  BY <1>1 DEF Searched, Asked, ModeFits, AcceptedBetween
<1>7. TypeOK'
  BY <1>1, <1>2, <1>3 DEF TypeOK, Settled
<1>8. PlaceInv'
  BY <1>1, <1>3 DEF PlaceInv
<1>9. HeldInv'
  BY <1>1, <1>4 DEF HeldInv, Target
<1>10. ToldInv'
  BY <1>1, <1>4 DEF ToldInv, Target
<1>11. CoverInv'
  BY <1>1, <1>6 DEF CoverInv
<1>12. todo' # {} => \E x \in found' : ~(world.acc[x] \subseteq world.blocks)
  BY <1>1 DEF Accepting
<1>13. FailInv'
  BY <1>1, <1>2, <1>6, <1>12 DEF FailInv, FailsOnlyWithoutRows
<1> QED BY <1>5, <1>7, <1>8, <1>9, <1>10, <1>11, <1>13, TxRestStep

LEMMA AskScoreStep == LookupInv /\ AskScore => LookupInv'
<1> SUFFICES ASSUME LookupInv, AskScore PROVE LookupInv'
  OBVIOUS
<1> USE DEF LookupInv
<1>1. /\ q.op \in {"tx", "ids", "scores"} /\ pc = "scores" /\ world \in past
      /\ UNCHANGED <<sources, fixed, current, score, res, found, facc>>
      /\ todo \subseteq Accepting(facc, Tx)
  BY DEF AskScore, TypeOK, PlaceInv
<1>2. PICK b \in todo :
         IF NodeRaises
         THEN pc' = "failed" /\ UNCHANGED <<todo, told>>
         ELSE /\ todo' = todo \ {b}
              /\ told' = IF NodeHas(b) THEN told \cup {b} ELSE told
              /\ pc' = IF todo' = {} THEN "answered" ELSE pc
  BY DEF AskScore
<1>3. TxRest
  BY <1>1 DEF TxRest, TxOps
<1> USE DEF sources, fixed
<1>4. TypeOK'
  BY <1>1, <1>2 DEF TypeOK, Settled
<1>5. PlaceInv'
  BY <1>1, <1>2 DEF PlaceInv
<1>6. HeldInv'
  BY <1>1, <1>2 DEF HeldInv, Target, TxOps
<1>7. ToldInv'
  BY <1>1, <1>2 DEF ToldInv, Target, NodeHas
<1>8. \A w \in past, x \in Tx : Asked(w, x)' = Asked(w, x)
  BY <1>1 DEF Asked, ModeFits, AcceptedBetween
<1>9. CoverInv'
  BY <1>1, <1>2, <1>8 DEF CoverInv
<1>10. FailInv'
  BY <1>1, <1>2, <1>8 DEF FailInv, FailsOnlyWithoutRows, NodeRaises, TxOps
<1> QED BY <1>3, <1>4, <1>5, <1>6, <1>7, <1>9, <1>10, TxRestStep

LEMMA ReadAcceptancesStep == LookupInv /\ ReadAcceptances => LookupInv'
<1> SUFFICES ASSUME LookupInv, ReadAcceptances PROVE LookupInv'
  OBVIOUS
<1> USE DEF LookupInv
<1>1. /\ q.op = "acceptance" /\ pc' = "answered" /\ world \in past
      /\ UNCHANGED <<sources, fixed, current, score, todo, res>>
      /\ found' = Tx /\ facc' = Restrict(world.acc, Tx)
      /\ told' = Accepting(world.acc, Tx) \cap world.blocks
      /\ world.acc \in [Tx -> AtMostOne]
  BY DEF ReadAcceptances, JoinAcceptances, TypeOK, World
<1>2. /\ facc' \in [Tx -> AtMostOne]
      /\ Accepting(facc', Tx) = Accepting(world.acc, Tx)
  BY <1>1, AcceptingRestrict
<1>3. TxRest
  BY <1>1 DEF TxRest, TxOps
<1> USE DEF sources, fixed
<1>4. TypeOK' /\ PlaceInv'
  BY <1>1, <1>2 DEF TypeOK, Settled, PlaceInv
<1>5. HeldInv'
  BY <1>1 DEF HeldInv, Target, Restrict
<1>6. ToldInv' /\ CoverInv' /\ FailInv'
  BY <1>1 DEF ToldInv, CoverInv, FailInv, FailsOnlyWithoutRows
<1> QED BY <1>3, <1>4, <1>5, <1>6, TxRestStep

LEMMA ReadChainStep == LookupInv /\ ReadChain => LookupInv'
<1> SUFFICES ASSUME LookupInv, ReadChain PROVE LookupInv'
  OBVIOUS
<1> USE DEF LookupInv
<1>1. /\ q.op = "chain" /\ world \in past
      /\ UNCHANGED <<sources, fixed, current, score, todo, res>>
      /\ found' = IF 0 < current /\ current < q.gte THEN {}
                  ELSE {x \in Tx : AcceptedBetween(world, x, q.gte, q.gte + ChainLimit)}
      /\ facc' = Restrict(world.acc, found')
      /\ told' = Accepting(world.acc, found') \cap world.blocks
      /\ pc' = IF found' = {} THEN "answered" ELSE "inputs"
      /\ world.acc \in [Tx -> AtMostOne]
  BY DEF ReadChain, JoinAcceptances, TypeOK, World
<1>2. found' \in SUBSET Tx
  BY <1>1
<1>3. /\ facc' \in [Tx -> AtMostOne]
      /\ Accepting(facc', Tx) = Accepting(world.acc, found')
  BY <1>1, <1>2, AcceptingRestrict
<1>4. TxRest
  BY <1>1 DEF TxRest, TxOps
<1> USE DEF sources, fixed
<1>5. TypeOK' /\ PlaceInv'
  BY <1>1, <1>2, <1>3 DEF TypeOK, Settled, PlaceInv
<1>6. HeldInv'
  BY <1>1, <1>2 DEF HeldInv, Target, Restrict
<1>7. \A x \in Tx \ found' : ~Asked(world, x)'
  BY <1>1 DEF Asked, AcceptedBetween
<1>8. pc' = "inputs" => \A x \in Tx \ found' :
                           ~AcceptedBetween(world, x, q.gte, q.gte + ChainLimit)'
  BY <1>1 DEF AcceptedBetween
<1>9. CoverInv'
  BY <1>1, <1>7, <1>8 DEF CoverInv
<1>10. ToldInv' /\ FailInv'
  BY <1>1 DEF ToldInv, FailInv, FailsOnlyWithoutRows
<1> QED BY <1>4, <1>5, <1>6, <1>9, <1>10, TxRestStep

LEMMA ReadInputsStep == LookupInv /\ ReadInputs => LookupInv'
<1> SUFFICES ASSUME LookupInv, ReadInputs PROVE LookupInv'
  OBVIOUS
<1> USE DEF LookupInv
<1>1. /\ q.op = "chain" /\ pc = "inputs" /\ pc' = "answered" /\ world \in past
      /\ UNCHANGED <<sources, fixed, current, score, todo, res, facc, told>>
      /\ found' = {x \in found : q.coinbase \/ x \in world.txs \cap HasInputs}
  BY DEF ReadInputs, PlaceInv, TypeOK
<1>2. TxRest
  BY <1>1 DEF TxRest, TxOps
<1> USE DEF sources, fixed
<1>3. TypeOK' /\ PlaceInv'
  BY <1>1 DEF TypeOK, Settled, PlaceInv
<1>4. HeldInv'
  BY <1>1 DEF HeldInv, Target, TxOps
<1>5. ASSUME NEW x \in Tx \ found'
      PROVE  \E w \in past : ~Asked(w, x)'
  <2>1. CASE x \in found
    BY <1>1, <2>1 DEF Asked
  <2>2. CASE x \notin found
    <3>1. PICK w \in past : ~AcceptedBetween(w, x, q.gte, q.gte + ChainLimit)
      BY <1>1, <2>2 DEF CoverInv
    <3> QED BY <1>1, <3>1 DEF Asked, AcceptedBetween
  <2> QED BY <2>1, <2>2
<1>6. CoverInv'
  BY <1>1, <1>5 DEF CoverInv
<1>7. ToldInv' /\ FailInv'
  BY <1>1 DEF ToldInv, FailInv, FailsOnlyWithoutRows
<1> QED BY <1>2, <1>3, <1>4, <1>6, <1>7, TxRestStep

LEMMA StutterStep == LookupInv /\ UNCHANGED vars => LookupInv'
<1> SUFFICES ASSUME LookupInv, UNCHANGED vars PROVE LookupInv'
  OBVIOUS
<1> USE DEF LookupInv, vars, blockVars, sources, fixed
<1>1. TypeOK' /\ PlaceInv' /\ PastInv' /\ BlockInv'
  BY DEF TypeOK, PlaceInv, PastInv, BlockInv
<1>2. ScoreInv' /\ ListInv'
  BY DEF ScoreInv, ListInv, ListIsNearest, ListHasNodeBlocks, InRange, Nearer, RowsOf
<1>3. HeldInv' /\ ToldInv'
  BY DEF HeldInv, ToldInv, Target
<1>4. CoverInv' /\ FailInv'
  BY DEF CoverInv, FailInv, FailsOnlyWithoutRows, Hinted, Asked, ModeFits, AcceptedBetween
<1> QED BY <1>1, <1>2, <1>3, <1>4

LEMMA Invariance == Spec => []LookupInv
<1>1. LookupInv /\ [Next]_vars => LookupInv'
  BY EnvironmentStep, BlockStep, ChooseScoreStep, ReadHashesStep, AskNodeStep,
     ReadRowsStep, ReadTransactionStep, ReadAcceptanceStep, ReadHintStep, SearchStep,
     AskScoreStep, ReadAcceptancesStep, ReadChainStep, ReadInputsStep, StutterStep
     DEF Next, TxRequest, BlockRequest
<1> QED BY Initially, <1>1, PTL DEF Spec
-----------------------------------------------------------------------------
(* Sources, request and answer have their types (TransactionLookup.TypeOK). *)
THEOREM TypeCorrect == Spec => []TypeOK
<1>1. LookupInv => TypeOK
  BY DEF LookupInv
<1> QED BY <1>1, Invariance, PTL

(* GET /blocks/{blockId} asks the two sources in the order in which a      *)
(* block moves through them: "Block not found" (get_blocks.py:170) is true. *)
THEOREM MissingBlockWasMissing == Spec => []BlockNotFoundIsTrue
<1>1. LookupInv => BlockNotFoundIsTrue
  BY DEF LookupInv, BlockInv, BlockNotFoundIsTrue
<1> QED BY <1>1, Invariance, PTL

(* GET /blocks-from-bluescore answers with the nearest blue score          *)
(* (get_blocks.py:230-253).                                                *)
THEOREM NearestBlocks == Spec => []ListIsNearest
<1>1. LookupInv => ListIsNearest
  BY DEF LookupInv, ListInv, ListIsNearest
<1> QED BY <1>1, Invariance, PTL

(* It has all blocks of that score that the node has (get_blocks.py:266-271). *)
THEOREM NodeBlocksAreListed == Spec => []ListHasNodeBlocks
<1>1. LookupInv => ListHasNodeBlocks
  BY DEF LookupInv, ListInv, ListHasNodeBlocks
<1> QED BY <1>1, Invariance, PTL

(* No answer mixes two states of the chain (get_transactions.py:165-178,   *)
(* 261-313, 360-373; get_virtual_chain.py:84-101).                         *)
THEOREM OneChainPerAnswer == Spec => []AcceptancesHeldTogether
<1>1. LookupInv => AcceptancesHeldTogether
  BY DEF LookupInv, HeldInv, AcceptancesHeldTogether
<1> QED BY <1>1, Invariance, PTL

(* A blue score is left out only if neither source had it all the time     *)
(* (get_transactions.py:204-212, 300-315).                                 *)
THEOREM ScoreFromEitherSource == Spec => []ScoreIsTold
<1>1. LookupInv => ScoreIsTold
  BY DEF LookupInv, ToldInv, ScoreIsTold
<1> QED BY <1>1, Invariance, PTL

(* No transaction is left out that fitted the query all the time.          *)
THEOREM NothingIsOverlooked == Spec => []NothingOverlooked
<1>1. LookupInv => NothingOverlooked
  <2> SUFFICES ASSUME LookupInv PROVE NothingOverlooked
    OBVIOUS
  <2> USE DEF LookupInv
  <2>1. ASSUME pc = "answered" \/ (pc = "not_found" /\ q.op = "tx"),
               NEW x \in Tx, \A w \in past : Asked(w, x)
        PROVE  x \in found
    <3>0. world \in past
      BY DEF TypeOK
    <3>1. CASE q.op = "tx"
      BY <2>1, <3>0, <3>1 DEF CoverInv, Asked, PlaceInv
    <3>2. CASE q.op # "tx"
      BY <2>1, <3>0, <3>2 DEF CoverInv, Asked, TypeOK, QueryOK
    <3> QED BY <3>1, <3>2
  <2>2. pc = "not_found" /\ q.op = "tx" => \E w \in past : ~Hinted(w)
    BY DEF CoverInv
  <2> QED BY <2>1, <2>2 DEF NothingOverlooked
<1> QED BY <1>1, Invariance, PTL

(* Requests for transactions fail only for want of a row                   *)
(* (get_transactions.py:204-207, 300-311).                                 *)
THEOREM RowsSuffice == Spec => []FailsOnlyWithoutRows
<1>1. LookupInv => FailsOnlyWithoutRows
  BY DEF LookupInv, FailInv
<1> QED BY <1>1, Invariance, PTL

(* What is in the database is told, whatever the node does.                *)
THEOREM RowsAreAlwaysEnough == Spec => []RowsAreEnough
<1>1. ScoreIsTold /\ FailsOnlyWithoutRows => RowsAreEnough
  BY DEF RowsAreEnough
<1> QED BY <1>1, ScoreFromEitherSource, RowsSuffice, PTL
=============================================================================
