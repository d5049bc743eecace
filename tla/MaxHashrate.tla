---------------------------- MODULE MaxHashrate ----------------------------
(***************************************************************************)
(* GET /info/hashrate/max: requests of all workers share the two rows      *)
(* maxhash_last_value and maxhash_last_bluescore of the key-value table,   *)
(* each read and written by a statement of its own session, while the      *)
(* indexer adds blocks.  A block is its blue score and its difficulty; the *)
(* hashrate is a constant times the difficulty, and order by bits          *)
(* ascending is order by difficulty descending.                            *)
(***************************************************************************)
EXTENDS Naturals, FiniteSets

CONSTANTS Task,   \* the requests, in any worker
          Chain   \* the blocks of the network

\* Blocks have positive scores and difficulties.
Block == Chain \cap [score : Nat \ {0}, diff : Nat \ {0}]

\* Stands for a row that is missing: "{}" and 0 of get_hashrate.py:61-62.
Nothing == [score |-> 0, diff |-> 0]

VARIABLES
    db,       \* the table of blocks
    kvValue,  \* row maxhash_last_value, by the block it describes
    kvScore,  \* row maxhash_last_bluescore, 0 if missing
    pc,
    old,      \* what the task read from kvValue
    last,     \* what it read from kvScore
    block,    \* the block it found
    view,     \* history: the blocks that were there when it looked for one
    answer    \* its response

vars == <<db, kvValue, kvScore, pc, old, last, block, view, answer>>

PC == {"idle", "read_score", "select", "ask_node", "set_score", "insert_score",
       "compare", "set_value", "insert_value", "done", "failed"}

Best(S) == {b \in S : \A c \in S : c.diff <= b.diff}
-----------------------------------------------------------------------------
Init ==
    /\ db = {}
    /\ kvValue = Nothing
    /\ kvScore = 0
    /\ pc = [t \in Task |-> "idle"]
    /\ old = [t \in Task |-> Nothing]
    /\ last = [t \in Task |-> 0]
    /\ block = [t \in Task |-> Nothing]
    /\ view = [t \in Task |-> {}]
    /\ answer = [t \in Task |-> Nothing]

Goto(t, p) == pc' = [pc EXCEPT ![t] = p]

\* The indexer, a program of its own: blocks arrive in no order of their scores.
Ingest ==
    /\ \E b \in Block \ db : db' = db \cup {b}
    /\ UNCHANGED <<kvValue, kvScore, pc, old, last, block, view, answer>>

\* A new request; its local variables start afresh.
ReadValue(t) ==
    /\ pc[t] \in {"idle", "done", "failed"}
    /\ old' = [old EXCEPT ![t] = kvValue]
    /\ last' = [last EXCEPT ![t] = 0]
    /\ block' = [block EXCEPT ![t] = Nothing]
    /\ view' = [view EXCEPT ![t] = {}]
    /\ answer' = [answer EXCEPT ![t] = Nothing]
    /\ Goto(t, "read_score")
    /\ UNCHANGED <<db, kvValue, kvScore>>

ReadScore(t) ==
    /\ pc[t] = "read_score"
    /\ last' = [last EXCEPT ![t] = kvScore]
    /\ Goto(t, "select")
    /\ UNCHANGED <<db, kvValue, kvScore, old, block, view, answer>>

SelectBlock(t) ==
    /\ pc[t] = "select"
    /\ LET found == {b \in db : b.score > last[t]} IN
       \/ /\ found # {}
          /\ \E b \in Best(found) : block' = [block EXCEPT ![t] = b]
          /\ Goto(t, "set_score")
       \/ /\ found = {}
          /\ block' = [block EXCEPT ![t] = Nothing]
          /\ Goto(t, "ask_node")
    /\ view' = [view EXCEPT ![t] = db]
    /\ UNCHANGED <<db, kvValue, kvScore, old, last, answer>>

\* KeyValueStore.set of the blue score: UPDATE, and INSERT if it found no
\* row, in one transaction that reads what others have committed.
SetScore(t) ==
    /\ pc[t] = "set_score"
    /\ \/ /\ kvScore # 0
          /\ kvScore' = block[t].score
          /\ Goto(t, "compare")
       \/ /\ kvScore = 0
          /\ Goto(t, "insert_score")
          /\ UNCHANGED kvScore
    /\ UNCHANGED <<db, kvValue, old, last, block, view, answer>>

\* The INSERT fails on the primary key if the row was created meanwhile.
InsertScore(t) ==
    /\ pc[t] = "insert_score"
    /\ \/ /\ kvScore = 0
          /\ kvScore' = block[t].score
          /\ Goto(t, "compare")
       \/ /\ kvScore # 0
          /\ Goto(t, "failed")
          /\ UNCHANGED kvScore
    /\ UNCHANGED <<db, kvValue, old, last, block, view, answer>>

Compare(t) ==
    /\ pc[t] = "compare"
    /\ \/ /\ block[t].diff > old[t].diff
          /\ Goto(t, "set_value")
          /\ UNCHANGED answer
       \/ /\ block[t].diff <= old[t].diff
          /\ answer' = [answer EXCEPT ![t] = old[t]]
          /\ Goto(t, "done")
    /\ UNCHANGED <<db, kvValue, kvScore, old, last, block, view>>

\* The node's selected tip, when the table has no block above the blue
\* score: a block of the network that may not be in the table yet.
AskNode(t) ==
    /\ pc[t] = "ask_node"
    /\ \/ \E b \in Block :
              /\ block' = [block EXCEPT ![t] = b]
              /\ view' = [view EXCEPT ![t] = @ \cup {b}]
              /\ Goto(t, "compare")
       \/ /\ Goto(t, "failed")
          /\ UNCHANGED <<block, view>>
    /\ UNCHANGED <<db, kvValue, kvScore, old, last, answer>>

Answer(t) ==
    /\ kvValue' = block[t]
    /\ answer' = [answer EXCEPT ![t] = block[t]]
    /\ Goto(t, "done")

SetValue(t) ==
    /\ pc[t] = "set_value"
    /\ \/ /\ kvValue # Nothing
          /\ Answer(t)
       \/ /\ kvValue = Nothing
          /\ Goto(t, "insert_value")
          /\ UNCHANGED <<kvValue, answer>>
    /\ UNCHANGED <<db, kvScore, old, last, block, view>>

InsertValue(t) ==
    /\ pc[t] = "insert_value"
    /\ \/ /\ kvValue = Nothing
          /\ Answer(t)
       \/ /\ kvValue # Nothing
          /\ Goto(t, "failed")
          /\ UNCHANGED <<kvValue, answer>>
    /\ UNCHANGED <<db, kvScore, old, last, block, view>>

\* The worker is killed or the database connection is lost.
Interrupted(t) ==
    /\ pc[t] \notin {"idle", "done", "failed"}
    /\ Goto(t, "failed")
    /\ UNCHANGED <<db, kvValue, kvScore, old, last, block, view, answer>>

Statement(t) ==
    \/ ReadValue(t) \/ ReadScore(t) \/ SelectBlock(t) \/ SetScore(t)
    \/ InsertScore(t) \/ Compare(t) \/ AskNode(t) \/ SetValue(t)
    \/ InsertValue(t)

Next == Ingest \/ \E t \in Task : Statement(t) \/ Interrupted(t)

Spec == Init /\ [][Next]_vars
-----------------------------------------------------------------------------
(* Every variable has its type; a row, once written, describes a block     *)
(* that a request has really seen.                                         *)
TypeOK ==
    /\ db \subseteq Block
    /\ kvValue \in Block \cup {Nothing}
    /\ kvScore \in {b.score : b \in Block} \cup {0}
    /\ pc \in [Task -> PC]
    /\ old \in [Task -> Block \cup {Nothing}]
    /\ last \in [Task -> {b.score : b \in Block} \cup {0}]
    /\ block \in [Task -> Block \cup {Nothing}]
    /\ view \in [Task -> SUBSET Block]
    /\ answer \in [Task -> Block \cup {Nothing}]
    /\ \A t \in Task : pc[t] \in {"set_score", "insert_score", "set_value",
                                  "insert_value", "compare"} => block[t] \in Block

(* get_hashrate.py:58, "Returns the highest hashrate observed": no block   *)
(* that was there when the request looked is harder than its answer.  Of   *)
(* the harder blocks, those at or below the stored blue score are not      *)
(* looked at again, and what was stored for them can be lost: to another   *)
(* request that writes later, to an interruption between the two rows.     *)
ReturnsHighestObserved ==
    \A t \in Task : pc[t] = "done" =>
        \A b \in view[t] : b.diff <= answer[t].diff

(* What one request can promise whatever the others do: its answer covers  *)
(* the value it read and every block it found above the blue score it read *)
(* (get_hashrate.py:61-93).                                                *)
AnswerCoversOwnView ==
    \A t \in Task : pc[t] = "done" =>
        /\ old[t].diff <= answer[t].diff
        /\ \A b \in view[t] : b.score > last[t] => b.diff <= answer[t].diff
=============================================================================
