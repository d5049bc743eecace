------------------------- MODULE MaxHashrateProofs -------------------------
(***************************************************************************)
(* For any set of blocks: what a request of GET /info/hashrate/max         *)
(* promises with any number of concurrent requests and with interruptions. *)
(***************************************************************************)
EXTENDS MaxHashrate, TLAPS

Maybe == Block \cup {Nothing}

(* Scores and difficulties are numbers, those of blocks are positive. *)
LEMMA Numbers ==
    /\ \A b \in Maybe : b.score \in Nat /\ b.diff \in Nat
    /\ \A b \in Block : b.score > 0 /\ b.diff > 0 /\ b # Nothing
    /\ Nothing.score = 0 /\ Nothing.diff = 0
BY DEF Maybe, Nothing, Block

LEMMA InitTypeOK == Init => TypeOK
BY DEF Init, TypeOK, PC

LEMMA NextTypeOK == TypeOK /\ [Next]_vars => TypeOK'
<1> SUFFICES ASSUME TypeOK, [Next]_vars PROVE TypeOK'
  OBVIOUS
<1> USE DEF TypeOK, Goto, PC
<1>1. CASE Ingest
  BY <1>1 DEF Ingest
<1>2. ASSUME NEW t \in Task, ReadValue(t) PROVE TypeOK'
  BY <1>2 DEF ReadValue
<1>3. ASSUME NEW t \in Task, ReadScore(t) PROVE TypeOK'
  BY <1>3 DEF ReadScore
<1>4. ASSUME NEW t \in Task, SelectBlock(t) PROVE TypeOK'
  BY <1>4 DEF SelectBlock, Best
<1>5. ASSUME NEW t \in Task, SetScore(t) PROVE TypeOK'
  BY <1>5 DEF SetScore
<1>6. ASSUME NEW t \in Task, InsertScore(t) PROVE TypeOK'
  BY <1>6 DEF InsertScore
<1>7. ASSUME NEW t \in Task, Compare(t) PROVE TypeOK'
  BY <1>7 DEF Compare
<1>8. ASSUME NEW t \in Task, AskNode(t) PROVE TypeOK'
  BY <1>8 DEF AskNode
<1>9. ASSUME NEW t \in Task, SetValue(t) PROVE TypeOK'
  BY <1>9 DEF SetValue, Answer
<1>10. ASSUME NEW t \in Task, InsertValue(t) PROVE TypeOK'
  BY <1>10 DEF InsertValue, Answer
<1>11. ASSUME NEW t \in Task, Interrupted(t) PROVE TypeOK'
  BY <1>11 DEF Interrupted
<1>12. CASE UNCHANGED vars
  BY <1>12 DEF vars
<1> QED
  BY <1>1, <1>2, <1>3, <1>4, <1>5, <1>6, <1>7, <1>8, <1>9, <1>10, <1>11, <1>12
  DEF Next, Statement

(* Type correctness, for any set of blocks and any number of requests. *)
THEOREM TypeCorrect == Spec => []TypeOK
<1>1. Init => TypeOK
  BY InitTypeOK
<1>2. TypeOK /\ [Next]_vars => TypeOK'
  BY NextTypeOK
<1> QED BY <1>1, <1>2, PTL DEF Spec
-----------------------------------------------------------------------------
Chosen == {"set_score", "insert_score", "compare", "set_value", "insert_value"}

(* What the task t knows on its own while it runs, whatever the others do. *)
OwnView(t) ==
    /\ pc[t] = "ask_node" => \A b \in view[t] : b.score <= last[t]
    /\ pc[t] \in Chosen => \A b \in view[t] : b.score > last[t] => b.diff <= block[t].diff
    /\ pc[t] \in {"set_value", "insert_value"} => old[t].diff < block[t].diff
    /\ pc[t] = "done" => /\ old[t].diff <= answer[t].diff
                         /\ \A b \in view[t] : b.score > last[t] => b.diff <= answer[t].diff

LEMMA NextOwnView ==
    TypeOK /\ (\A t \in Task : OwnView(t)) /\ [Next]_vars => (\A t \in Task : OwnView(t))'
<1> SUFFICES ASSUME TypeOK, \A t \in Task : OwnView(t), [Next]_vars,
                    NEW q \in Task
             PROVE  OwnView(q)'
  OBVIOUS
<1> USE DEF TypeOK, Goto, Chosen, Maybe
<1>0. OwnView(q)
  OBVIOUS
<1>1. ASSUME UNCHANGED <<pc[q], old[q], last[q], block[q], view[q], answer[q]>>
      PROVE  OwnView(q)'
  BY <1>0, <1>1 DEF OwnView
<1>2. CASE Ingest \/ UNCHANGED vars
  BY <1>1, <1>2 DEF Ingest, vars
<1>3. ASSUME NEW t \in Task, Statement(t) \/ Interrupted(t) PROVE OwnView(q)'
  <2>1. CASE t # q
    BY <1>1, <1>3, <2>1 DEF Statement, ReadValue, ReadScore, SelectBlock, SetScore,
       InsertScore, Compare, AskNode, SetValue, InsertValue, Answer, Interrupted
  <2>2. CASE ReadValue(q)
    BY <2>2 DEF ReadValue, OwnView
  <2>3. CASE ReadScore(q)
    BY <2>3 DEF ReadScore, OwnView
  <2>4. CASE SelectBlock(q)
    <3>1. \A b \in db : b.score \in Nat /\ last[q] \in Nat
      BY Numbers
    <3> QED BY <2>4, <3>1 DEF SelectBlock, Best, OwnView
  <2>5. CASE SetScore(q)
    BY <1>0, <2>5 DEF SetScore, OwnView
  <2>6. CASE InsertScore(q)
    BY <1>0, <2>6 DEF InsertScore, OwnView
  <2>7. CASE Compare(q)
    <3>1. block[q].diff \in Nat /\ old[q].diff \in Nat /\ \A b \in view[q] : b.diff \in Nat
      BY Numbers
    <3> QED BY <1>0, <2>7, <3>1 DEF Compare, OwnView
  <2>8. CASE AskNode(q)
    <3>1. \A b \in Block : b.score \in Nat /\ b.diff \in Nat /\ last[q] \in Nat
      BY Numbers
    <3> QED BY <1>0, <2>8, <3>1 DEF AskNode, OwnView
  <2>9. CASE SetValue(q)
    <3>1. block[q].diff \in Nat /\ old[q].diff \in Nat
      BY Numbers
    <3> QED BY <1>0, <2>9, <3>1 DEF SetValue, Answer, OwnView
  <2>10. CASE InsertValue(q)
    <3>1. block[q].diff \in Nat /\ old[q].diff \in Nat
      BY Numbers
    <3> QED BY <1>0, <2>10, <3>1 DEF InsertValue, Answer, OwnView
  <2>11. CASE Interrupted(q)
    BY <2>11 DEF Interrupted, OwnView
  <2> QED BY <1>3, <2>1, <2>2, <2>3, <2>4, <2>5, <2>6, <2>7, <2>8, <2>9, <2>10, <2>11
          DEF Statement
<1> QED BY <1>2, <1>3 DEF Next

(* With any number of requests at the same time, interrupted or not, an    *)
(* answer covers the value the request read and the blocks it found        *)
(* (get_hashrate.py:61-93).                                                *)
THEOREM OwnViewCovered == Spec => []AnswerCoversOwnView
<1>1. Init => TypeOK /\ \A t \in Task : OwnView(t)
  BY InitTypeOK DEF Init, OwnView, Chosen
<1>2. TypeOK /\ (\A t \in Task : OwnView(t)) /\ [Next]_vars
        => (TypeOK /\ \A t \in Task : OwnView(t))'
  BY NextTypeOK, NextOwnView
<1>3. (\A t \in Task : OwnView(t)) => AnswerCoversOwnView
  BY DEF OwnView, AnswerCoversOwnView
<1> QED BY <1>1, <1>2, <1>3, PTL DEF Spec
=============================================================================
