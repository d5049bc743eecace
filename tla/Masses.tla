------------------------------- MODULE Masses -------------------------------
(***************************************************************************)
(* The mass of a transaction: storage mass over the amounts it spends and  *)
(* makes, compute and transient mass over its size, and the endpoint that  *)
(* looks the spent outputs up.  Scripts, signatures and payloads are their *)
(* length in bytes.                                                        *)
(***************************************************************************)
EXTENDS Sums, Sequences, FiniteSets

CONSTANTS C,            \* the storage mass constant
          SearchLimit   \* TX_SEARCH_ID_LIMIT: the most ids that a search takes

Over(s, f(_)) == Total([i \in DOMAIN s |-> f(s[i])])
Greatest(S) == CHOOSE x \in S : \A y \in S : y <= x

UtxoPlurality(script, covenant) ==
    (63 + script + (IF covenant THEN 32 ELSE 0) + 99) \div 100

\* Python's // rounds down on either side of 0; an amount may be negative.
FloorDiv(a, b) == IF b > 0 THEN a \div b ELSE (-a) \div (-b)

\* Cells are records of a plurality p and an amount v.
Harmonic(cells) == Over(cells, LAMBDA c : FloorDiv(C * c.p * c.p, c.v))
Plurality(cells) == Over(cells, LAMBDA c : c.p)
Amounts(cells) == Over(cells, LAMBDA c : c.v)

Relaxed(ins, outs) ==
    \/ Plurality(outs) = 1
    \/ Len(ins) <= 2 /\ (Plurality(ins) <= 1 \/ (Plurality(outs) = 2 /\ Plurality(ins) = 2))

Arithmetic(ins) ==
    LET k == Plurality(ins)
        mean == Amounts(ins) \div k
    IN k * (C \div Greatest({mean, 1}))

StorageMass(ins, outs) ==
    Greatest({Harmonic(outs)
              - (IF Relaxed(ins, outs) THEN Harmonic(ins) ELSE Arithmetic(ins)), 0})

\* The request model drops the covenants of a body of version 0.
Covenant(o, version) == o.covenant /\ version # 0

OutputSize(o, version) == 8 + 2 + 8 + o.script + (IF Covenant(o, version) THEN 34 ELSE 0)
InputSize(i, version) == 32 + 4 + 8 + i.signature + 8 + (IF version > 0 THEN 2 ELSE 0)

SerializedSize(tx) ==
    2 + 8 + Over(tx.ins, LAMBDA i : InputSize(i, tx.version))
      + 8 + Over(tx.outs, LAMBDA o : OutputSize(o, tx.version)) + 8 + 20 + 8 + 32 + 8 + tx.payload

ComputeMass(tx) ==
    IF tx.coinbase THEN 0
    ELSE SerializedSize(tx) + 10 * Over(tx.outs, LAMBDA o : 2 + o.script)
         + (IF tx.version > 0 THEN 100 * Over(tx.ins, LAMBDA i : i.budget)
                              ELSE 1000 * Over(tx.ins, LAMBDA i : i.ops))

TransientMass(tx) == 2 * SerializedSize(tx)
-----------------------------------------------------------------------------
\* db: the outputs the search finds, a set of records with transaction and index.
\* The first output of the transaction is taken (mutant of Outputs).
OutputsOfTransaction(db, o) ==
    {d \in db : d.transaction = o.transaction
                /\ \A e \in db : e.transaction = d.transaction => d.index <= e.index}

Outputs(db, o) == {d \in db : d.transaction = o.transaction /\ d.index = o.index}

InputCells(db, tx) ==
    [i \in DOMAIN tx.ins |->
       LET d == CHOOSE d \in Outputs(db, tx.ins[i]) : TRUE
       IN [p |-> UtxoPlurality(d.script, d.covenant), v |-> d.amount]]
OutputCells(tx) ==
    [i \in DOMAIN tx.outs |->
       [p |-> UtxoPlurality(tx.outs[i].script, Covenant(tx.outs[i], tx.version)),
        v |-> tx.outs[i].amount]]

Failed(code) == [code |-> code, mass |-> 0, storage |-> 0, compute |-> 0]

(* The search refuses more inputs than its limit on ids.  An output that   *)
(* the found transaction does not have, or a new output of amount 0, is an *)
(* exception.                                                              *)
CalculateTransactionMass(db, tx) ==
    LET asked == {tx.ins[i].transaction : i \in DOMAIN tx.ins}
        storage == StorageMass(InputCells(db, tx), OutputCells(tx))
        compute == ComputeMass(tx)
    IN IF tx.coinbase THEN Failed(200)
       ELSE IF Len(tx.ins) > SearchLimit THEN Failed(422)
       ELSE IF asked \ {d.transaction : d \in db} # {} THEN Failed(404)
       ELSE IF \/ \E i \in DOMAIN tx.ins : Outputs(db, tx.ins[i]) = {}
               \/ \E i \in DOMAIN tx.outs : tx.outs[i].amount = 0
       THEN Failed(500)
       ELSE [code |-> 200, storage |-> storage, compute |-> compute,
             mass |-> Greatest({storage, compute, TransientMass(tx)})]
=============================================================================
