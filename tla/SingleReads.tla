----------------------------- MODULE SingleReads ----------------------------
(***************************************************************************)
(* Answers put together from one read: which addresses were ever used, the *)
(* colour of a block, the outputs that inputs spend, and scripts as the    *)
(* answers of the older client have them.                                  *)
(***************************************************************************)
EXTENDS Integers, FiniteSets, Sequences

Latest(rows) ==
    IF rows = {} THEN 0
    ELSE CHOOSE t \in {r.time : r \in rows} : \A r \in rows : r.time <= t

(* The two tables of the indexer, sets of rows [of, time]; an installation *)
(* fills the one that USE_SCRIPT_FOR_ADDRESS names.                        *)
Mapping(useScript, tables) == IF useScript THEN tables.script ELSE tables.addr
RowsOf(a, rows) == {r \in rows : r.of = a}

(* The query without scripts joins the table of addresses, but takes the   *)
(* newest block time of the table of scripts, which no condition ties to   *)
(* the address: a product, empty if that table is.                         *)
LastTx(useScript, a, tables) ==
    IF RowsOf(a, Mapping(useScript, tables)) = {} THEN 0
    ELSE Latest(IF useScript THEN RowsOf(a, tables.script) ELSE tables.script)

\* 0 for an address that is answered to be inactive.
AddressesActive(useScript, asked, tables) ==
    [a \in asked |-> LastTx(useScript, a, tables)]
-----------------------------------------------------------------------------
\* Every chain block among the children merged the block as blue or as red,
\* or another block had merged it before.
Merges == {"blue", "red", "no"}

\* What a child does not count as blue is red (mutant of ColorFromDb).
ColorFromDbOfChild(children) ==
    IF "blue" \in children THEN {"blue"}
    ELSE IF children # {} THEN {"red"} ELSE {"none"}

(* children: how the chain blocks that have the block as a parent merged   *)
(* it, in no order; the first that did either way decides.                 *)
ColorFromDb(children) ==
    IF children \cap {"blue", "red"} = {} THEN {"none"}
    ELSE children \cap {"blue", "red"}

(* told: what the node answers, if it does not refuse or stay silent.      *)
(* Silence is an exception over gRPC, and all that is not blue is taken    *)
(* for no colour.                                                          *)
ColorFromKaspad(transport, told) ==
    IF told = "silent" /\ transport = "grpc" THEN {"unavailable"}
    ELSE IF told = "blue" THEN {"blue"} ELSE {"none"}

\* The colours that may be answered for a block; transport: of the node that
\* the block is from, or "database".
Color(transport, isChainBlock, told, children) ==
    IF isChainBlock THEN {"blue"}
    ELSE IF transport = "database" THEN ColorFromDb(children)
    ELSE ColorFromKaspad(transport, told)
-----------------------------------------------------------------------------
\* The outputs in the database that an input names, at most one.
SpentBy(input, db) ==
    {d \in db : d.transaction = input.transaction /\ d.index = input.index}

(* amount: 0 for none.  prepared: the indexer has stored the amount and    *)
(* script with the input (PREV_OUT_RESOLVED), not for the node's inputs.   *)
ResolveInput(input, mode, prepared, db) ==
    LET spent == SpentBy(input, db)
    IN IF mode # "no" /\ ~prepared
       THEN [amount |-> IF spent = {} THEN input.amount ELSE (CHOOSE d \in spent : TRUE).amount,
             record |-> mode = "full" /\ spent # {}]
       ELSE [amount |-> IF mode = "no" THEN 0 ELSE input.amount,
             record |-> mode = "full" /\ input.amount # 0]

ResolveInputs(inputs, mode, prepared, db) ==
    [i \in DOMAIN inputs |-> ResolveInput(inputs[i], mode, prepared, db)]
-----------------------------------------------------------------------------
\* How many digits lstrip takes away; a digit is 0 or not.
LeadingZeros(digits) ==
    CHOOSE n \in 0..Len(digits) : /\ \A i \in 1..n : digits[i] = 0
                                  /\ n < Len(digits) => digits[n + 1] # 0

(* Over wRPC a script is hex digits after the four of its version, which   *)
(* are taken away with every zero that follows.                            *)
LegacyScript(digits) ==
    LET rest == SubSeq(digits, LeadingZeros(digits) + 1, Len(digits))
    IN IF Len(rest) % 2 = 1 THEN <<0>> \o rest ELSE rest
=============================================================================
