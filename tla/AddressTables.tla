---------------------------- MODULE AddressTables ---------------------------
(***************************************************************************)
(* The endpoints that use a helper table if the installation has it: the   *)
(* UTXOs of addresses and their number, and the number of transactions.    *)
(* Whether a table is there is asked once per worker and file.  A          *)
(* statement needs a connection of the worker's pool, which the session    *)
(* keeps until it is closed; the node is asked without one.                *)
(***************************************************************************)
EXTENDS CacheControl, FiniteSets

CONSTANTS Address, Worker, Request,
          At,           \* the worker of a request
          Asks,         \* what they may ask: each an operation and its addresses
          Pool,         \* connections of a worker
          UtxoLimit,    \* SCRIPTS_UTXOS_LIMIT
          MaxCount,     \* bound: UTXOs of an address
          MaxChanges    \* bound: changes of the tables and the UTXOs

ASSUME PoolAssumption == Pool \in Nat \ {0} /\ At \in [Request -> Worker]
ASSUME CountAssumption == UtxoLimit \in Nat /\ MaxCount \in Nat

Op == {"utxos", "count", "transactions", "total"}
ASSUME AsksAssumption ==
    /\ Asks \subseteq [Request -> [op : Op, addrs : SUBSET Address]]
    /\ \A k \in Asks : \A r \in Request :
          k[r].op # "utxos" => \E a \in Address : k[r].addrs = {a}
Missing == -1    \* no row for the address
Unknown == "unknown"

\* The global of each file that remembers whether its table exists.
Global(op) == IF op \in {"utxos", "count"} THEN "utxos" ELSE op
Globals == {"utxos", "transactions", "total"}
\* The helper table behind it.
Table(op) == IF op \in {"utxos", "count"} THEN "utxo_counts" ELSE "transactions_count"
Tables == {"utxo_counts", "transactions_count"}

VARIABLES
    tables,     \* the helper tables that exist
    row,        \* script_utxo_counts, kept by another program
    utxos,      \* how many the node has
    changes,
    known,      \* per worker and file: does the table exist
    pc, op, addrs,
    session,    \* the requests that hold a connection
    found,      \* what the request was told of the table, until it goes on
    asked,      \* the addresses it asks the node about
    answer,
    seen,       \* history: per request and address, the counts of table and
                \* node while it ran
    past        \* history: which tables there were, at every moment so far

env == <<tables, row, utxos, changes, past>>
req == <<pc, op, addrs, session, found, asked, answer>>
vars == <<tables, row, utxos, changes, known, pc, op, addrs, session, found,
          asked, answer, seen, past>>

\* The table, and the node, as a request may see them at this moment.
RowOf(a) == IF "utxo_counts" \in tables THEN row[a] ELSE Missing
Glimpse(r) == [a \in Address |-> IF a \in addrs[r]
                                  THEN {[row |-> RowOf(a), utxos |-> utxos[a]]} ELSE {}]

\* The `count` of a number of transactions is the max-age of its answer.
NoAnswer == [code |-> 0, listed |-> {}, count |-> 0, from |-> "none"]

Init ==
    /\ tables \in SUBSET Tables
    /\ utxos \in [Address -> 0..MaxCount]
    /\ row \in [Address -> {Missing} \cup 0..MaxCount]
    /\ \A a \in Address : row[a] \in {Missing, utxos[a]}
    /\ changes = 0
    /\ known = [w \in Worker |-> [g \in Globals |-> Unknown]]
    /\ pc = [r \in Request |-> "idle"]
    /\ \E asks \in Asks :
          /\ op = [r \in Request |-> asks[r].op]
          /\ addrs = [r \in Request |-> asks[r].addrs]
    /\ session = {}
    /\ found = [r \in Request |-> FALSE]
    /\ asked = [r \in Request |-> {}]
    /\ answer = [r \in Request |-> NoAnswer]
    /\ seen = [r \in Request |-> [a \in Address |-> {}]]
    /\ past = {tables}
-----------------------------------------------------------------------------
Running(r) == pc[r] \notin {"idle", "done"}

\* Everything that runs glimpses the new state of the tables and the node.
Look ==
    seen' = [r \in Request |-> [a \in Address |->
                IF Running(r) THEN seen[r][a] \cup Glimpse(r)'[a] ELSE seen[r][a]]]

\* The indexer, the program that keeps the helper table, its administrator.
Environment ==
    /\ changes < MaxChanges /\ changes' = changes + 1
    /\ \/ /\ \E T \in SUBSET Tables \ {tables} : tables' = T
          /\ past' = past \cup {tables'}
          /\ UNCHANGED <<row, utxos>>
       \/ /\ \E a \in Address, n \in 0..MaxCount :
               n # row[a] /\ row' = [row EXCEPT ![a] = n]
          /\ UNCHANGED <<tables, utxos, past>>
       \/ /\ \E a \in Address, n \in 0..MaxCount :
               n # utxos[a] /\ utxos' = [utxos EXCEPT ![a] = n]
          /\ UNCHANGED <<tables, row, past>>
    /\ UNCHANGED <<known, req>>
    /\ Look

Goto(r, p) == pc' = [pc EXCEPT ![r] = p]
Close(r) == session' = session \ {r}
Reply(r, code, listed, count, from) ==
    /\ answer' = [answer EXCEPT ![r] = [code |-> code, listed |-> listed,
                                        count |-> count, from |-> from]]
    /\ Goto(r, "done")
    /\ Close(r)
    /\ UNCHANGED asked

Free(r) == r \in session \/ Cardinality({q \in session : At[q] = At[r]}) < Pool
Keep(r) == session' = session \cup {r}

\* The session is still open when the node is asked (mutant of AskedOfNode).
AskedWithSession(r, as) ==
    /\ asked' = [asked EXCEPT ![r] = as]
    /\ Goto(r, "node")
    /\ UNCHANGED <<session, answer>>

AskedOfNode(r, as) ==
    /\ asked' = [asked EXCEPT ![r] = as]
    /\ Goto(r, "node")
    /\ Close(r)
    /\ UNCHANGED answer

\* What happens without the helper table.
Without(r) ==
    \/ op[r] \in {"utxos", "count"} /\ AskedOfNode(r, addrs[r])
    \/ op[r] = "transactions" /\ Goto(r, "rows") /\ UNCHANGED <<session, asked, answer>>
    \/ op[r] = "total" /\ Reply(r, 503, {}, 0, "none")

Start(r) ==
    /\ pc[r] = "idle"
    /\ seen' = [seen EXCEPT ![r] = Glimpse(r)]
    /\ LET k == known[At[r]][Global(op[r])] IN
       \/ k = Unknown /\ Goto(r, "exists") /\ UNCHANGED <<session, asked, answer, found>>
       \/ /\ k # Unknown
          /\ found' = [found EXCEPT ![r] = k = "yes"]
          /\ \/ k = "yes" /\ Goto(r, "rows") /\ UNCHANGED <<session, asked, answer>>
             \/ k = "no" /\ Without(r)
    /\ UNCHANGED <<env, known, op, addrs>>

\* SELECT EXISTS runs; its result is on the way.
Exists(r) ==
    /\ pc[r] = "exists" /\ Free(r)
    /\ found' = [found EXCEPT ![r] = Table(op[r]) \in tables]
    /\ Keep(r)
    /\ Goto(r, "learn")
    /\ UNCHANGED <<env, known, op, addrs, asked, answer, seen>>

\* The result is taken for the table's, true or not (mutant of Learn).
LearnAlways(r) ==
    /\ pc[r] = "learn"
    /\ known' = [known EXCEPT ![At[r]][Global(op[r])] = "yes"]
    /\ Goto(r, "rows")
    /\ found' = [found EXCEPT ![r] = TRUE]
    /\ UNCHANGED <<env, op, addrs, seen, session, asked, answer>>

Learn(r) ==
    /\ pc[r] = "learn"
    /\ known' = [known EXCEPT ![At[r]][Global(op[r])] = IF found[r] THEN "yes" ELSE "no"]
    /\ \/ found[r] /\ Goto(r, "rows") /\ UNCHANGED <<session, asked, answer>>
       \/ ~found[r] /\ Without(r)
    /\ UNCHANGED <<env, op, addrs, found, seen>>

\* Only one row of the result is read (mutant of OverLimit).
OverLimitOfOne(r) ==
    IF \E a \in addrs[r] : row[a] > UtxoLimit
    THEN {CHOOSE a \in addrs[r] : row[a] > UtxoLimit} ELSE {}

OverLimit(r) == {a \in addrs[r] : row[a] > UtxoLimit}

\* An address without a row has no UTXOs (mutant of FromTable).
FromTableOrZero(r) ==
    \E a \in addrs[r] :
        Reply(r, 200, {}, IF row[a] = Missing THEN 0 ELSE row[a], "table")

FromTable(r) ==
    \E a \in addrs[r] :
        \/ row[a] # Missing /\ Reply(r, 200, {}, row[a], "table")
        \/ row[a] = Missing /\ AskedOfNode(r, addrs[r])

\* Those over the limit are left out; if that is all, the node is not asked.
GetUtxosForAddresses(r) ==
    \/ addrs[r] = OverLimit(r) /\ Reply(r, 200, {}, 0, "table")
    \/ addrs[r] # OverLimit(r) /\ AskedOfNode(r, addrs[r] \ OverLimit(r))

\* The number, or the transactions themselves: what is told is the max-age.
GetTransactionCountForAddress(r) ==
    \/ found[r] /\ Reply(r, 200, {}, 4, "table")
    \/ ~found[r] /\ \E n \in {0, 1000000} : Reply(r, 200, {}, CountTtl(n), "rows")

\* An estimate of the rows of the table, of which 0 is none.
GetAddressesActiveCountTotals(r) ==
    \E code \in {200, 404} : Reply(r, code, {}, 0, "table")

(* The statement that wants the table, or does without; it raises if the   *)
(* table is not there any more.                                            *)
Rows(r) ==
    /\ pc[r] = "rows" /\ Free(r)
    /\ \/ /\ found[r] /\ Table(op[r]) \notin tables
          /\ Reply(r, 500, {}, 0, "none")
       \/ /\ found[r] => Table(op[r]) \in tables
          /\ \/ op[r] = "utxos" /\ GetUtxosForAddresses(r)
             \/ op[r] = "count" /\ FromTable(r)
             \/ op[r] = "transactions" /\ GetTransactionCountForAddress(r)
             \/ op[r] = "total" /\ GetAddressesActiveCountTotals(r)
    /\ UNCHANGED <<env, known, op, addrs, found, seen>>

GetUtxoCountForAddress(r) ==
    \E a \in addrs[r] : Reply(r, 200, {}, utxos[a], "node")

(* get_utxos: one answer of the node, or none in time.  Over gRPC a node    *)
(* that refuses is answered as one without UTXOs (NodeReads).              *)
Node(r) ==
    /\ pc[r] = "node"
    /\ \/ op[r] = "utxos" /\ Reply(r, 200, asked[r], 0, "node")
       \/ op[r] = "count" /\ GetUtxoCountForAddress(r)
       \/ Reply(r, 200, {}, 0, "refused")
       \/ Reply(r, 503, {}, 0, "none")                   \* or 500, over wRPC
    /\ UNCHANGED <<env, known, op, addrs, found, seen>>

Statement(r) == Start(r) \/ Exists(r) \/ Learn(r) \/ Rows(r)

Done == /\ \A r \in Request : pc[r] = "done"
        /\ UNCHANGED vars

Next == Environment \/ (\E r \in Request : Statement(r) \/ Node(r)) \/ Done

Spec == Init /\ [][Next]_vars

(* The pool serves those who wait in their order, so a connection that is  *)
(* free again and again is once given to each.  The node need not answer.  *)
FairSpec ==
    Spec /\ \A r \in Request :
        WF_vars(Learn(r)) /\ SF_vars(Exists(r)) /\ SF_vars(Rows(r))
-----------------------------------------------------------------------------
(* A request holds a connection only between its statements, and no worker *)
(* has more of them than its pool (dbsession.py:35-51).                    *)
TypeOK ==
    /\ past \subseteq SUBSET Tables /\ tables \in past
    /\ row \in [Address -> {Missing} \cup 0..MaxCount]
    /\ utxos \in [Address -> 0..MaxCount]
    /\ changes \in Nat
    /\ known \in [Worker -> [Globals -> {Unknown, "yes", "no"}]]
    /\ pc \in [Request -> {"idle", "exists", "learn", "rows", "node", "done"}]
    /\ op \in [Request -> Op]
    /\ addrs \in [Request -> SUBSET Address]
    /\ session \subseteq {r \in Request : pc[r] \in {"learn", "rows"}}
    /\ \A w \in Worker : Cardinality({r \in session : At[r] = w}) <= Pool
    /\ found \in [Request -> BOOLEAN]
    /\ asked \in [Request -> SUBSET Address]
    /\ answer \in [Request ->
          [code : {0, 200, 404, 500, 503}, listed : SUBSET Address,
           count : Nat, from : {"none", "table", "rows", "node", "refused"}]]

(* If the table was there all the time, the node is never asked for the    *)
(* UTXOs of an address that was over the limit all the time                *)
(* (get_utxos.py:195-223), whoever finds out about the table first.        *)
LimitHolds ==
    (\A T \in past : "utxo_counts" \in T) =>
        \A r \in Request : pc[r] = "node" /\ op[r] = "utxos" =>
            \A a \in asked[r] : \E s \in seen[r][a] : s.row <= UtxoLimit

(* get_utxos.py:99, "Addresses that hold too many UTXOs are silently       *)
(* omitted": no other address is, unless the node refuses.                 *)
OmittedWereOver ==
    \A r \in Request : op[r] = "utxos" /\ answer[r].code = 200
                       /\ answer[r].from # "refused" =>
        \A a \in addrs[r] \ answer[r].listed : \E s \in seen[r][a] : s.row > UtxoLimit

(* The number of UTXOs told is the one that the table, or the node, had    *)
(* for the address at some moment of the request (get_utxos.py:145-153).   *)
CountWasTrue ==
    \A r \in Request : op[r] = "count" /\ answer[r].code = 200
                       /\ answer[r].from # "refused" =>
        \E a \in addrs[r] : \E s \in seen[r][a] :
            answer[r].count = IF answer[r].from = "table" THEN s.row ELSE s.utxos

(* Both, as one.                                                           *)
AnswersWereTrue == OmittedWereOver /\ CountWasTrue

(* Without an answer of the node no request fails, unless a helper table   *)
(* comes or goes while the worker runs (get_utxos.py:175-192).             *)
FailsOnlyIfDropped ==
    \A r \in Request : answer[r].code = 500 /\ asked[r] = {} =>
        \E T, U \in past : Table(op[r]) \in T \ U

(* A node that does not answer holds up nobody who needs the database      *)
(* only: no connection is kept while it is asked (get_utxos.py:112-119).   *)
StatementsEnd ==
    \A r \in Request :
        pc[r] \in {"exists", "learn", "rows"} ~> pc[r] \in {"node", "done"}
=============================================================================
