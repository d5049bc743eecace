------------------------- MODULE AddressTablesProofs -------------------------
(***************************************************************************)
(* For any number of workers, requests and addresses, and any pool: the    *)
(* safety invariants of AddressTables.                                     *)
(***************************************************************************)
EXTENDS AddressTables, FiniteSetTheorems, TLAPS

-----------------------------------------------------------------------------
(* The connections of a worker that are taken.                             *)
Users(w) == {r \in session : At[r] = w}

(* TypeOK, with what Cardinality needs.                                    *)
TypeInv == TypeOK /\ \A w \in Worker : IsFiniteSet(Users(w))

LEMMA UsersAtInit ==
    ASSUME session = {}
    PROVE  \A w \in Worker : IsFiniteSet(Users(w)) /\ Cardinality(Users(w)) <= Pool
<1>1. \A w \in Worker : Users(w) = {}
  BY DEF Users
<1>2. IsFiniteSet({}) /\ Cardinality({}) = 0
  BY FS_EmptySet
<1> QED BY <1>1, <1>2, PoolAssumption

(* Giving a connection back, or keeping it, overdraws no pool.             *)
LEMMA UsersShrink ==
    ASSUME TypeInv, session' \subseteq session
    PROVE  \A w \in Worker : IsFiniteSet(Users(w))' /\ Cardinality(Users(w))' <= Pool
<1> SUFFICES ASSUME NEW w \in Worker
             PROVE  IsFiniteSet(Users(w)') /\ Cardinality(Users(w)') <= Pool
  OBVIOUS
<1>1. IsFiniteSet(Users(w)) /\ Cardinality(Users(w)) <= Pool
  BY DEF TypeInv, TypeOK, Users
<1>2. Users(w)' \subseteq Users(w)
  BY DEF Users
<1>3. /\ IsFiniteSet(Users(w)')
      /\ Cardinality(Users(w)') <= Cardinality(Users(w))
  BY <1>1, <1>2, FS_Subset
<1>4. Cardinality(Users(w)) \in Nat /\ Cardinality(Users(w)') \in Nat
  BY <1>1, <1>3, FS_CardinalityType
<1> QED BY <1>1, <1>3, <1>4, PoolAssumption

(* A connection is taken only where one is free.                           *)
LEMMA UsersGrow ==
    ASSUME TypeInv, NEW r \in Request, Free(r), Keep(r)
    PROVE  \A w \in Worker : IsFiniteSet(Users(w))' /\ Cardinality(Users(w))' <= Pool
<1> SUFFICES ASSUME NEW w \in Worker
             PROVE  IsFiniteSet(Users(w)') /\ Cardinality(Users(w)') <= Pool
  OBVIOUS
<1>1. IsFiniteSet(Users(w)) /\ Cardinality(Users(w)) <= Pool
  BY DEF TypeInv, TypeOK, Users
<1>2. CASE r \in session \/ At[r] # w
  <2>1. Users(w)' = Users(w)
    BY <1>2 DEF Users, Keep
  <2> QED BY <1>1, <2>1
<1>3. CASE r \notin session /\ At[r] = w
  <2>1. Users(w)' = Users(w) \cup {r} /\ r \notin Users(w)
    BY <1>3 DEF Users, Keep
  <2>2. Cardinality(Users(w)) < Pool
    BY <1>3 DEF Free, Users
  <2>3. /\ IsFiniteSet(Users(w)')
        /\ Cardinality(Users(w)') = Cardinality(Users(w)) + 1
    BY <1>1, <2>1, FS_AddElement
  <2>4. Cardinality(Users(w)) \in Nat
    BY <1>1, FS_CardinalityType
  <2> QED BY <2>2, <2>3, <2>4, PoolAssumption
<1> QED BY <1>2, <1>3
-----------------------------------------------------------------------------
LEMMA InitTypes == Init => TypeInv
<1> SUFFICES ASSUME Init PROVE TypeInv
  OBVIOUS
<1>1. PICK asks \in Asks : /\ op = [r \in Request |-> asks[r].op]
                           /\ addrs = [r \in Request |-> asks[r].addrs]
  BY DEF Init
<1>2. asks \in [Request -> [op : Op, addrs : SUBSET Address]]
  BY AsksAssumption
<1>3. op \in [Request -> Op] /\ addrs \in [Request -> SUBSET Address]
  BY <1>1, <1>2
<1>4. /\ \A w \in Worker : IsFiniteSet(Users(w)) /\ Cardinality(Users(w)) <= Pool
  BY UsersAtInit DEF Init
<1>5. /\ \A w \in Worker : Cardinality({r \in session : At[r] = w}) <= Pool
  BY <1>4 DEF Users
<1>6. answer \in [Request -> [code : {0, 200, 404, 500, 503}, listed : SUBSET Address,
                    count : Nat, from : {"none", "table", "rows", "node", "refused"}]]
  BY DEF Init, NoAnswer
<1> QED BY <1>3, <1>4, <1>5, <1>6, CountAssumption DEF Init, TypeInv, TypeOK

(* An answer, or a question to the node, ends the hold on the connection;  *)
(* going on keeps it.                                                      *)
Stays(r, p) == Goto(r, p) /\ UNCHANGED <<session, asked, answer>>
Codes == {0, 200, 404, 500, 503}
Froms == {"none", "table", "rows", "node", "refused"}
Ends(r) == \E code \in Codes, listed \in SUBSET Address, count \in Nat, from \in Froms :
               Reply(r, code, listed, count, from)
Asked(r) == \E as \in SUBSET Address : AskedOfNode(r, as)

Move(r) == \/ Ends(r) \/ Asked(r) \/ Stays(r, "rows")
           \/ pc[r] = "idle" /\ Stays(r, "exists")

LEMMA MoveTypes ==
    ASSUME TypeInv, NEW r \in Request, Move(r), UNCHANGED <<env, op, addrs>>,
           known' \in [Worker -> [Globals -> {Unknown, "yes", "no"}]],
           found' \in [Request -> BOOLEAN]
    PROVE  TypeInv'
<1> USE DEF TypeInv
<1>1. /\ session' \subseteq session
      /\ asked' \in [Request -> SUBSET Address]
      /\ answer' \in [Request -> [code : Codes, listed : SUBSET Address,
                                  count : Nat, from : Froms]]
  <2>0. /\ asked \in [Request -> SUBSET Address]
        /\ answer \in [Request -> [code : Codes, listed : SUBSET Address,
                                   count : Nat, from : Froms]]
    BY DEF TypeOK, Codes, Froms
  <2>1. CASE Ends(r)
    <3>1. PICK code \in Codes, listed \in SUBSET Address, count \in Nat, from \in Froms :
              Reply(r, code, listed, count, from)
      BY <2>1 DEF Ends
    <3>2. [code |-> code, listed |-> listed, count |-> count, from |-> from]
              \in [code : Codes, listed : SUBSET Address, count : Nat, from : Froms]
      OBVIOUS
    <3> QED BY <2>0, <3>1, <3>2 DEF Reply, Close
  <2>2. CASE Asked(r)
    BY <2>0, <2>2 DEF Asked, AskedOfNode, Close
  <2>3. CASE \E p \in {"rows", "exists"} : Stays(r, p)
    BY <2>0, <2>3 DEF Stays
  <2> QED BY <2>1, <2>2, <2>3 DEF Move
<1>2. PICK p \in {"exists", "rows", "node", "done"} :
          /\ pc' = [pc EXCEPT ![r] = p]
          /\ r \in session' => p = "rows"
  <2>1. CASE Ends(r)
    BY <2>1 DEF Ends, Reply, Goto, Close
  <2>2. CASE Asked(r)
    BY <2>2 DEF Asked, AskedOfNode, Goto, Close
  <2>3. CASE Stays(r, "rows")
    BY <2>3 DEF Stays, Goto
  <2>4. CASE pc[r] = "idle" /\ Stays(r, "exists")
    <3>1. r \notin session
      BY <2>4 DEF TypeOK
    <3> QED BY <2>4, <3>1 DEF Stays, Goto
  <2> QED BY <2>1, <2>2, <2>3, <2>4 DEF Move
<1>3. session' \subseteq {q \in Request : pc'[q] \in {"learn", "rows"}}
  BY <1>1, <1>2 DEF TypeOK
<1>4. \A w \in Worker : IsFiniteSet(Users(w))' /\ Cardinality(Users(w))' <= Pool
  BY <1>1, UsersShrink
<1>5. \A w \in Worker : Cardinality({q \in session' : At[q] = w}) <= Pool
  BY <1>4 DEF Users
<1> QED BY <1>1, <1>2, <1>3, <1>4, <1>5 DEF TypeOK, env, Codes, Froms

(* Without the helper table the request asks the node, goes on, or ends.   *)
LEMMA WithoutMoves ==
    ASSUME TypeInv, NEW r \in Request, Without(r)
    PROVE  Move(r)
<1>1. CASE AskedOfNode(r, addrs[r])
  BY <1>1 DEF Move, Asked, TypeInv, TypeOK
<1>2. CASE Goto(r, "rows") /\ UNCHANGED <<session, asked, answer>>
  BY <1>2 DEF Move, Stays
<1>3. CASE Reply(r, 503, {}, 0, "none")
  BY <1>3 DEF Move, Ends, Codes, Froms
<1> QED BY <1>1, <1>2, <1>3 DEF Without

(* Every outcome of the statement on the rows is a move.                   *)
LEMMA RowsMoves ==
    ASSUME TypeInv, NEW r \in Request, Rows(r)
    PROVE  Move(r)
<1>0. addrs[r] \in SUBSET Address /\ op[r] \in Op
  BY DEF TypeInv, TypeOK
<1>1. CASE Reply(r, 500, {}, 0, "none")
  BY <1>1 DEF Move, Ends, Codes, Froms
<1>2. CASE GetUtxosForAddresses(r)
  <2>1. CASE Reply(r, 200, {}, 0, "table")
    BY <2>1 DEF Move, Ends, Codes, Froms
  <2>2. CASE AskedOfNode(r, addrs[r] \ OverLimit(r))
    BY <1>0, <2>2 DEF Move, Asked
  <2> QED BY <1>2, <2>1, <2>2 DEF GetUtxosForAddresses
<1>3. CASE FromTable(r)
  <2>1. PICK a \in addrs[r] :
            \/ row[a] # Missing /\ Reply(r, 200, {}, row[a], "table")
            \/ row[a] = Missing /\ AskedOfNode(r, addrs[r])
    BY <1>3 DEF FromTable
  <2>2. row[a] # Missing => row[a] \in Nat
    BY <1>0, CountAssumption DEF TypeInv, TypeOK
  <2>3. CASE row[a] # Missing /\ Reply(r, 200, {}, row[a], "table")
    BY <2>2, <2>3 DEF Move, Ends, Codes, Froms
  <2>4. CASE AskedOfNode(r, addrs[r])
    BY <1>0, <2>4 DEF Move, Asked
  <2> QED BY <2>1, <2>3, <2>4
<1>4. CASE GetTransactionCountForAddress(r)
  <2>1. \A n \in Nat : CountTtl(n) \in Nat
    BY DEF CountTtl
  <2>2. PICK n \in Nat, from \in Froms : Reply(r, 200, {}, n, from)
    BY <1>4, <2>1 DEF GetTransactionCountForAddress, Froms
  <2> QED BY <2>2 DEF Move, Ends, Codes
<1>5. CASE GetAddressesActiveCountTotals(r)
  BY <1>5 DEF GetAddressesActiveCountTotals, Move, Ends, Codes, Froms
<1> QED BY <1>1, <1>2, <1>3, <1>4, <1>5 DEF Rows

LEMMA NodeMoves ==
    ASSUME TypeInv, NEW r \in Request, Node(r)
    PROVE  Move(r)
<1>0. asked[r] \in SUBSET Address /\ addrs[r] \in SUBSET Address
  BY DEF TypeInv, TypeOK
<1>1. CASE Reply(r, 200, asked[r], 0, "node")
  BY <1>0, <1>1 DEF Move, Ends, Codes, Froms
<1>2. CASE GetUtxoCountForAddress(r)
  <2>1. PICK a \in addrs[r] : Reply(r, 200, {}, utxos[a], "node")
    BY <1>2 DEF GetUtxoCountForAddress
  <2>2. utxos[a] \in Nat
    BY <1>0, CountAssumption DEF TypeInv, TypeOK
  <2> QED BY <2>1, <2>2 DEF Move, Ends, Codes, Froms
<1>3. CASE Reply(r, 200, {}, 0, "refused") \/ Reply(r, 503, {}, 0, "none")
  BY <1>3 DEF Move, Ends, Codes, Froms
<1> QED BY <1>1, <1>2, <1>3 DEF Node

LEMMA NextTypes == TypeInv /\ [Next]_vars => TypeInv'
<1> SUFFICES ASSUME TypeInv, [Next]_vars PROVE TypeInv'
  OBVIOUS
<1>1. CASE Environment
  <2>1. UNCHANGED <<known, pc, op, addrs, session, found, asked, answer>>
    BY <1>1 DEF Environment, req
  <2>2. /\ past' \subseteq SUBSET Tables /\ tables' \in past'
        /\ row' \in [Address -> {Missing} \cup 0..MaxCount]
        /\ utxos' \in [Address -> 0..MaxCount]
        /\ changes' \in Nat
    <3>1. CASE /\ \E T \in SUBSET Tables \ {tables} : tables' = T
               /\ past' = past \cup {tables'}
               /\ UNCHANGED <<row, utxos>>
      BY <1>1, <3>1 DEF Environment, TypeInv, TypeOK
    <3>2. CASE /\ \E a \in Address, n \in 0..MaxCount : row' = [row EXCEPT ![a] = n]
               /\ UNCHANGED <<tables, utxos, past>>
      BY <1>1, <3>2 DEF Environment, TypeInv, TypeOK
    <3>3. CASE /\ \E a \in Address, n \in 0..MaxCount : utxos' = [utxos EXCEPT ![a] = n]
               /\ UNCHANGED <<tables, row, past>>
      BY <1>1, <3>3 DEF Environment, TypeInv, TypeOK
    <3> QED BY <1>1, <3>1, <3>2, <3>3 DEF Environment
  <2>3. \A w \in Worker : Users(w)' = Users(w)
    BY <2>1 DEF Users
  <2> QED BY <2>1, <2>2, <2>3 DEF TypeInv, TypeOK
<1>2. ASSUME NEW r \in Request, Start(r) PROVE TypeInv'
  <2>1. Move(r)
    BY <1>2, WithoutMoves DEF Start, Move, Stays
  <2>2. PICK yes \in BOOLEAN : found' = found \/ found' = [found EXCEPT ![r] = yes]
    BY <1>2 DEF Start
  <2>3. found' \in [Request -> BOOLEAN]
    BY <2>2 DEF TypeInv, TypeOK
  <2>4. UNCHANGED <<env, known, op, addrs>>
    BY <1>2 DEF Start
  <2> QED BY <2>1, <2>3, <2>4, MoveTypes DEF TypeInv, TypeOK
<1>3. ASSUME NEW r \in Request, Exists(r) PROVE TypeInv'
  <2>1. \A w \in Worker : IsFiniteSet(Users(w))' /\ Cardinality(Users(w))' <= Pool
    BY <1>3, UsersGrow DEF Exists
  <2>2. \A w \in Worker : Cardinality({q \in session' : At[q] = w}) <= Pool
    BY <2>1 DEF Users
  <2>3. /\ pc' \in [Request -> {"idle", "exists", "learn", "rows", "node", "done"}]
        /\ session' \subseteq {q \in Request : pc'[q] \in {"learn", "rows"}}
    BY <1>3 DEF Exists, Goto, Keep, TypeInv, TypeOK
  <2>4. PICK yes \in BOOLEAN : found' = [found EXCEPT ![r] = yes]
    <3>1. (Table(op[r]) \in tables) \in BOOLEAN
      OBVIOUS
    <3>2. found' = [found EXCEPT ![r] = Table(op[r]) \in tables]
      BY <1>3 DEF Exists
    <3> QED BY <3>1, <3>2, Zenon
  <2>5. found' \in [Request -> BOOLEAN]
    BY <2>4 DEF TypeInv, TypeOK
  <2>6. UNCHANGED <<tables, row, utxos, changes, past, known, op, addrs, asked, answer>>
    BY <1>3 DEF Exists, env
  <2> QED BY <2>1, <2>2, <2>3, <2>5, <2>6 DEF TypeInv, TypeOK
<1>4. ASSUME NEW r \in Request, Learn(r) PROVE TypeInv'
  <2>1. Move(r)
    BY <1>4, WithoutMoves DEF Learn, Move, Stays
  <2>2. known' \in [Worker -> [Globals -> {Unknown, "yes", "no"}]]
    <3>1. PICK yes \in {"yes", "no"} :
              known' = [known EXCEPT ![At[r]][Global(op[r])] = yes]
      BY <1>4 DEF Learn
    <3>2. At[r] \in Worker /\ Global(op[r]) \in Globals
      BY PoolAssumption DEF TypeInv, TypeOK, Global, Globals, Op
    <3> QED BY <3>1, <3>2 DEF TypeInv, TypeOK
  <2>3. found' = found /\ UNCHANGED <<env, op, addrs>>
    BY <1>4 DEF Learn
  <2> QED BY <2>1, <2>2, <2>3, MoveTypes DEF TypeInv, TypeOK
<1>5. ASSUME NEW r \in Request, Rows(r) \/ Node(r) PROVE TypeInv'
  <2>1. Move(r)
    BY <1>5, RowsMoves, NodeMoves
  <2>2. UNCHANGED <<env, known, op, addrs, found>>
    BY <1>5 DEF Rows, Node
  <2> QED BY <2>1, <2>2, MoveTypes DEF TypeInv, TypeOK
<1>6. CASE UNCHANGED vars
  BY <1>6 DEF vars, TypeInv, TypeOK, Users
<1> QED BY <1>1, <1>2, <1>3, <1>4, <1>5, <1>6 DEF Next, Statement, Done
-----------------------------------------------------------------------------
(* What a worker remembers of a helper table was true at some moment.      *)
WasThere(t) == \E T \in past : t \in T
WasMissing(t) == \E T \in past : t \notin T
GlobalTable(g) == IF g = "utxos" THEN "utxo_counts" ELSE "transactions_count"
MemoryAgrees ==
    \A w \in Worker, g \in Globals :
        /\ known[w][g] = "yes" => WasThere(GlobalTable(g))
        /\ known[w][g] = "no" => WasMissing(GlobalTable(g))

(* The counts that table and node have of an address now.                  *)
View == [row : {Missing} \cup Nat, utxos : Nat]
Now(a) == [row |-> RowOf(a), utxos |-> utxos[a]]

(* Those left out of the question to the node were over the limit, and     *)
(* those in it were not, unless there was no table to tell.                *)
QuestionAgrees(r) ==
    /\ asked[r] \subseteq addrs[r]
    /\ op[r] \in {"utxos", "count"}
    /\ op[r] = "utxos" =>
          /\ \/ WasMissing("utxo_counts")
             \/ \A a \in asked[r] : \E s \in seen[r][a] : s.row <= UtxoLimit
          /\ \A a \in addrs[r] \ asked[r] : \E s \in seen[r][a] : s.row > UtxoLimit

(* The invariants, for one answer.                                         *)
Truthful(r) ==
    /\ op[r] = "utxos" /\ answer[r].code = 200 /\ answer[r].from # "refused" =>
          \A a \in addrs[r] \ answer[r].listed : \E s \in seen[r][a] : s.row > UtxoLimit
    /\ op[r] = "count" /\ answer[r].code = 200 /\ answer[r].from # "refused" =>
          \E a \in addrs[r] : \E s \in seen[r][a] :
              answer[r].count = IF answer[r].from = "table" THEN s.row ELSE s.utxos
    /\ answer[r].code = 500 => \E T, U \in past : Table(op[r]) \in T \ U

(* What holds of a request, wherever it is.                                *)
Agrees(r) ==
    /\ Running(r) => \A a \in addrs[r] : Now(a) \in seen[r][a]
    /\ pc[r] \in {"learn", "rows"} =>
          IF found[r] THEN WasThere(Table(op[r])) ELSE WasMissing(Table(op[r]))
    /\ pc[r] = "rows" => found[r] \/ op[r] = "transactions"
    /\ pc[r] # "done" => answer[r].code = 0
    /\ pc[r] = "node" => QuestionAgrees(r)
    /\ Truthful(r)

TablesInv ==
    /\ seen \in [Request -> [Address -> SUBSET View]]
    /\ MemoryAgrees
    /\ \A r \in Request : Agrees(r)

LEMMA InitTables == Init => TablesInv
BY DEF Init, TablesInv, MemoryAgrees, Agrees, Truthful, Running, NoAnswer, Unknown

(* The tables, and what is remembered of them, are those of the operation. *)
LEMMA TableOfGlobal ==
    \A o \in Op : Global(o) \in Globals /\ GlobalTable(Global(o)) = Table(o)
BY DEF Op, Global, Globals, GlobalTable, Table

LEMMA NowIsView ==
    ASSUME TypeInv, NEW a \in Address
    PROVE  Now(a) \in View
BY CountAssumption DEF Now, View, RowOf, TypeInv, TypeOK

(* What a request can see is seen by it, whatever else it has seen.        *)
LEMMA GlimpseIsNow ==
    ASSUME NEW r \in Request, NEW a \in Address
    PROVE  Glimpse(r)[a] = IF a \in addrs[r] THEN {Now(a)} ELSE {}
BY DEF Glimpse, Now

(* A change of the tables or the node is seen by all that run.             *)
LEMMA EnvironmentAgrees ==
    ASSUME TypeInv, TypeInv', TablesInv, Environment
    PROVE  TablesInv'
<1>1. UNCHANGED <<known, pc, op, addrs, found, asked, answer>>
  BY DEF Environment, req
<1>2. past \subseteq past'
  BY DEF Environment
<1>3. seen' \in [Request -> [Address -> SUBSET View]]
  <2>1. ASSUME NEW r \in Request, NEW a \in Address
        PROVE  Glimpse(r)'[a] \in SUBSET View
    <3>1. Glimpse(r)'[a] = IF a \in addrs'[r] THEN {Now(a)'} ELSE {}
      BY DEF Glimpse, Now
    <3>2. Now(a)' \in View
      BY CountAssumption DEF Now, View, RowOf, TypeInv, TypeOK
    <3> QED BY <3>1, <3>2
  <2>2. seen \in [Request -> [Address -> SUBSET View]]
    BY DEF TablesInv
  <2> QED BY <2>1, <2>2 DEF Environment, Look
<1>4. ASSUME NEW r \in Request, NEW a \in Address
      PROVE  /\ seen[r][a] \subseteq seen'[r][a]
             /\ Running(r) /\ a \in addrs[r] => Now(a)' \in seen'[r][a]
  <2>1. Glimpse(r)'[a] = IF a \in addrs'[r] THEN {Now(a)'} ELSE {}
    BY DEF Glimpse, Now
  <2>2. seen'[r][a] = IF Running(r) THEN seen[r][a] \cup Glimpse(r)'[a] ELSE seen[r][a]
    BY DEF Environment, Look
  <2> QED BY <1>1, <2>1, <2>2
<1>5. \A t : (WasThere(t) => WasThere(t)') /\ (WasMissing(t) => WasMissing(t)')
  BY <1>2 DEF WasThere, WasMissing
<1>6. MemoryAgrees'
  BY <1>1, <1>5 DEF TablesInv, MemoryAgrees
<1>7. ASSUME NEW r \in Request PROVE Agrees(r)'
  <2>1. addrs[r] \subseteq Address /\ Agrees(r)
    BY DEF TypeInv, TypeOK, TablesInv
  <2>2. Running(r)' => \A a \in addrs'[r] : Now(a)' \in seen'[r][a]
    BY <1>1, <1>4, <2>1 DEF Running
  <2>3. QuestionAgrees(r) => QuestionAgrees(r)'
    BY <1>1, <1>4, <1>5, <2>1 DEF QuestionAgrees
  <2>4. Truthful(r)'
    <3>1. /\ op[r] = "utxos" /\ answer[r].code = 200 /\ answer[r].from # "refused" =>
             \A a \in addrs[r] \ answer[r].listed : \E s \in seen'[r][a] : s.row > UtxoLimit
      BY <1>4, <2>1 DEF Agrees, Truthful
    <3>2. op[r] = "count" /\ answer[r].code = 200 /\ answer[r].from # "refused" =>
              \E a \in addrs[r] : \E s \in seen'[r][a] :
                  answer[r].count = IF answer[r].from = "table" THEN s.row ELSE s.utxos
      BY <1>4, <2>1 DEF Agrees, Truthful
    <3>3. answer[r].code = 500 => \E T, U \in past' : Table(op[r]) \in T \ U
      BY <1>2, <2>1 DEF Agrees, Truthful
    <3> QED BY <1>1, <3>1, <3>2, <3>3 DEF Truthful
  <2> QED BY <1>1, <1>5, <2>1, <2>2, <2>3, <2>4 DEF Agrees
<1> QED BY <1>3, <1>6, <1>7 DEF TablesInv

(* A step of r concerns the invariant of r alone.                          *)
Others(r) ==
    \A q \in Request \ {r} :
        /\ pc'[q] = pc[q] /\ found'[q] = found[q] /\ asked'[q] = asked[q]
        /\ answer'[q] = answer[q] /\ seen'[q] = seen[q]

LEMMA StepAgrees ==
    ASSUME TablesInv, NEW r \in Request, UNCHANGED <<env, op, addrs>>,
           seen' \in [Request -> [Address -> SUBSET View]],
           MemoryAgrees', Others(r), Agrees(r)'
    PROVE  TablesInv'
<1>1. ASSUME NEW q \in Request \ {r} PROVE Agrees(q)'
  <2>1. Agrees(q)
    BY DEF TablesInv
  <2>2. /\ pc'[q] = pc[q] /\ found'[q] = found[q] /\ asked'[q] = asked[q]
        /\ answer'[q] = answer[q] /\ seen'[q] = seen[q]
    BY DEF Others
  <2>3. UNCHANGED <<tables, row, utxos, past, op, addrs>>
    BY DEF env
  <2> QED BY <2>1, <2>2, <2>3 DEF Agrees, Running, Now, RowOf, WasThere, WasMissing,
              QuestionAgrees, Truthful
<1> QED BY <1>1 DEF TablesInv

(* The fields of the answer of a reply.                                    *)
LEMMA ReplyAnswers ==
    ASSUME TypeInv, NEW r \in Request, NEW code, NEW listed, NEW count, NEW from,
           Reply(r, code, listed, count, from)
    PROVE  /\ answer'[r].code = code /\ answer'[r].listed = listed
           /\ answer'[r].count = count /\ answer'[r].from = from
<1>1. answer'[r] = [code |-> code, listed |-> listed, count |-> count, from |-> from]
  BY DEF Reply, TypeInv, TypeOK
<1> QED BY <1>1

(* An answer that is true ends what is claimed of the request.             *)
LEMMA ReplyAgrees ==
    ASSUME TypeInv, NEW r \in Request, NEW code, NEW listed, NEW count, NEW from,
           Reply(r, code, listed, count, from), Truthful(r)'
    PROVE  Agrees(r)'
<1>1. pc'[r] = "done"
  BY DEF Reply, Goto, TypeInv, TypeOK
<1> QED BY <1>1 DEF Agrees, Running

(* A reply of another kind than 200 and 500 says nothing of the counts.    *)
LEMMA PlainReplyAgrees ==
    ASSUME TypeInv, NEW r \in Request, NEW code, NEW listed, NEW count, NEW from,
           Reply(r, code, listed, count, from), code # 500,
           code # 200 \/ from = "refused" \/ op'[r] \notin {"utxos", "count"}
    PROVE  Agrees(r)'
<1>1. Truthful(r)'
  BY ReplyAnswers DEF Truthful
<1> QED BY <1>1, ReplyAgrees

LEMMA AskAgrees ==
    ASSUME TypeInv, NEW r \in Request, NEW as \in SUBSET addrs[r], AskedOfNode(r, as),
           UNCHANGED <<env, op, addrs>>, answer[r].code = 0,
           \A a \in addrs[r] : Now(a) \in seen'[r][a],
           op[r] \in {"utxos", "count"},
           op[r] = "utxos" =>
               /\ \/ WasMissing("utxo_counts")
                  \/ \A a \in as : \E s \in seen'[r][a] : s.row <= UtxoLimit
               /\ \A a \in addrs[r] \ as : \E s \in seen'[r][a] : s.row > UtxoLimit
    PROVE  Agrees(r)'
<1>1. pc'[r] = "node" /\ asked'[r] = as /\ answer'[r].code = 0
  BY DEF AskedOfNode, Goto, TypeInv, TypeOK
<1>2. UNCHANGED <<tables, row, utxos, past, op, addrs>>
  BY DEF env
<1>3. \A a \in addrs'[r] : Now(a)' \in seen'[r][a]
  BY <1>2 DEF Now, RowOf
<1>4. QuestionAgrees(r)'
  BY <1>1, <1>2 DEF QuestionAgrees, WasMissing
<1>5. Truthful(r)'
  BY <1>1 DEF Truthful
<1> QED BY <1>1, <1>3, <1>4, <1>5 DEF Agrees

LEMMA StayAgrees ==
    ASSUME TypeInv, NEW r \in Request, NEW p \in {"exists", "rows"}, Stays(r, p),
           UNCHANGED <<env, op, addrs>>, answer[r].code = 0,
           \A a \in addrs[r] : Now(a) \in seen'[r][a],
           p = "rows" =>
               /\ IF found'[r] THEN WasThere(Table(op[r])) ELSE WasMissing(Table(op[r]))
               /\ found'[r] \/ op[r] = "transactions"
    PROVE  Agrees(r)'
<1>1. pc'[r] = p /\ answer'[r].code = 0
  BY DEF Stays, Goto, TypeInv, TypeOK
<1>2. UNCHANGED <<tables, row, utxos, past, op, addrs>>
  BY DEF env
<1>3. \A a \in addrs'[r] : Now(a)' \in seen'[r][a]
  BY <1>2 DEF Now, RowOf
<1>4. Truthful(r)'
  BY <1>1 DEF Truthful
<1>5. p = "rows" => IF found'[r] THEN WasThere(Table(op[r]))' ELSE WasMissing(Table(op[r]))'
  BY <1>2 DEF WasThere, WasMissing
<1> QED BY <1>1, <1>2, <1>3, <1>4, <1>5 DEF Agrees

LEMMA WithoutAgrees ==
    ASSUME TypeInv, NEW r \in Request, Without(r),
           UNCHANGED <<env, op, addrs>>, answer[r].code = 0,
           \A a \in addrs[r] : Now(a) \in seen'[r][a],
           ~found'[r], WasMissing(Table(op[r]))
    PROVE  Agrees(r)'
<1>1. CASE op[r] \in {"utxos", "count"} /\ AskedOfNode(r, addrs[r])
  <2>1. WasMissing("utxo_counts")
    BY <1>1 DEF Table
  <2> QED BY <1>1, <2>1, AskAgrees
<1>2. CASE op[r] = "transactions" /\ Stays(r, "rows")
  BY <1>2, StayAgrees
<1>3. CASE op[r] = "total" /\ Reply(r, 503, {}, 0, "none")
  BY <1>3, PlainReplyAgrees
<1> QED BY <1>1, <1>2, <1>3 DEF Without, Stays

LEMMA NodeAgrees ==
    ASSUME TypeInv, TablesInv, NEW r \in Request, Node(r)
    PROVE  Agrees(r)'
<1>1. pc[r] = "node" /\ UNCHANGED <<env, op, addrs, seen>> /\ Agrees(r)
  BY DEF Node, TablesInv
<1>2. QuestionAgrees(r) /\ \A a \in addrs[r] : Now(a) \in seen[r][a]
  BY <1>1 DEF Agrees, Running
<1>3. CASE op[r] = "utxos" /\ Reply(r, 200, asked[r], 0, "node")
  <2>1. Truthful(r)'
    BY <1>1, <1>2, <1>3, ReplyAnswers DEF Truthful, QuestionAgrees
  <2> QED BY <1>3, <2>1, ReplyAgrees
<1>4. CASE op[r] = "count" /\ GetUtxoCountForAddress(r)
  <2>1. PICK a \in addrs[r] : Reply(r, 200, {}, utxos[a], "node")
    BY <1>4 DEF GetUtxoCountForAddress
  <2>2. Now(a) \in seen[r][a] /\ Now(a).utxos = utxos[a]
    BY <1>2 DEF Now
  <2>3. /\ answer'[r].code = 200 /\ answer'[r].count = utxos[a]
        /\ answer'[r].from = "node"
    BY <2>1, ReplyAnswers
  <2>4. Truthful(r)'
    BY <1>1, <1>4, <2>2, <2>3 DEF Truthful
  <2> QED BY <2>1, <2>4, ReplyAgrees
<1>5. CASE Reply(r, 200, {}, 0, "refused")
  BY <1>5, PlainReplyAgrees
<1>6. CASE Reply(r, 503, {}, 0, "none")
  BY <1>6, PlainReplyAgrees
<1> QED BY <1>3, <1>4, <1>5, <1>6 DEF Node

(* What the row of an address says is what can be seen of it, as long as   *)
(* its table is there.                                                     *)
LEMMA RowsAgrees ==
    ASSUME TypeInv, TablesInv, NEW r \in Request, Rows(r)
    PROVE  Agrees(r)'
<1>1. pc[r] = "rows" /\ UNCHANGED <<env, op, addrs, found, seen>> /\ Agrees(r)
  BY DEF Rows, TablesInv
<1>2. /\ \A a \in addrs[r] : Now(a) \in seen[r][a]
      /\ IF found[r] THEN WasThere(Table(op[r])) ELSE WasMissing(Table(op[r]))
      /\ found[r] \/ op[r] = "transactions"
      /\ answer[r].code = 0
  BY <1>1 DEF Agrees, Running
<1>3. addrs[r] \subseteq Address
  BY DEF TypeInv, TypeOK
<1>4. CASE /\ found[r] /\ Table(op[r]) \notin tables
           /\ Reply(r, 500, {}, 0, "none")
  <2>1. PICK T \in past : Table(op[r]) \in T
    BY <1>2, <1>4 DEF WasThere
  <2>2. tables \in past
    BY DEF TypeInv, TypeOK
  <2>3. \E U, V \in past' : Table(op'[r]) \in U \ V
    BY <1>1, <1>4, <2>1, <2>2 DEF env
  <2>4. Truthful(r)'
    BY <1>4, <2>3, ReplyAnswers DEF Truthful
  <2> QED BY <1>4, <2>4, ReplyAgrees
<1>5. CASE op[r] \in {"utxos", "count"} /\ "utxo_counts" \in tables
  <2>1. \A a \in addrs[r] : Now(a) \in seen[r][a] /\ Now(a).row = row[a]
    BY <1>2, <1>5 DEF Now, RowOf
  <2>2. \A a \in addrs[r] : row[a] \in Int
    BY <1>3, CountAssumption DEF TypeInv, TypeOK, Missing
  <2>3. \A a \in OverLimit(r) : \E s \in seen[r][a] : s.row > UtxoLimit
    BY <2>1 DEF OverLimit
  <2>4. \A a \in addrs[r] \ OverLimit(r) : \E s \in seen[r][a] : s.row <= UtxoLimit
    <3> SUFFICES ASSUME NEW a \in addrs[r] \ OverLimit(r)
                 PROVE  \E s \in seen[r][a] : s.row <= UtxoLimit
      OBVIOUS
    <3>1. row[a] <= UtxoLimit
      BY <2>2, CountAssumption DEF OverLimit
    <3> QED BY <2>1, <3>1
  <2>5. CASE op[r] = "utxos" /\ addrs[r] = OverLimit(r) /\ Reply(r, 200, {}, 0, "table")
    <3>1. Truthful(r)'
      BY <1>1, <2>3, <2>5, ReplyAnswers DEF Truthful
    <3> QED BY <2>5, <3>1, ReplyAgrees
  <2>6. CASE op[r] = "utxos" /\ AskedOfNode(r, addrs[r] \ OverLimit(r))
    <3>1. \A a \in addrs[r] \ (addrs[r] \ OverLimit(r)) :
              \E s \in seen[r][a] : s.row > UtxoLimit
      BY <2>3
    <3> QED BY <1>1, <1>2, <2>4, <2>6, <3>1, AskAgrees
  <2>7. CASE op[r] = "count" /\ FromTable(r)
    <3>1. PICK a \in addrs[r] :
              \/ row[a] # Missing /\ Reply(r, 200, {}, row[a], "table")
              \/ row[a] = Missing /\ AskedOfNode(r, addrs[r])
      BY <2>7 DEF FromTable
    <3>2. CASE Reply(r, 200, {}, row[a], "table")
      <4>1. /\ answer'[r].code = 200 /\ answer'[r].count = row[a]
            /\ answer'[r].from = "table"
        BY <3>2, ReplyAnswers
      <4>2. Truthful(r)'
        BY <1>1, <2>1, <2>7, <4>1 DEF Truthful
      <4> QED BY <3>2, <4>2, ReplyAgrees
    <3>3. CASE AskedOfNode(r, addrs[r])
      BY <1>1, <1>2, <2>7, <3>3, AskAgrees
    <3> QED BY <3>1, <3>2, <3>3
  <2>8. CASE op[r] = "utxos" /\ GetUtxosForAddresses(r)
    BY <2>5, <2>6, <2>8 DEF GetUtxosForAddresses
  <2>9. \/ op[r] = "utxos" /\ GetUtxosForAddresses(r)
        \/ op[r] = "count" /\ FromTable(r)
        \/ Reply(r, 500, {}, 0, "none") /\ Table(op[r]) \notin tables
    BY <1>5 DEF Rows
  <2> QED BY <1>5, <2>7, <2>8, <2>9 DEF Table
<1>6. CASE op[r] = "transactions" /\ GetTransactionCountForAddress(r)
  <2>1. PICK n, from : Reply(r, 200, {}, n, from)
    BY <1>6 DEF GetTransactionCountForAddress
  <2> QED BY <1>1, <1>6, <2>1, PlainReplyAgrees
<1>7. CASE op[r] = "total" /\ GetAddressesActiveCountTotals(r)
  BY <1>1, <1>7, PlainReplyAgrees DEF GetAddressesActiveCountTotals
<1> QED BY <1>2, <1>4, <1>5, <1>6, <1>7 DEF Rows, Table

LEMMA StartAgrees ==
    ASSUME TypeInv, TablesInv, NEW r \in Request, Start(r)
    PROVE  Agrees(r)' /\ seen' \in [Request -> [Address -> SUBSET View]]
<1> DEFINE k == known[At[r]][Global(op[r])]
<1>1. /\ pc[r] = "idle" /\ seen' = [seen EXCEPT ![r] = Glimpse(r)]
      /\ UNCHANGED <<env, op, addrs>> /\ Agrees(r)
  BY DEF Start, TablesInv
<1>2. answer[r].code = 0
  BY <1>1 DEF Agrees
<1>3. seen \in [Request -> [Address -> SUBSET View]]
  BY DEF TablesInv
<1>4. addrs[r] \subseteq Address /\ op[r] \in Op
  BY DEF TypeInv, TypeOK
<1>5. \A a \in addrs[r] : Now(a) \in seen'[r][a]
  BY <1>1, <1>3, <1>4, GlimpseIsNow
<1>6. seen' \in [Request -> [Address -> SUBSET View]]
  <2>1. \A a \in Address : Glimpse(r)[a] \in SUBSET View
    BY GlimpseIsNow, NowIsView
  <2>2. Glimpse(r) \in [Address -> SUBSET View]
    BY <2>1 DEF Glimpse
  <2> QED BY <1>1, <1>3, <2>2
<1>7. /\ k = "yes" => WasThere(Table(op[r]))
      /\ k = "no" => WasMissing(Table(op[r]))
  BY <1>4, TableOfGlobal, PoolAssumption DEF TablesInv, MemoryAgrees
<1>8. CASE Stays(r, "exists")
  BY <1>1, <1>2, <1>5, <1>6, <1>8, StayAgrees
<1>9. CASE /\ found' = [found EXCEPT ![r] = k = "yes"]
           /\ k = "yes" /\ Stays(r, "rows")
  <2>1. found \in [Request -> BOOLEAN]
    BY DEF TypeInv, TypeOK
  <2>2. found'[r] <=> k = "yes"
    BY <1>9, <2>1, Zenon
  <2>3. found'[r]
    BY <1>9, <2>2
  <2> QED BY <1>1, <1>2, <1>5, <1>6, <1>7, <1>9, <2>3, StayAgrees
<1>10. CASE /\ found' = [found EXCEPT ![r] = k = "yes"]
            /\ k = "no" /\ Without(r)
  <2>1. found \in [Request -> BOOLEAN]
    BY DEF TypeInv, TypeOK
  <2>2. found'[r] <=> k = "yes"
    BY <1>10, <2>1, Zenon
  <2>3. ~found'[r]
    BY <1>10, <2>2
  <2> QED BY <1>1, <1>2, <1>5, <1>6, <1>7, <1>10, <2>3, WithoutAgrees
<1> QED BY <1>6, <1>8, <1>9, <1>10 DEF Start, Stays

LEMMA ExistsAgrees ==
    ASSUME TypeInv, TablesInv, NEW r \in Request, Exists(r)
    PROVE  Agrees(r)'
<1>1. /\ pc[r] = "exists" /\ pc' = [pc EXCEPT ![r] = "learn"]
      /\ found' = [found EXCEPT ![r] = Table(op[r]) \in tables]
      /\ UNCHANGED <<env, op, addrs, asked, answer, seen>> /\ Agrees(r)
  BY DEF Exists, Goto, TablesInv
<1>2. UNCHANGED <<tables, row, utxos, past>>
  BY <1>1 DEF env
<1>3. pc'[r] = "learn"
  BY <1>1 DEF TypeInv, TypeOK
<1>4. found'[r] <=> Table(op[r]) \in tables
  <2>1. found \in [Request -> BOOLEAN]
    BY DEF TypeInv, TypeOK
  <2> QED BY <1>1, <2>1, Zenon
<1>5. tables \in past
  BY DEF TypeInv, TypeOK
<1>6. IF found'[r] THEN WasThere(Table(op[r]))' ELSE WasMissing(Table(op[r]))'
  BY <1>1, <1>2, <1>4, <1>5 DEF WasThere, WasMissing
<1>7. \A a \in addrs'[r] : Now(a)' \in seen'[r][a]
  BY <1>1, <1>2 DEF Agrees, Running, Now, RowOf
<1>8. Truthful(r)'
  BY <1>1, <1>2 DEF Agrees, Truthful
<1> QED BY <1>1, <1>3, <1>6, <1>7, <1>8 DEF Agrees

(* What is learnt of the table is what was found.                          *)
LEMMA LearnAgrees ==
    ASSUME TypeInv, TablesInv, NEW r \in Request, Learn(r)
    PROVE  Agrees(r)' /\ MemoryAgrees'
<1>1. /\ pc[r] = "learn" /\ UNCHANGED <<env, op, addrs, found, seen>> /\ Agrees(r)
  BY DEF Learn, TablesInv
<1>2. /\ \A a \in addrs[r] : Now(a) \in seen[r][a]
      /\ IF found[r] THEN WasThere(Table(op[r])) ELSE WasMissing(Table(op[r]))
      /\ answer[r].code = 0
  BY <1>1 DEF Agrees, Running
<1>3. MemoryAgrees'
  <2> DEFINE yes == IF found[r] THEN "yes" ELSE "no"
             g == Global(op[r])
  <2>1. known' = [known EXCEPT ![At[r]][g] = yes]
    BY DEF Learn
  <2>2. known \in [Worker -> [Globals -> {Unknown, "yes", "no"}]]
    BY DEF TypeInv, TypeOK
  <2>3. At[r] \in Worker /\ g \in Globals /\ GlobalTable(g) = Table(op[r])
    BY PoolAssumption, TableOfGlobal DEF TypeInv, TypeOK
  <2>4. /\ yes = "yes" => WasThere(GlobalTable(g))
        /\ yes = "no" => WasMissing(GlobalTable(g))
    BY <1>2, <2>3
  <2>5. past' = past
    BY <1>1 DEF env
  <2> HIDE DEF yes, g
  <2>6. ASSUME NEW w \in Worker, NEW h \in Globals
        PROVE  /\ known'[w][h] = "yes" => WasThere(GlobalTable(h))
               /\ known'[w][h] = "no" => WasMissing(GlobalTable(h))
    <3>1. known'[w][h] = IF w = At[r] /\ h = g THEN yes ELSE known[w][h]
      BY <2>1, <2>2, <2>3
    <3> QED BY <2>4, <3>1 DEF TablesInv, MemoryAgrees
  <2> QED BY <2>5, <2>6 DEF MemoryAgrees, WasThere, WasMissing
<1>4. CASE found[r] /\ Stays(r, "rows")
  BY <1>1, <1>2, <1>3, <1>4, StayAgrees
<1>5. CASE ~found[r] /\ Without(r)
  BY <1>1, <1>2, <1>3, <1>5, WithoutAgrees
<1> QED BY <1>4, <1>5 DEF Learn, Stays

(* A step of r touches nothing of the others.                              *)
LEMMA OthersKept ==
    ASSUME TypeInv, TablesInv, NEW r \in Request, Statement(r) \/ Node(r)
    PROVE  Others(r)
<1>1. /\ \A q \in Request \ {r} : pc'[q] = pc[q] /\ asked'[q] = asked[q]
                                   /\ answer'[q] = answer[q]
  <2>1. CASE Exists(r)
    BY <2>1 DEF Exists, Goto, TypeInv, TypeOK
  <2>2. CASE Start(r) \/ Learn(r) \/ Rows(r) \/ Node(r)
    <3>1. Move(r)
      BY <2>2, RowsMoves, NodeMoves, WithoutMoves DEF Start, Learn, Move, Stays
    <3>2. CASE Ends(r)
      BY <3>2 DEF Ends, Reply, Goto, TypeInv, TypeOK
    <3>3. CASE Asked(r)
      BY <3>3 DEF Asked, AskedOfNode, Goto, TypeInv, TypeOK
    <3>4. CASE \E p \in {"rows", "exists"} : Stays(r, p)
      BY <3>4 DEF Stays, Goto, TypeInv, TypeOK
    <3> QED BY <3>1, <3>2, <3>3, <3>4 DEF Move
  <2> QED BY <2>1, <2>2 DEF Statement
<1>2. \A q \in Request \ {r} : found'[q] = found[q]
  <2>1. PICK v : found' = found \/ found' = [found EXCEPT ![r] = v]
    BY DEF Statement, Start, Exists, Learn, Rows, Node
  <2> QED BY <2>1 DEF TypeInv, TypeOK
<1>3. \A q \in Request \ {r} : seen'[q] = seen[q]
  BY DEF Statement, Start, Exists, Learn, Rows, Node, TablesInv
<1> QED BY <1>1, <1>2, <1>3 DEF Others

LEMMA NextTables == TypeInv /\ TypeInv' /\ TablesInv /\ [Next]_vars => TablesInv'
<1> SUFFICES ASSUME TypeInv, TypeInv', TablesInv, [Next]_vars PROVE TablesInv'
  OBVIOUS
<1>1. CASE Environment
  BY <1>1, EnvironmentAgrees
<1>2. ASSUME NEW r \in Request, Statement(r) \/ Node(r) PROVE TablesInv'
  <2>1. UNCHANGED <<env, op, addrs>>
    BY <1>2 DEF Statement, Start, Exists, Learn, Rows, Node
  <2>2. Agrees(r)'
    BY <1>2, StartAgrees, ExistsAgrees, LearnAgrees, RowsAgrees, NodeAgrees DEF Statement
  <2>3. seen' \in [Request -> [Address -> SUBSET View]]
    BY <1>2, StartAgrees DEF Statement, Exists, Learn, Rows, Node, TablesInv
  <2>4. MemoryAgrees'
    <3>1. CASE Learn(r)
      BY <3>1, LearnAgrees
    <3>2. CASE Start(r) \/ Exists(r) \/ Rows(r) \/ Node(r)
      BY <3>2 DEF Start, Exists, Rows, Node, env, TablesInv, MemoryAgrees, WasThere,
                  WasMissing
    <3> QED BY <1>2, <3>1, <3>2 DEF Statement
  <2>5. Others(r)
    BY <1>2, OthersKept
  <2> QED BY <2>1, <2>2, <2>3, <2>4, <2>5, StepAgrees
<1>3. CASE UNCHANGED vars
  BY <1>3 DEF vars, TablesInv, MemoryAgrees, Agrees, Running, Now, RowOf, WasThere,
              WasMissing, QuestionAgrees, Truthful
<1> QED BY <1>1, <1>2, <1>3 DEF Next, Done
-----------------------------------------------------------------------------
(* No worker takes more connections than its pool has, and a request keeps *)
(* one only between its statements (TypeOK).                               *)
THEOREM TypeCorrect == Spec => []TypeOK
<1>1. TypeInv => TypeOK
  BY DEF TypeInv
<1> QED BY <1>1, InitTypes, NextTypes, PTL DEF Spec

LEMMA Invariance == Spec => [](TypeInv /\ TablesInv)
BY InitTypes, NextTypes, InitTables, NextTables, PTL DEF Spec

(* The limit on UTXOs is kept by every worker whenever the table is there, *)
(* for any number of requests that find out at once (LimitHolds).          *)
THEOREM LimitAlwaysHolds == Spec => []LimitHolds
<1>1. TypeInv /\ TablesInv => LimitHolds
  BY DEF TablesInv, Agrees, QuestionAgrees, WasMissing, LimitHolds
<1> QED BY <1>1, Invariance, PTL

(* Whatever is left out of the UTXOs was over the limit, and every number  *)
(* told was the table's or the node's (AnswersWereTrue).                   *)
THEOREM AnswersAreTrue == Spec => []AnswersWereTrue
<1>1. TypeInv /\ TablesInv => AnswersWereTrue
  BY DEF TablesInv, Agrees, Truthful, AnswersWereTrue, OmittedWereOver, CountWasTrue
<1> QED BY <1>1, Invariance, PTL

(* A request that fails has met a helper table that came or went while the *)
(* worker ran (FailsOnlyIfDropped).                                        *)
THEOREM FailuresExplained == Spec => []FailsOnlyIfDropped
<1>1. TypeInv /\ TablesInv => FailsOnlyIfDropped
  BY DEF TablesInv, Agrees, Truthful, FailsOnlyIfDropped
<1> QED BY <1>1, Invariance, PTL
=============================================================================
