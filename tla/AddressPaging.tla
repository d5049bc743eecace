--------------------------- MODULE AddressPaging ---------------------------
(***************************************************************************)
(* A client walks through the transactions of an address with              *)
(* GET /addresses/{address}/full-transactions-page, following the headers  *)
(* X-Next-Page-Before (or -After) as long as they are present, while the   *)
(* indexer adds rows and the chain reorganises.  Every statement of the    *)
(* handler sees the rows committed when it runs.                           *)
(***************************************************************************)
EXTENDS Naturals, FiniteSets

CONSTANTS Tx,       \* the transactions of the address
          Time,     \* Time[x]: block time of x
          Limit,    \* the query parameter limit
          IdLimit,  \* TX_SEARCH_ID_LIMIT
          Genesis,  \* GENESIS_MS
          Horizon,  \* now + 1 hour
          Modes,    \* the values of acceptance that clients use
          Fields,   \* the values of fields: "all", or without block_time
          Cursors   \* the cursors a walk can start from, 0 for none

\* Nodes reject a block whose time is minutes ahead of theirs.
ASSUME TimeAssumption ==
    Time \in [Tx -> Nat] /\ \A x \in Tx : Genesis < Time[x] /\ Time[x] <= Horizon
ASSUME LimitAssumption == Limit \in Nat \ {0} /\ IdLimit \in Nat
ASSUME ConstAssumption == Genesis \in Nat /\ Horizon \in Nat
ASSUME ChoiceAssumption ==
    /\ Modes \subseteq {"any", "accepted", "rejected"}
    /\ Fields \subseteq {"all", "no_block_time"}
    /\ Cursors \subseteq Nat

VARIABLES
    mapped,   \* rows of the address mapping table
    stored,   \* rows of the transactions table
    accepted, \* rows of the acceptance table
    dir,      \* the header the client follows: "before" or "after"
    mode, fields,
    cursor,   \* value of the query parameter before or after, 0 if absent
    pc,
    ids,      \* tx_ids of the handler
    full,     \* len(tx_ids_and_block_times) == limit
    newest, oldest,
    newer, older,  \* has_newer, has_older
    res,      \* body of the last page
    got,      \* history: what the client received on earlier pages
    due       \* history: rows that matched, and stayed, since the walk began

tables == <<mapped, stored, accepted>>
choice == <<dir, mode, fields>>
page == <<ids, full, newest, oldest, newer, older, res>>
vars == <<tables, choice, cursor, pc, page, got, due>>

PC == {"start", "query", "ties", "newer", "older", "search", "answered",
       "finished", "failed"}

Times(S) == {Time[x] : x \in S}
Latest(S) == CHOOSE n \in Times(S) : \A m \in Times(S) : m <= n
Earliest(S) == CHOOSE n \in Times(S) : \A m \in Times(S) : n <= m

\* TransactionAcceptance as the request's acceptance parameter sees it.
Matching == {x \in Tx : /\ mode = "accepted" => x \in accepted
                        /\ mode = "rejected" => x \notin accepted}

\* The cursor itself is included (mutant).
InWindowInclusive(x) ==
    \/ cursor = 0
    \/ dir = "before" /\ Time[x] <= cursor
    \/ dir = "after" /\ Time[x] >= cursor

\* The cursor as a filter, strict on either side.
InWindow(x) == \/ cursor = 0
               \/ (dir = "before" /\ Time[x] < cursor)
               \/ (dir = "after" /\ Time[x] > cursor)

\* x comes before y in the order of the query: descending with no cursor.
Precedes(x, y) == IF dir = "after" /\ cursor # 0
                  THEN Time[x] < Time[y] ELSE Time[x] > Time[y]

\* What a query over the rows C may return: no more than Limit rows, ties at
\* the end cut anywhere.
Limited(C) ==
    {P \in SUBSET C : /\ Cardinality(P) = Limit \/ (P = C /\ Cardinality(P) < Limit)
                      /\ \A x \in P, y \in C \ P : ~Precedes(y, x)}
-----------------------------------------------------------------------------
Init ==
    /\ mapped \in SUBSET Tx /\ stored \in SUBSET Tx /\ accepted \in SUBSET stored
    /\ dir \in {"before", "after"} /\ mode \in Modes /\ fields \in Fields
    /\ cursor \in Cursors /\ (dir = "after" => cursor # 0)
    /\ pc = "start"
    /\ ids = {} /\ full = FALSE /\ newest = 0 /\ oldest = 0
    /\ newer = FALSE /\ older = FALSE /\ res = {}
    /\ got = {} /\ due = {}

\* What is still there, and still matches, remains due.
StillDue == due' = {x \in due : mode # "any" => (x \in accepted') = (x \in accepted)}

(* The indexer's threads: rows appear in any order; a reorganisation takes *)
(* acceptances away.                                                       *)
AddMapping ==
    /\ \E x \in Tx \ mapped : mapped' = mapped \cup {x}
    /\ UNCHANGED <<stored, accepted, choice, cursor, pc, page, got, due>>

AddTransaction ==
    /\ \E x \in Tx \ stored : stored' = stored \cup {x}
    /\ UNCHANGED <<mapped, accepted, choice, cursor, pc, page, got, due>>

ChangeAcceptance ==
    /\ \/ \E x \in Tx \ accepted : accepted' = accepted \cup {x}
       \/ \E x \in accepted : accepted' = accepted \ {x}
    /\ StillDue
    /\ UNCHANGED <<mapped, stored, choice, cursor, pc, page, got>>

\* The walk begins: what it must return is what is there now.
Begin ==
    /\ pc = "start"
    /\ pc' = "query"
    /\ due' = {x \in mapped \cap stored \cap Matching : InWindow(x)}
    /\ UNCHANGED <<tables, choice, cursor, page, got>>

(* The handler, statement by statement.                                    *)
Empty == /\ pc' = "answered"
         /\ res' = {}
         /\ newer' = FALSE /\ older' = FALSE
         /\ UNCHANGED <<ids, full, newest, oldest>>

Query ==
    /\ pc = "query"
    /\ LET rows == {x \in mapped : InWindow(x) /\ (mode = "accepted" => x \in accepted)}
           outside == \/ (dir = "before" /\ cursor # 0 /\ cursor <= Genesis)
                      \/ (dir = "after" /\ cursor > Horizon)
       IN
       \/ /\ outside \/ rows = {}
          /\ Empty
       \/ /\ ~outside /\ rows # {}
          /\ \E P \in Limited(rows) :
                /\ ids' = P
                /\ full' = (Cardinality(P) = Limit)
                /\ newest' = Latest(P)
                /\ oldest' = Earliest(P)
          /\ pc' = "ties"
          /\ UNCHANGED <<newer, older, res>>
    /\ UNCHANGED <<tables, choice, cursor, got, due>>

\* The page is not completed with the rows of its border times (mutant).
NoTies ==
    /\ pc = "ties"
    /\ pc' = "newer"
    /\ UNCHANGED <<tables, choice, cursor, ids, full, newest, oldest, newer, older,
                   res, got, due>>

Ties ==
    /\ pc = "ties"
    /\ ids' = IF full
              THEN ids \cup {x \in mapped : Time[x] \in {newest, oldest}}
              ELSE ids
    /\ pc' = "newer"
    /\ UNCHANGED <<tables, choice, cursor, full, newest, oldest, newer, older,
                   res, got, due>>

HasNewer ==
    /\ pc = "newer"
    /\ newer' = (cursor # 0 /\ \E x \in mapped : Time[x] > newest)
    /\ pc' = "older"
    /\ UNCHANGED <<tables, choice, cursor, ids, full, newest, oldest, older,
                   res, got, due>>

HasOlder ==
    /\ pc = "older"
    /\ older' = /\ dir = "after" => cursor >= Genesis
                /\ \E x \in mapped : Time[x] < oldest
    /\ pc' = "search"
    /\ UNCHANGED <<tables, choice, cursor, ids, full, newest, oldest, newer,
                   res, got, due>>

\* search_for_transactions in a session of its own, then the cache control:
\* with after, a full page takes the max of the block times of the body, and
\* max fails on no value, and on several None.
Search ==
    /\ pc = "search"
    /\ LET found == ids \cap stored \cap Matching
           takesMax == dir = "after" /\ cursor # 0 /\ Cardinality(ids) >= Limit
           noMax == \/ found = {}
                    \/ (fields = "no_block_time" /\ Cardinality(found) > 1)
       IN
       \/ /\ Cardinality(ids) > IdLimit \/ (takesMax /\ noMax)
          /\ pc' = "failed"
          /\ UNCHANGED res
       \/ /\ Cardinality(ids) <= IdLimit /\ ~(takesMax /\ noMax)
          /\ pc' = "answered"
          /\ res' = found
    /\ UNCHANGED <<tables, choice, cursor, ids, full, newest, oldest, newer, older,
                   got, due>>

(* The client, as the description of limit tells it to.                    *)
FollowHeader ==
    /\ pc = "answered"
    /\ IF dir = "before" THEN older ELSE newer
    /\ cursor' = IF dir = "before" THEN oldest ELSE newest
    /\ got' = got \cup res
    /\ pc' = "query"
    /\ ids' = {} /\ full' = FALSE /\ newest' = 0 /\ oldest' = 0
    /\ newer' = FALSE /\ older' = FALSE /\ res' = {}
    /\ UNCHANGED <<tables, choice, due>>

NoHeader ==
    /\ pc = "answered"
    /\ ~(IF dir = "before" THEN older ELSE newer)
    /\ pc' = "finished"
    /\ got' = got \cup res
    /\ UNCHANGED <<tables, choice, cursor, page, due>>

Indexer == AddMapping \/ AddTransaction \/ ChangeAcceptance
Handler == Query \/ Ties \/ HasNewer \/ HasOlder \/ Search
Client == Begin \/ FollowHeader \/ NoHeader

Next == Indexer \/ Handler \/ Client

Spec == Init /\ [][Next]_vars

(* The handler's statements return, and the client goes on.                *)
FairSpec == Spec /\ WF_vars(Handler \/ Client)
-----------------------------------------------------------------------------
(* Every variable has its type, and the page lies between its oldest and   *)
(* its newest block time.                                                  *)
TypeOK ==
    /\ mapped \subseteq Tx /\ stored \subseteq Tx /\ accepted \subseteq Tx
    /\ dir \in {"before", "after"} /\ mode \in Modes /\ fields \in Fields
    /\ cursor \in Nat
    /\ pc \in PC
    /\ ids \subseteq Tx /\ full \in BOOLEAN
    /\ newest \in Nat /\ oldest \in Nat
    /\ newer \in BOOLEAN /\ older \in BOOLEAN
    /\ res \subseteq Tx /\ got \subseteq Tx /\ due \subseteq Tx
    /\ pc \in {"ties", "newer", "older", "search"} =>
          ids # {} /\ \A x \in ids : oldest <= Time[x] /\ Time[x] <= newest

(* A walk that ends has returned every transaction that was there, and     *)
(* matched, from its beginning to its end (get_address_transactions.py:213 *)
(* "To avoid gaps").                                                       *)
NoGaps == pc = "finished" => due \subseteq got

(* No transaction is on two pages of a walk.                               *)
NoRepeats == pc \in {"search", "answered"} => (ids \cup res) \cap got = {}

(* A walk returns everything that was due, and nothing twice.              *)
WalkIsExact == NoGaps /\ NoRepeats

(* A page holds every transaction between its newest and its oldest that   *)
(* was there throughout, so that the header for the other direction leaves *)
(* no gap either (get_address_transactions.py:212-235, 280-283).           *)
PageIsContiguous ==
    pc = "answered" /\ ids # {} =>
        \A x \in due : oldest <= Time[x] /\ Time[x] <= newest => x \in res

(* The cursor moves strictly in the direction of the walk, so that no page *)
(* is requested twice.                                                     *)
CursorProgress ==
    [][cursor' # cursor =>
         IF dir = "before" THEN cursor = 0 \/ cursor' < cursor
                           ELSE cursor' > cursor]_vars

(* get_address_transactions.py:130, "Use value of X-Next-Page-Before/-After *)
(* as long as header is present to continue paging."  The request for the  *)
(* next page is answered.                                                  *)
PagingNeverFails == pc # "failed"

(* A walk over finitely many transactions comes to its end, in whatever    *)
(* order they arrive.                                                      *)
WalkEnds == <>(pc \in {"finished", "failed"})
=============================================================================
