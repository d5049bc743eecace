------------------------ MODULE AddressPagingProofs ------------------------
(***************************************************************************)
(* Theorems about AddressPaging for any set of transactions, any block     *)
(* times within the stated range, any limit and any walk: nothing is       *)
(* missed, nothing is returned twice, the cursor only moves forward.       *)
(***************************************************************************)
EXTENDS AddressPaging, FiniteSetTheorems, WellFoundedInduction, TLAPS

AllAssumptions == /\ Time \in [Tx -> Nat]
                  /\ \A x \in Tx : Genesis < Time[x] /\ Time[x] <= Horizon
                  /\ Limit \in Nat \ {0} /\ IdLimit \in Nat
                  /\ Genesis \in Nat /\ Horizon \in Nat
                  /\ Cursors \subseteq Nat

LEMMA Assumptions == AllAssumptions
BY TimeAssumption, LimitAssumption, ConstAssumption, ChoiceAssumption DEF AllAssumptions

(* Every non-empty set of natural numbers has a least element: block times.  *)
LEMMA LeastNatural ==
    ASSUME NEW S \in SUBSET Nat, S # {}
    PROVE  \E m \in S : \A j \in S : m <= j
<1> DEFINE R == OpToRel(<, Nat)
<1>1. \A x, y \in Nat : ~ (<<y, x>> \in R) => x <= y
  BY DEF OpToRel
<1> HIDE DEF R
<1>2. \E m \in S : \A j \in S : ~ (<<j, m>> \in R)
  BY NatLessThanWellFounded, WFMin DEF R
<1> QED BY <1>1, <1>2

(* The two ends of a set of rows exist (get_address_transactions.py:208-   *)
(* 210 takes the first and the last of a sorted list that is not empty).   *)
LEMMA EarliestIsFirst ==
    ASSUME NEW S \in SUBSET Tx, S # {}
    PROVE  Earliest(S) \in Times(S) /\ \A x \in S : Earliest(S) <= Time[x]
<1>1. Times(S) \in SUBSET Nat /\ Times(S) # {}
  BY Assumptions DEF Times, AllAssumptions
<1>2. \E n \in Times(S) : \A m \in Times(S) : n <= m
  BY <1>1, LeastNatural
<1>3. Earliest(S) \in Times(S) /\ \A m \in Times(S) : Earliest(S) <= m
  BY <1>2 DEF Earliest
<1> QED BY <1>3 DEF Times

LEMMA LatestIsLast ==
    ASSUME NEW S \in SUBSET Tx, S # {}
    PROVE  Latest(S) \in Times(S) /\ \A x \in S : Time[x] <= Latest(S)
<1> DEFINE Left == {Horizon - Time[x] : x \in S}
<1>1. \A x \in Tx : Time[x] \in Nat /\ Time[x] <= Horizon /\ Horizon \in Nat
  BY Assumptions DEF AllAssumptions
<1>2. Left \in SUBSET Nat /\ Left # {}
  BY <1>1
<1>3. PICK m \in Left : \A j \in Left : m <= j
  BY <1>2, LeastNatural
<1>4. PICK x \in S : m = Horizon - Time[x]
  BY <1>3
<1>5. \A y \in S : Time[y] <= Time[x]
  <2> TAKE y \in S
  <2>1. Horizon - Time[y] \in Left
    OBVIOUS
  <2>2. Horizon - Time[x] <= Horizon - Time[y]
    BY <2>1, <1>3, <1>4
  <2> QED BY <2>2, <1>1
<1>6. \E n \in Times(S) : \A k \in Times(S) : k <= n
  BY <1>5 DEF Times
<1>7. Latest(S) \in Times(S) /\ \A k \in Times(S) : k <= Latest(S)
  BY <1>6 DEF Latest
<1> QED BY <1>7 DEF Times

(* What LIMIT leaves of rows that are not empty is not empty.              *)
LEMMA LimitedNotEmpty ==
    ASSUME NEW C, C # {}, NEW P \in Limited(C)
    PROVE  P # {} /\ P \subseteq C
<1>1. Cardinality(P) = Limit \/ P = C
  BY DEF Limited
<1>2. Cardinality(P) = Limit => P # {}
  BY FS_EmptySet, Assumptions DEF AllAssumptions
<1> QED BY <1>1, <1>2 DEF Limited
-----------------------------------------------------------------------------
(* The inductive invariant.  InPage: a page is being built.                *)
InPage == \/ pc \in {"ties", "newer", "older", "search"}
          \/ pc = "answered" /\ ids # {}

\* The border times are those of rows of the page, and the page lies within
\* the window of the cursor.
PageInv ==
    InPage =>
        /\ ids # {}
        /\ oldest \in Times(ids) /\ newest \in Times(ids)
        /\ \A x \in ids : InWindow(x) /\ oldest <= Time[x] /\ Time[x] <= newest

\* Between pages, and before the first one, nothing is left of a page.
RestInv ==
    /\ pc \in {"start", "query"} => ids = {}
    /\ pc = "start" => due = {} /\ got = {}
    /\ dir = "after" => cursor # 0
    /\ IF pc \in {"answered", "finished"} THEN res \subseteq ids ELSE res = {}
    /\ pc = "answered" /\ ids = {} => ~newer /\ ~older

\* What was returned lies outside of the window of the cursor.
GotInv == pc # "finished" => \A x \in got : ~InWindow(x)

\* What is due is there and matches.
DueInv == due \subseteq mapped \cap stored \cap Matching

Beyond(x) == IF dir = "after" THEN Time[x] > newest ELSE Time[x] < oldest
Header == IF dir = "before" THEN older ELSE newer

\* Where a row that is due is to be found: returned, on this page, or beyond
\* it, and then the header for the next page is, or will be, set.
CoverInv ==
    \A x \in due :
        /\ pc = "query" => x \in got \/ InWindow(x)
        /\ pc = "ties" => \/ x \in got \cup ids \/ Beyond(x)
                          \/ full /\ Time[x] \in {newest, oldest}
        /\ pc = "newer" => x \in got \cup ids \/ Beyond(x)
        /\ pc = "older" => \/ x \in got \cup ids
                           \/ Beyond(x) /\ (dir = "after" => newer)
        /\ pc = "search" => x \in got \cup ids \/ (Beyond(x) /\ Header)
        /\ pc = "answered" => x \in got \cup res \/ (Beyond(x) /\ Header)
        /\ pc = "finished" => x \in got

WalkInv == TypeOK /\ PageInv /\ RestInv /\ GotInv /\ DueInv /\ CoverInv

LEMMA Initially == Init => WalkInv
<1> SUFFICES ASSUME Init PROVE WalkInv
  OBVIOUS
<1>1. TypeOK
  BY Assumptions DEF Init, TypeOK, PC, AllAssumptions
<1>2. PageInv /\ RestInv /\ GotInv /\ DueInv /\ CoverInv
  BY DEF Init, PageInv, InPage, RestInv, GotInv, DueInv, CoverInv
<1> QED BY <1>1, <1>2 DEF WalkInv

(* The indexer only adds rows, and takes out of due what stops matching.   *)
LEMMA IndexerStep == WalkInv /\ Indexer => WalkInv'
<1> SUFFICES ASSUME WalkInv, Indexer PROVE WalkInv'
  OBVIOUS
<1> USE DEF WalkInv
<1>1. /\ UNCHANGED <<choice, cursor, pc, page, got>>
      /\ mapped \subseteq mapped' /\ stored \subseteq stored'
      /\ mapped' \subseteq Tx /\ stored' \subseteq Tx /\ accepted' \subseteq Tx
      /\ due' \subseteq due
  BY DEF Indexer, AddMapping, AddTransaction, ChangeAcceptance, StillDue, TypeOK
<1>2. \A x \in due' : x \in Matching'
  <2>1. CASE UNCHANGED <<accepted, mode, due>>
    BY <2>1 DEF DueInv, Matching
  <2>2. CASE ChangeAcceptance
    BY <2>2 DEF ChangeAcceptance, StillDue, DueInv, Matching, choice, TypeOK
  <2> QED BY <2>1, <2>2 DEF Indexer, AddMapping, AddTransaction, choice
<1>3. TypeOK'
  BY <1>1 DEF TypeOK, choice, page
<1>4. PageInv'
  BY <1>1 DEF PageInv, InPage, InWindow, Times, choice, page
<1>5. RestInv'
  BY <1>1 DEF RestInv, choice, page
<1>6. GotInv'
  BY <1>1 DEF GotInv, InWindow, choice, page
<1>7. DueInv'
  BY <1>1, <1>2 DEF DueInv
<1>8. CoverInv'
  BY <1>1 DEF CoverInv, Beyond, Header, InWindow, choice, page
<1> QED BY <1>3, <1>4, <1>5, <1>6, <1>7, <1>8

(* The first statement: the page is the part of the window next to the     *)
(* cursor, as far as LIMIT reaches.                                        *)
LEMMA QueryStep == WalkInv /\ Query => WalkInv'
<1> SUFFICES ASSUME WalkInv, Query PROVE WalkInv'
  OBVIOUS
<1> USE DEF WalkInv
<1> DEFINE rows == {x \in mapped : InWindow(x) /\ (mode = "accepted" => x \in accepted)}
           outside == \/ dir = "before" /\ cursor # 0 /\ cursor <= Genesis
                      \/ dir = "after" /\ cursor > Horizon
<1>1. /\ pc = "query" /\ ids = {}
      /\ UNCHANGED <<tables, choice, cursor, got, due>>
  BY DEF Query, RestInv
<1>2. \A x \in Tx : Time[x] \in Nat /\ Genesis < Time[x] /\ Time[x] <= Horizon
  BY Assumptions DEF AllAssumptions
<1>3. cursor \in Nat /\ Genesis \in Nat /\ Horizon \in Nat /\ due \subseteq Tx
      /\ mapped \subseteq Tx /\ dir \in {"before", "after"}
  BY Assumptions DEF AllAssumptions, TypeOK
<1>4. \A x \in due : x \in got \/ x \in rows
  BY <1>1 DEF CoverInv, DueInv, Matching
<1>5. GotInv'
  BY <1>1 DEF GotInv, InWindow, choice
<1>6. DueInv'
  BY <1>1 DEF DueInv, Matching, tables, choice
<1>7. CASE (outside \/ rows = {}) /\ Empty
  <2>1. \A x \in due : x \in got
    BY <1>2, <1>3, <1>4, <1>7 DEF InWindow
  <2>2. /\ pc' = "answered" /\ res' = {} /\ ids' = {}
        /\ newer' = FALSE /\ older' = FALSE
        /\ UNCHANGED <<full, newest, oldest>>
    BY <1>1, <1>7 DEF Empty
  <2>3. TypeOK'
    BY <1>1, <2>2 DEF TypeOK, PC, tables, choice
  <2>4. PageInv'
    BY <2>2 DEF PageInv, InPage
  <2>5. RestInv'
    BY <1>1, <2>2 DEF RestInv, choice
  <2>6. CoverInv'
    BY <1>1, <2>1, <2>2 DEF CoverInv
  <2> QED BY <1>5, <1>6, <2>3, <2>4, <2>5, <2>6
<1>8. CASE /\ ~outside /\ rows # {}
           /\ \E P \in Limited(rows) :
                 /\ ids' = P
                 /\ full' = (Cardinality(P) = Limit)
                 /\ newest' = Latest(P)
                 /\ oldest' = Earliest(P)
           /\ pc' = "ties"
           /\ UNCHANGED <<newer, older, res>>
  <2>1. PICK P \in Limited(rows) : /\ ids' = P
                                   /\ full' = (Cardinality(P) = Limit)
                                   /\ newest' = Latest(P)
                                   /\ oldest' = Earliest(P)
    BY <1>8
  <2>2. P # {} /\ P \subseteq rows /\ P \subseteq Tx
    BY <1>8, <1>3, LimitedNotEmpty
  <2>3. /\ newest' \in Times(P) /\ oldest' \in Times(P)
        /\ \A x \in P : oldest' <= Time[x] /\ Time[x] <= newest'
    BY <2>1, <2>2, EarliestIsFirst, LatestIsLast
  <2>4. newest' \in Nat /\ oldest' \in Nat
    BY <2>2, <2>3, <1>2 DEF Times
  <2>5. pc' = "ties" /\ UNCHANGED <<newer, older, res>>
    BY <1>8
  <2>6. TypeOK'
    <3>1. full' \in BOOLEAN
      BY <2>1
    <3>2. ids' # {} /\ \A x \in ids' : oldest' <= Time[x] /\ Time[x] <= newest'
      BY <2>1, <2>2, <2>3
    <3> QED BY <1>1, <2>1, <2>2, <2>4, <2>5, <3>1, <3>2
            DEF TypeOK, PC, tables, choice
  <2>7. PageInv'
    <3>1. \A x \in P : InWindow(x)'
      BY <1>1, <2>2 DEF InWindow, choice
    <3> QED BY <2>1, <2>2, <2>3, <3>1 DEF PageInv, Times
  <2>8. RestInv'
    BY <1>1, <2>5 DEF RestInv, choice
  <2>9. CoverInv'
    <3>1. ASSUME NEW x \in due, x \notin got, x \notin P
          PROVE  Beyond(x)' \/ (full' /\ Time[x] \in {newest', oldest'})
      <4>1. x \in rows \ P
        BY <3>1, <1>4
      <4>2. full' /\ \A y \in P : ~Precedes(x, y)
        BY <2>1, <4>1 DEF Limited
      <4>3. PICK y \in P, z \in P : newest' = Time[y] /\ oldest' = Time[z]
        BY <2>3 DEF Times
      <4>4. /\ Time[x] \in Nat /\ Time[y] \in Nat /\ Time[z] \in Nat
        BY <4>1, <4>3, <1>2, <1>3, <2>2
      <4>5. CASE dir = "after"
        <5>1. ~(Time[x] < Time[y])
          BY <4>2, <4>5 DEF Precedes, RestInv
        <5> QED BY <5>1, <4>2, <4>3, <4>4, <4>5, <1>1 DEF Beyond, choice
      <4>6. CASE dir # "after"
        <5>1. ~(Time[x] > Time[z])
          BY <4>2, <4>6 DEF Precedes
        <5> QED BY <5>1, <4>2, <4>3, <4>4, <4>6, <1>1 DEF Beyond, choice
      <4> QED BY <4>5, <4>6
    <3> QED BY <1>1, <2>1, <2>5, <3>1 DEF CoverInv
  <2> QED BY <1>5, <1>6, <2>6, <2>7, <2>8, <2>9
<1> QED BY <1>7, <1>8 DEF Query

(* Completing the border times: nothing of a border is left behind.        *)
LEMMA TiesStep == WalkInv /\ Ties => WalkInv'
<1> SUFFICES ASSUME WalkInv, Ties PROVE WalkInv'
  OBVIOUS
<1> USE DEF WalkInv
<1>1. /\ pc = "ties" /\ pc' = "newer"
      /\ UNCHANGED <<tables, choice, cursor, full, newest, oldest, newer, older,
                     res, got, due>>
      /\ ids' = IF full
                THEN ids \cup {x \in mapped : Time[x] \in {newest, oldest}}
                ELSE ids
  BY DEF Ties
<1>2. /\ ids # {} /\ oldest \in Times(ids) /\ newest \in Times(ids)
      /\ \A x \in ids : InWindow(x) /\ oldest <= Time[x] /\ Time[x] <= newest
  BY <1>1 DEF PageInv, InPage
<1>3. /\ ids \subseteq ids' /\ ids' \subseteq Tx
      /\ \A x \in ids' : x \in ids \/ Time[x] \in {newest, oldest}
      /\ \A x \in due : full /\ Time[x] \in {newest, oldest} => x \in ids'
  BY <1>1 DEF TypeOK, DueInv
<1>4. PICK y \in ids, z \in ids : newest = Time[y] /\ oldest = Time[z]
  BY <1>2 DEF Times
<1>5. Time[y] \in Nat /\ Time[z] \in Nat /\ Time[z] <= Time[y]
  BY <1>2, <1>4, Assumptions DEF AllAssumptions, TypeOK
<1>6. \A x \in ids' : InWindow(x) /\ oldest <= Time[x] /\ Time[x] <= newest
  BY <1>2, <1>3, <1>4, <1>5 DEF InWindow
<1>7. TypeOK'
  BY <1>1, <1>2, <1>3, <1>6 DEF TypeOK, PC, tables, choice
<1>8. PageInv'
  BY <1>1, <1>2, <1>3, <1>6 DEF PageInv, InPage, InWindow, Times, choice
<1>9. RestInv'
  BY <1>1 DEF RestInv, choice
<1>10. GotInv'
  BY <1>1 DEF GotInv, InWindow, choice
<1>11. DueInv'
  BY <1>1 DEF DueInv, Matching, tables, choice
<1>12. CoverInv'
  BY <1>1, <1>3 DEF CoverInv, Beyond, choice
<1> QED BY <1>7, <1>8, <1>9, <1>10, <1>11, <1>12

(* The two tests: a row that is due and lies beyond the page is in the     *)
(* mapping, so that the header is set.                                     *)
LEMMA HeaderStep == WalkInv /\ (HasNewer \/ HasOlder) => WalkInv'
<1> SUFFICES ASSUME WalkInv, HasNewer \/ HasOlder PROVE WalkInv'
  OBVIOUS
<1> USE DEF WalkInv
<1>1. /\ UNCHANGED <<tables, choice, cursor, ids, full, newest, oldest, res, got, due>>
      /\ \/ pc = "newer" /\ pc' = "older" /\ UNCHANGED older /\ newer' \in BOOLEAN
         \/ pc = "older" /\ pc' = "search" /\ UNCHANGED newer /\ older' \in BOOLEAN
  BY DEF HasNewer, HasOlder
<1>2. TypeOK'
  BY <1>1 DEF TypeOK, PC, tables, choice
<1>3. PageInv'
  BY <1>1 DEF PageInv, InPage, InWindow, choice
<1>4. RestInv'
  BY <1>1 DEF RestInv, choice
<1>5. GotInv'
  BY <1>1 DEF GotInv, InWindow, choice
<1>6. DueInv'
  BY <1>1 DEF DueInv, Matching, tables, choice
<1>7. CoverInv'
  <2>1. CASE HasNewer
    <3>1. \A x \in due : dir = "after" /\ Beyond(x) => newer'
      BY <2>1 DEF HasNewer, Beyond, DueInv, RestInv
    <3> QED BY <1>1, <2>1, <3>1 DEF HasNewer, CoverInv, Beyond, choice
  <2>2. CASE HasOlder
    <3>1. \A x \in due : dir # "after" /\ Beyond(x) => older'
      BY <2>2 DEF HasOlder, Beyond, DueInv
    <3> QED BY <1>1, <2>2, <3>1 DEF HasOlder, CoverInv, Beyond, Header, choice, TypeOK
  <2> QED BY <2>1, <2>2
<1> QED BY <1>2, <1>3, <1>4, <1>5, <1>6, <1>7

LEMMA SearchStep == WalkInv /\ Search => WalkInv'
<1> SUFFICES ASSUME WalkInv, Search PROVE WalkInv'
  OBVIOUS
<1> USE DEF WalkInv
<1>1. /\ pc = "search"
      /\ UNCHANGED <<tables, choice, cursor, ids, full, newest, oldest, newer,
                     older, got, due>>
      /\ \/ pc' = "failed" /\ UNCHANGED res
         \/ pc' = "answered" /\ res' = ids \cap stored \cap Matching
  BY DEF Search
<1>2. TypeOK'
  BY <1>1 DEF TypeOK, PC, tables, choice
<1>3. PageInv'
  BY <1>1 DEF PageInv, InPage, InWindow, choice
<1>4. RestInv'
  <2>1. ids # {}
    BY <1>1 DEF PageInv, InPage
  <2> QED BY <1>1, <2>1 DEF RestInv, choice
<1>5. GotInv'
  BY <1>1 DEF GotInv, InWindow, choice
<1>6. DueInv'
  BY <1>1 DEF DueInv, Matching, tables, choice
<1>7. CoverInv'
  BY <1>1 DEF CoverInv, DueInv, Beyond, Header, choice
<1> QED BY <1>2, <1>3, <1>4, <1>5, <1>6, <1>7

LEMMA BeginStep == WalkInv /\ Begin => WalkInv'
<1> SUFFICES ASSUME WalkInv, Begin PROVE WalkInv'
  OBVIOUS
<1> USE DEF WalkInv
<1>1. /\ pc = "start" /\ pc' = "query"
      /\ due' = {x \in mapped \cap stored \cap Matching : InWindow(x)}
      /\ UNCHANGED <<tables, choice, cursor, page, got>>
  BY DEF Begin
<1>2. TypeOK'
  BY <1>1 DEF TypeOK, PC, tables, choice, page
<1>3. PageInv' /\ RestInv'
  BY <1>1 DEF PageInv, InPage, RestInv, choice, page
<1>4. GotInv'
  BY <1>1 DEF GotInv, RestInv
<1>5. DueInv'
  BY <1>1 DEF DueInv, Matching, tables, choice
<1>6. CoverInv'
  BY <1>1 DEF CoverInv, InWindow, choice
<1> QED BY <1>2, <1>3, <1>4, <1>5, <1>6

(* The border of a page that has a header is its rows' own time: the       *)
(* cursor moves to it, strictly forward.                                   *)
LEMMA HeaderMoves ==
    ASSUME WalkInv, FollowHeader
    PROVE  /\ ids # {} /\ res \subseteq ids
           /\ cursor' # 0 /\ cursor' \in Nat
           /\ dir = "before" => cursor = 0 \/ cursor' < cursor
           /\ dir = "after" => cursor' > cursor
           /\ \A x \in ids : IF dir = "before" THEN Time[x] >= cursor'
                                               ELSE Time[x] <= cursor'
<1> USE DEF WalkInv
<1>1. /\ pc = "answered" /\ (IF dir = "before" THEN older ELSE newer)
      /\ cursor' = IF dir = "before" THEN oldest ELSE newest
  BY DEF FollowHeader
<1>2. ids # {} /\ res \subseteq ids
  BY <1>1 DEF RestInv
<1>3. /\ oldest \in Times(ids) /\ newest \in Times(ids)
      /\ \A x \in ids : InWindow(x) /\ oldest <= Time[x] /\ Time[x] <= newest
  BY <1>1, <1>2 DEF PageInv, InPage
<1>4. PICK y \in ids, z \in ids : newest = Time[y] /\ oldest = Time[z]
  BY <1>3 DEF Times
<1>5. /\ \A x \in ids : Time[x] \in Nat
      /\ Time[y] > Genesis /\ Time[z] > Genesis /\ Genesis \in Nat
      /\ cursor \in Nat /\ dir \in {"before", "after"}
      /\ dir = "after" => cursor # 0
  BY Assumptions DEF AllAssumptions, TypeOK, RestInv
<1>6. InWindow(y) /\ InWindow(z)
  BY <1>3
<1>7. CASE dir = "before"
  BY <1>1, <1>2, <1>3, <1>4, <1>5, <1>6, <1>7 DEF InWindow
<1>8. CASE dir = "after"
  BY <1>1, <1>2, <1>3, <1>4, <1>5, <1>6, <1>8 DEF InWindow
<1> QED BY <1>5, <1>7, <1>8

LEMMA FollowHeaderStep == WalkInv /\ FollowHeader => WalkInv'
<1> SUFFICES ASSUME WalkInv, FollowHeader PROVE WalkInv'
  OBVIOUS
<1> USE DEF WalkInv
<1>1. /\ pc = "answered" /\ pc' = "query"
      /\ cursor' = IF dir = "before" THEN oldest ELSE newest
      /\ got' = got \cup res
      /\ ids' = {} /\ full' = FALSE /\ newest' = 0 /\ oldest' = 0
      /\ newer' = FALSE /\ older' = FALSE /\ res' = {}
      /\ UNCHANGED <<tables, choice, due>>
  BY DEF FollowHeader
<1>2. /\ ids # {} /\ res \subseteq ids
      /\ cursor' # 0 /\ cursor' \in Nat
      /\ dir = "before" => cursor = 0 \/ cursor' < cursor
      /\ dir = "after" => cursor' > cursor
      /\ \A x \in ids : IF dir = "before" THEN Time[x] >= cursor'
                                          ELSE Time[x] <= cursor'
  BY HeaderMoves
<1>3. /\ \A x \in Tx : Time[x] \in Nat
      /\ cursor \in Nat /\ dir \in {"before", "after"} /\ ids \subseteq Tx
      /\ got \subseteq Tx /\ due \subseteq Tx
  BY Assumptions DEF AllAssumptions, TypeOK
<1>4. TypeOK'
  BY <1>1, <1>2 DEF TypeOK, PC, tables, choice
<1>5. PageInv'
  BY <1>1 DEF PageInv, InPage
<1>6. RestInv'
  BY <1>1, <1>2 DEF RestInv, choice
<1>7. GotInv'
  <2>1. ASSUME NEW x \in got PROVE ~InWindow(x)'
    <3>1. ~InWindow(x)
      BY <1>1 DEF GotInv
    <3> QED BY <1>1, <1>2, <1>3, <3>1 DEF InWindow, choice
  <2>2. ASSUME NEW x \in res PROVE ~InWindow(x)'
    BY <1>1, <1>2, <1>3 DEF InWindow, choice
  <2> QED BY <1>1, <2>1, <2>2 DEF GotInv
<1>8. DueInv'
  BY <1>1 DEF DueInv, Matching, tables, choice
<1>9. CoverInv'
  <2>1. ASSUME NEW x \in due PROVE x \in got' \/ InWindow(x)'
    <3>1. x \in got \cup res \/ Beyond(x)
      BY <1>1 DEF CoverInv
    <3> QED BY <1>1, <1>2, <1>3, <3>1 DEF Beyond, InWindow, choice
  <2> QED BY <1>1, <2>1 DEF CoverInv
<1> QED BY <1>4, <1>5, <1>6, <1>7, <1>8, <1>9

LEMMA NoHeaderStep == WalkInv /\ NoHeader => WalkInv'
<1> SUFFICES ASSUME WalkInv, NoHeader PROVE WalkInv'
  OBVIOUS
<1> USE DEF WalkInv
<1>1. /\ pc = "answered" /\ pc' = "finished" /\ ~Header
      /\ got' = got \cup res
      /\ UNCHANGED <<tables, choice, cursor, page, due>>
  BY DEF NoHeader, Header
<1>2. TypeOK'
  BY <1>1 DEF TypeOK, PC, tables, choice, page
<1>3. PageInv' /\ RestInv' /\ GotInv'
  BY <1>1 DEF PageInv, InPage, RestInv, GotInv, choice, page
<1>4. DueInv'
  BY <1>1 DEF DueInv, Matching, tables, choice
<1>5. CoverInv'
  BY <1>1 DEF CoverInv
<1> QED BY <1>2, <1>3, <1>4, <1>5

LEMMA StutterStep == WalkInv /\ UNCHANGED vars => WalkInv'
BY DEF WalkInv, vars, tables, choice, page, TypeOK, PageInv, InPage, RestInv, GotInv,
       DueInv, CoverInv, InWindow, Matching, Times, Beyond, Header

LEMMA WalkInvStep == WalkInv /\ [Next]_vars => WalkInv'
BY IndexerStep, QueryStep, TiesStep, HeaderStep, SearchStep, BeginStep,
   FollowHeaderStep, NoHeaderStep, StutterStep DEF Next, Handler, Client

LEMMA WalkInvHolds == Spec => []WalkInv
BY Initially, WalkInvStep, PTL DEF Spec
-----------------------------------------------------------------------------
(* Every variable has its type, and a page lies between its border times.  *)
THEOREM TypeCorrect == Spec => []TypeOK
<1>1. WalkInv => TypeOK
  BY DEF WalkInv
<1> QED BY <1>1, WalkInvHolds, PTL

(* A walk that ends has returned everything that matched throughout (the   *)
(* "To avoid gaps" of get_address_transactions.py:213).                    *)
THEOREM NothingIsMissed == Spec => []NoGaps
<1>1. WalkInv => NoGaps
  BY DEF WalkInv, CoverInv, NoGaps
<1> QED BY <1>1, WalkInvHolds, PTL

(* No transaction is returned on two pages: the pages of a walk lie in     *)
(* disjoint windows (get_address_transactions.py:171-189).                 *)
THEOREM NothingIsRepeated == Spec => []NoRepeats
<1>1. WalkInv => NoRepeats
  BY DEF WalkInv, PageInv, InPage, RestInv, GotInv, NoRepeats
<1> QED BY <1>1, WalkInvHolds, PTL

(* A walk is exact: the two facts above as one.                            *)
THEOREM WalksAreExact == Spec => []WalkIsExact
<1>1. NoGaps /\ NoRepeats => WalkIsExact
  BY DEF WalkIsExact
<1> QED BY <1>1, NothingIsMissed, NothingIsRepeated, PTL

(* A page holds everything due between its border times, so that either    *)
(* header continues it without a gap (get_address_transactions.py:212-235).*)
THEOREM PagesAreContiguous == Spec => []PageIsContiguous
<1>1. ASSUME WalkInv, pc = "answered", ids # {},
             NEW x \in due, oldest <= Time[x], Time[x] <= newest
      PROVE  x \in res
  <2> USE DEF WalkInv
  <2>1. /\ oldest \in Times(ids) /\ newest \in Times(ids)
        /\ \A y \in ids : InWindow(y)
    BY <1>1 DEF PageInv, InPage
  <2>2. PICK y \in ids, z \in ids : newest = Time[y] /\ oldest = Time[z]
    BY <2>1 DEF Times
  <2>3. /\ Time[x] \in Nat /\ Time[y] \in Nat /\ Time[z] \in Nat /\ cursor \in Nat
    BY <1>1, Assumptions DEF AllAssumptions, TypeOK
  <2>4. InWindow(x)
    BY <1>1, <2>1, <2>2, <2>3 DEF InWindow
  <2>5. x \notin got
    BY <1>1, <2>4 DEF GotInv
  <2>6. ~Beyond(x)
    BY <1>1, <2>2, <2>3 DEF Beyond
  <2> QED BY <1>1, <2>5, <2>6 DEF CoverInv
<1>2. WalkInv => PageIsContiguous
  BY <1>1 DEF PageIsContiguous
<1> QED BY <1>2, WalkInvHolds, PTL

(* The cursor only moves forward, so that a client asks for no page twice. *)
THEOREM CursorMovesForward == Spec => CursorProgress
<1>1. ASSUME WalkInv, [Next]_vars, cursor' # cursor
      PROVE  IF dir = "before" THEN cursor = 0 \/ cursor' < cursor
                               ELSE cursor' > cursor
  <2>1. FollowHeader
    BY <1>1 DEF Next, Indexer, Handler, Client, AddMapping, AddTransaction,
                ChangeAcceptance, Query, Ties, HasNewer, HasOlder, Search, Begin,
                NoHeader, vars
  <2>2. dir \in {"before", "after"}
    BY <1>1 DEF WalkInv, TypeOK
  <2> QED BY <1>1, <2>1, <2>2, HeaderMoves
<1>2. WalkInv /\ [Next]_vars =>
         [cursor' # cursor =>
            IF dir = "before" THEN cursor = 0 \/ cursor' < cursor
                              ELSE cursor' > cursor]_vars
  BY <1>1
<1> QED BY <1>2, WalkInvHolds, PTL DEF Spec, CursorProgress
=============================================================================
