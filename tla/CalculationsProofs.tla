------------------------- MODULE CalculationsProofs -------------------------
(***************************************************************************)
(* Proofs about Calculations, for every request and everything it may      *)
(* read: the halving, what caches are told to keep, what one read is       *)
(* answered with, the parts that add up to a whole, the masses and the     *)
(* hashrate history.                                                       *)
(***************************************************************************)
EXTENDS Calculations, FiniteSetTheorems, WellFoundedInduction, TLAPS

(* Nothing is kept for longer than it is old, or 4 seconds                 *)
(* (helper/utils.py:14-31).                                                *)
THEOREM TtlIsAtMostTheAge ==
    ASSUME NEW x \in Nat, NEW unit \in Nat \ {0}
    PROVE  Ttl(x, unit) = 4 \/ Ttl(x, unit) * unit <= x
BY DEF Ttl

(* What is older is kept at least as long.                                 *)
LEMMA TtlGrows ==
    ASSUME NEW x \in Nat, NEW y \in Nat, NEW unit \in Nat \ {0}, x <= y
    PROVE  Ttl(x, unit) <= Ttl(y, unit)
BY DEF Ttl

(* The loop's blue score may be old: `known` is what the node's score      *)
(* `sink` was a while ago.  An answer about a block is then kept no longer *)
(* than the older of the two allows (helper/utils.py:8-9).                 *)
THEOREM StaleScoreIsBounded ==
    ASSUME NEW score \in Nat \ {0}, NEW known \in Nat \ {0}, NEW sink \in Nat,
           NEW time \in Nat, NEW now \in Nat, score <= sink, known <= sink
    PROVE  LET ttl == AddCacheControl(score, time, known, now)
           IN  ttl <= Ttl(sink - score, BPS) \/ ttl <= Ttl(sink - known, BPS)
<1> DEFINE d == Dist(known, score)
<1>1. d \in Nat /\ (d <= sink - score \/ d <= sink - known)
  BY DEF Dist
<1>2. AddCacheControl(score, time, known, now) = Ttl(d, BPS)
  BY DEF AddCacheControl
<1>3. sink - score \in Nat /\ sink - known \in Nat
  OBVIOUS
<1>4. CASE d <= sink - score
  BY <1>1, <1>2, <1>3, <1>4, TtlGrows, BPSAssumption
<1>5. CASE d <= sink - known
  BY <1>1, <1>2, <1>3, <1>5, TtlGrows, BPSAssumption
<1> QED
  BY <1>1, <1>4, <1>5
-----------------------------------------------------------------------------
LEMMA Division ==
    ASSUME NEW x \in Int, NEW k \in Nat \ {0}
    PROVE  /\ x \div k \in Int
           /\ (x \div k) * k <= x /\ x < (x \div k) * k + k
OBVIOUS

LEMMA Quotient ==
    ASSUME NEW x \in Int, NEW k \in Nat \ {0}, NEW q \in Int, NEW r \in 0..k - 1,
           x = q * k + r
    PROVE  x \div k = q
<1>1. x \div k \in Int /\ (x \div k) * k <= x /\ x < (x \div k) * k + k
  BY Division
<1>2. ASSUME NEW d \in Int, d * k <= x, x < d * k + k PROVE d = q
  <2>1. (d - q) * k = d * k - q * k
    OBVIOUS
  <2>2. -k < (d - q) * k /\ (d - q) * k < k
    BY <1>2, <2>1
  <2>3. d - q \in Int
    OBVIOUS
  <2>4. ASSUME NEW e \in Int, -k < e * k, e * k < k PROVE e = 0
    BY <2>4
  <2> QED
    BY <2>2, <2>3, <2>4
<1> QED
  BY <1>1, <1>2

-----------------------------------------------------------------------------
(* What get_halving announces is the moment at which the month changes.    *)
HalvingIsNext(daa) ==
    LET next == DaaFromMonth(SubsidyMonth(daa) + 1) IN
    /\ daa < next /\ next <= daa + PerMonth
    /\ SubsidyMonth(next) = SubsidyMonth(daa) + 1
    /\ SubsidyMonth(next - 1) = SubsidyMonth(daa)

(* daa_from_month reverts subsidy_month, whatever the score and the rate   *)
(* (deflationary_table.py:439-448).                                        *)
THEOREM HalvingIsAlwaysNext == \A daa \in Nat : HalvingIsNext(daa)
<1> SUFFICES ASSUME NEW daa \in Nat PROVE HalvingIsNext(daa)
  OBVIOUS
<1> DEFINE k == PerMonth
           x == AtCrescendo + daa - Crescendo
           m == x \div k
<1>1. k \in Nat \ {0} /\ AtCrescendo \in Int /\ Crescendo \in Int
  BY BPSAssumption, TimeAssumption DEF PerMonth, AtCrescendo
<1>2. x \in Int
  BY <1>1
<1>3. SubsidyMonth(daa) = m /\ m \in Int /\ m * k <= x /\ x < m * k + k
  BY <1>1, <1>2, Division DEF SubsidyMonth
<1> DEFINE next == DaaFromMonth(m + 1)
<1>4. next = (m + 1) * k - AtCrescendo + Crescendo /\ (m + 1) * k = m * k + k
  BY <1>1, <1>3 DEF DaaFromMonth
<1>5. m * k \in Int
  BY <1>1, <1>3
<1> HIDE DEF k, m
<1>6. daa < next /\ next <= daa + k /\ next \in Int
  BY <1>1, <1>3, <1>4, <1>5
<1>7. AtCrescendo + next - Crescendo = (m + 1) * k + 0
      /\ AtCrescendo + (next - 1) - Crescendo = m * k + (k - 1)
  BY <1>1, <1>4, <1>5, <1>6
<1>8. ((m + 1) * k + 0) \div k = m + 1
  <2>1. m + 1 \in Int /\ (m + 1) * k + 0 \in Int /\ 0 \in 0..k - 1
    BY <1>1, <1>3, <1>4, <1>5
  <2> QED BY <1>1, <2>1, Quotient
<1>9. (m * k + (k - 1)) \div k = m
  <2>1. m * k + (k - 1) \in Int /\ k - 1 \in 0..k - 1
    BY <1>1, <1>3, <1>5
  <2> QED BY <1>1, <1>3, <2>1, Quotient
<1>10. SubsidyMonth(next) = m + 1 /\ SubsidyMonth(next - 1) = m
  BY <1>7, <1>8, <1>9 DEF SubsidyMonth, k
<1> QED
  BY <1>3, <1>6, <1>10 DEF HalvingIsNext, k
-----------------------------------------------------------------------------
(* The request stays the one that was made.                                *)
AskKept == ask \in Ask

(* A request is answered once, by the endpoint of its kind.                *)
LEMMA OwnEndpoint ==
    ASSUME Next
    PROVE  /\ ask' = ask
           /\ ask.kind = "halving" => GetHalving
           /\ ask.kind = "cache" => CacheHeader
           /\ ask.kind = "counts" => GetTransactionCountForDay
           /\ ask.kind = "actives" => GetAddressesActiveCountForDay
           /\ ask.kind = "balances" => GetBalanceHistory
           /\ ask.kind = "hashrates" => GetHashrateHistoryForDayOrMonth
           /\ ask.kind = "top" => GetAddressesTop
           /\ ask.kind = "tiers" => GetDistributionTiers
           /\ ask.kind = "blockreward" => GetBlockreward
           /\ ask.kind = "active" => GetAddressesActive
           /\ ask.kind = "color" => GetBlockColor
           /\ ask.kind = "inputs" => ResolveInputsFromDb
           /\ ask.kind = "script" => ConvertScript
           /\ ask.kind \in OfNode => ReadNode
           /\ ask.kind = "totals" => GetTransactionCountTotals
           /\ ask.kind = "offset" => GetFullTransactions
           /\ ask.kind = "mass" => GetTransactionMass
           /\ ask.kind = "storage" => CalcStorageMass
           /\ ask.kind = "bits" => GetDifficulty
           /\ ask.kind = "samples" => GetHashrateHistory
<1>1. CASE Compute
  BY <1>1 DEF Compute, Reply, GetBlockreward, GetHalving, CalcStorageMass, GetTransactionMass,
      GetDifficulty, CacheHeader, GetAddressesActive, GetBlockColor,
      ResolveInputsFromDb, ConvertScript, OfNode
<1>2. CASE History
  BY ZenonT(40), <1>2 DEF History, Reply, GetTransactionCountForDay, GetAddressesActiveCountForDay,
      GetBalanceHistory, GetHashrateHistoryForDayOrMonth, GetHashrateHistory,
      GetTransactionCountTotals, GetAddressesTop, GetDistributionTiers, GetFullTransactions, OfNode
<1>3. CASE ReadNode
  BY <1>3 DEF ReadNode, Reply, GetBalance, GetBalances, GetBlockdag, GetHashrate, GetKaspadInfo,
      GetFeeEstimate, GetVspc, GetCoinsupply, GetCirculating, GetSinkBlueScore, GetBlocks
<1> QED
  BY <1>1, <1>2, <1>3 DEF Next

LEMMA AskStays == Spec => []AskKept
<1>1. Init => AskKept
  BY DEF Init, AskKept
<1>2. AskKept /\ [Next]_vars => AskKept'
  BY OwnEndpoint DEF AskKept, vars
<1> QED
  BY <1>1, <1>2, PTL DEF Spec
-----------------------------------------------------------------------------
(* The halving told is the next one, and its reward is the one that is     *)
(* then paid (deflationary_table.py:439-456).                              *)
THEOREM HalvingIsTold == Spec => []HalvingTold
<1>1. Init => HalvingTold
  BY DEF Init, HalvingTold, Told, Waiting
<1>2. AskKept /\ HalvingTold /\ [Next]_vars => HalvingTold'
  <2> SUFFICES ASSUME ask \in Ask, HalvingTold, [Next]_vars, Told({"halving"})'
               PROVE  HalvingTold'
    BY DEF HalvingTold, AskKept
  <2>1. CASE UNCHANGED vars
    BY <2>1 DEF vars, HalvingTold, Told
  <2>2. CASE Next
    <3>1. ask' = ask /\ GetHalving /\ ask.daa \in Nat
      <4>1. ask' = ask /\ ask.kind = "halving"
        BY <2>2, OwnEndpoint DEF Told
      <4> QED
        BY <2>2, <4>1, OwnEndpoint, ReadsAssumption
    <3> DEFINE m == SubsidyMonth(ask.daa)
               next == DaaFromMonth(m + 1)
               d == next - ask.daa
    <3>2. /\ answer'.seconds = SecondsToHalving(ask.daa)
          /\ answer'.next = CalcBlockReward(ask.daa).next
      BY <3>1 DEF GetHalving, Reply, Told, Failure
    <3>3. answer'.seconds = d \div BPS /\ answer'.next = Ceiling(Subsidy[m + 1])
      BY <3>2 DEF CalcBlockReward, SecondsToHalving
    <3>4. HalvingIsNext(ask.daa)
      BY <3>1, HalvingIsAlwaysNext
    <3>5. SubsidyMonth(next) = m + 1
      BY <3>4 DEF HalvingIsNext
    <3>6. CalcBlockReward(next).current = Ceiling(Subsidy[m + 1])
      BY <3>5 DEF CalcBlockReward
    <3>7. next \in Int
      <4>1. PerMonth \in Nat \ {0} /\ AtCrescendo \in Int /\ Crescendo \in Int
        BY BPSAssumption, TimeAssumption DEF PerMonth, AtCrescendo
      <4>2. m \in Int
        BY <3>1, <4>1, Division DEF SubsidyMonth
      <4> QED
        BY <4>1, <4>2 DEF DaaFromMonth
    <3>8. 0 <= next - (ask.daa + BPS * answer'.seconds)
          /\ next - (ask.daa + BPS * answer'.seconds) < BPS
      <4>1. d \in Int /\ BPS \in Nat \ {0}
        BY <3>1, <3>7, BPSAssumption
      <4> HIDE DEF d
      <4>2. d \div BPS \in Int /\ (d \div BPS) * BPS <= d /\ d < (d \div BPS) * BPS + BPS
        BY <4>1, Division
      <4>3. (d \div BPS) * BPS = BPS * answer'.seconds /\ (d \div BPS) * BPS \in Int
        BY <3>3, <4>1, <4>2
      <4>4. d = next - ask.daa
        BY DEF d
      <4> QED
        BY <3>1, <3>7, <4>1, <4>2, <4>3, <4>4
    <3> QED
      BY <3>1, <3>3, <3>4, <3>6, <3>8 DEF HalvingTold, HalvingIsNext
  <2> QED
    BY <2>1, <2>2
<1> QED
  BY <1>1, <1>2, AskStays, PTL DEF Spec
-----------------------------------------------------------------------------
(* An answer about a block.                                                *)
LEMMA HeaderIsByAge ==
    ASSUME ask \in Ask, Next, Told({"cache"})' PROVE KeptByAge'
<1>1. ask' = ask /\ CacheHeader
  BY OwnEndpoint DEF Told
<1>2. /\ ask.score \in Nat /\ ask.known \in Nat /\ ask.sink \in Nat
      /\ ask.time \in Nat /\ ask.now \in Nat
      /\ ask.score <= ask.sink /\ ask.known <= ask.sink
  BY <1>1, AskAssumption DEF Told
<1>3. answer'.max_age = AddCacheControl(ask.score, ask.time, ask.known, ask.now)
  BY <1>1 DEF CacheHeader, Reply
<1>4. CASE ask.score > 0 /\ ask.known > 0
  <2> DEFINE ttl == AddCacheControl(ask.score, ask.time, ask.known, ask.now)
  <2>1. ask.score \in Nat \ {0} /\ ask.known \in Nat \ {0}
    BY <1>2, <1>4
  <2>2. ttl <= Ttl(ask.sink - ask.score, BPS) \/ ttl <= Ttl(ask.sink - ask.known, BPS)
    BY <1>2, <2>1, StaleScoreIsBounded
  <2> QED
    BY <1>1, <1>3, <2>2 DEF KeptByAge
<1>5. CASE ~(ask.score > 0 /\ ask.known > 0)
  BY <1>1, <1>5 DEF KeptByAge
<1> QED
  BY <1>4, <1>5
-----------------------------------------------------------------------------
(* What is asked about a period, and what is answered.                     *)
LEMMA PeriodIsAnswered ==
    ASSUME ask \in Ask, Next, Told(OfPeriod)'
    PROVE  /\ ask' = ask
           /\ ask.period \in [month : BOOLEAN, start : Int, days : Nat] /\ ask.now \in Int
           /\ \A r \in ask.table : r.at \in Int /\ r.seen \in Int
           /\ answer'.max_age = PeriodMaxAge(ask.period, ask.now)
           /\ answer'.rows = PeriodRows(ask.period, ask.now, ask.table)
<1>1. ask' = ask /\ ask.kind \in OfPeriod /\ answer'.code = 200
  BY OwnEndpoint DEF Told
<1>2. /\ ask.period \in [month : BOOLEAN, start : Int, days : Nat] /\ ask.now \in Int
      /\ \A r \in ask.table : r.at \in Int /\ r.seen \in Int
  BY <1>1, AskAssumption
<1>3. \/ answer' = RowsOfPeriod
      \/ /\ answer'.max_age = RowsOfPeriod.max_age
         /\ answer'.rows = RowsOfPeriod.rows
  <2>1. CASE ask.kind = "counts"
    BY <1>1, <2>1, OwnEndpoint DEF GetTransactionCountForDay, Reply, PeriodAnswer, Failure
  <2>2. CASE ask.kind = "actives"
    BY <1>1, <2>2, OwnEndpoint DEF GetAddressesActiveCountForDay, Reply, PeriodAnswer, Failure
  <2>3. CASE ask.kind = "balances"
    BY <1>1, <2>3, OwnEndpoint DEF GetBalanceHistory, Reply, PeriodAnswer, Failure
  <2>4. CASE ask.kind = "hashrates"
    <3> DEFINE k == SampleInterval(ask.resolution, TRUE)
               told == [code |-> 200, max_age |-> RowsOfPeriod.max_age,
                        rows |-> RowsOfPeriod.rows, points |-> PointsOfPeriod(k)]
    <3>1. answer' = PeriodAnswer(500, IF k = 0 /\ ~OutOfRange(ask.period, ask.now)
                                      THEN Failure(400) ELSE told)
      BY <1>1, <2>4, OwnEndpoint DEF GetHashrateHistoryForDayOrMonth, Reply
    <3>2. told.max_age = RowsOfPeriod.max_age /\ told.rows = RowsOfPeriod.rows
      OBVIOUS
    <3> HIDE DEF told, k
    <3>3. answer' = told
      BY <1>1, <3>1 DEF PeriodAnswer, Failure
    <3> QED
      BY <3>2, <3>3
  <2> QED
    BY <1>1, <2>1, <2>2, <2>3, <2>4 DEF OfPeriod
<1> QED
  BY <1>1, <1>2, <1>3 DEF RowsOfPeriod

(* A day or month that caches keep for long no longer changes              *)
(* (get_transactions_count.py:96-99).                                      *)
LEMMA PeriodIsComplete ==
    ASSUME ask \in Ask, Next, Told(OfPeriod)' PROVE CachedPeriodIsComplete'
<1> DEFINE p == ask.period
           final == {r \in ask.table : p.start <= r.at /\ r.at < End(p)}
<1>1. /\ ask' = ask /\ answer'.max_age = PeriodMaxAge(p, ask.now)
      /\ answer'.rows = PeriodRows(p, ask.now, ask.table)
      /\ p.start \in Int /\ p.days \in Nat /\ ask.now \in Int
      /\ \A r \in ask.table : r.at \in Int /\ r.seen \in Int
  BY PeriodIsAnswered
<1>2. End(p) \in Int /\ 2 * Day \in Nat /\ 2 * Hour \in Nat
  BY <1>1, PeriodsAssumption DEF End
<1>3. ASSUME NEW d \in Nat, ~OutOfRange(p, ask.now), End(p) < ask.now - d,
             \A r \in ask.table : r.seen <= r.at + d
      PROVE  answer'.rows = final
  <2>1. \A r \in ask.table : r.at < End(p) => r.seen <= ask.now
    BY <1>1, <1>2, <1>3
  <2> QED
    BY <1>1, <1>3, <2>1 DEF PeriodRows, Seen
<1>4. answer'.max_age = 3600 => ~OutOfRange(p, ask.now) /\ End(p) < ask.now - 2 * Day
  BY <1>1 DEF PeriodMaxAge
<1>5. answer'.max_age = 600 => ~OutOfRange(p, ask.now) /\ End(p) < ask.now - 2 * Hour
  BY <1>1 DEF PeriodMaxAge
<1> QED
  BY <1>1, <1>2, <1>3, <1>4, <1>5 DEF CachedPeriodIsComplete
-----------------------------------------------------------------------------
(* Two multiples of k are k apart.                                         *)
LEMMA Multiples ==
    ASSUME NEW x \in Int, NEW y \in Int, NEW k \in Nat \ {0},
           x % k = 0, y % k = 0, x < y
    PROVE  x <= y - k
<1> DEFINE a == x \div k
           b == y \div k
<1>1. a \in Int /\ b \in Int /\ x = k * a /\ y = k * b
  OBVIOUS
<1> HIDE DEF a, b
<1>2. ASSUME b <= a PROVE FALSE
  <2>1. k * b <= k * a
    BY <1>1, <1>2
  <2> QED
    BY <1>1, <2>1
<1>3. k * (a + 1) <= k * b
  BY <1>1, <1>2
<1> QED
  BY <1>1, <1>3

(* A ranking that caches keep for a day has seen every hour it is of       *)
(* (get_address_top.py:46-58).                                             *)
LEMMA RankingIsFinal ==
    ASSUME ask \in Ask, Next, Told(OfRanking)' PROVE CachedRankingIsFinal'
<1>1. ask' = ask /\ ask.kind \in OfRanking /\ answer'.code = 200
  BY OwnEndpoint DEF Told
<1>2. /\ ask.before \subseteq Int /\ \A b, c \in ask.before : b = c
      /\ ask.now \in Int /\ Hour \in Nat \ {0}
      /\ \A r \in ask.table : r.at \in Int /\ r.seen \in Int
  BY <1>1, AskAssumption, PeriodsAssumption
<1>3. /\ ~Misaligned(ask.before, Hour)
      /\ answer'.rows = RankingRows(ask.before, ask.limit, ask.now, ask.table)
      /\ \E default \in {60, 180} :
            answer'.max_age = BeforeMaxAge(ask.before, ask.now, default)
  <2>1. CASE ask.kind = "top"
    BY <1>1, <2>1, OwnEndpoint DEF GetAddressesTop, Reply, Ranking, Failure
  <2>2. CASE ask.kind = "tiers"
    BY <1>1, <2>2, OwnEndpoint DEF GetDistributionTiers, Reply, Ranking, Failure
  <2> QED
    BY <1>1, <2>1, <2>2 DEF OfRanking
<1>4. SUFFICES ASSUME answer'.max_age = 86400,
                      \A r \in ask.table : r.at % Hour = 0 /\ r.seen <= r.at + 2 * Hour
               PROVE  answer'.rows = Newest(ask.limit,
                                            {r \in ask.table : \A b \in ask.before : r.at < b})
  BY <1>1 DEF CachedRankingIsFinal
<1>5. PICK b \in ask.before : b < ask.now - Hour
  BY <1>3, <1>4 DEF BeforeMaxAge
<1>6. ask.before = {b} /\ b \in Int /\ b % Hour = 0
  BY <1>2, <1>3, <1>5 DEF Misaligned
<1>7. ~Ahead(ask.before, ask.now)
  BY <1>2, <1>5, <1>6 DEF Ahead
<1>8. ASSUME NEW r \in ask.table, r.at < b PROVE r.seen <= ask.now
  <2>1. r.at \in Int /\ r.at % Hour = 0
    BY <1>2, <1>4
  <2>2. b \in Int /\ b % Hour = 0 /\ Hour \in Nat \ {0}
    BY <1>2, <1>6
  <2>3. \A x \in Int : x % Hour = 0 /\ x < b => x <= b - Hour
    BY <2>2, Multiples
  <2>4. r.at <= b - Hour
    BY <1>8, <2>1, <2>3
  <2> QED
    BY <1>2, <1>4, <1>5, <1>6, <2>4
<1>9. {r \in Seen(ask.table, ask.now) : \A c \in ask.before : r.at < c}
        = {r \in ask.table : \A c \in ask.before : r.at < c}
  BY <1>6, <1>8 DEF Seen
<1> QED
  BY <1>3, <1>7, <1>9 DEF RankingRows
-----------------------------------------------------------------------------
(* No cache is told to keep for long what may still change: neither an     *)
(* answer about a block, nor a day, a month or a ranking                   *)
(* (helper/utils.py:8-31, get_transactions_count.py:96-99,                 *)
(* get_address_top.py:46-58).                                              *)
THEOREM CachesAreAlwaysSafe == Spec => []CachesAreSafe
<1>1. Init => CachesAreSafe
  BY DEF Init, CachesAreSafe, CachedPeriodIsComplete, CachedRankingIsFinal, KeptByAge,
         Told, Waiting
<1>2. AskKept /\ CachesAreSafe /\ [Next]_vars => CachesAreSafe'
  <2> SUFFICES ASSUME ask \in Ask, CachesAreSafe, [Next]_vars
               PROVE  CachesAreSafe'
    BY DEF AskKept
  <2>1. CASE UNCHANGED vars
    BY <2>1 DEF vars, CachesAreSafe, CachedPeriodIsComplete, CachedRankingIsFinal, KeptByAge, Told
  <2>2. CASE Next
    <3>1. CachedPeriodIsComplete'
      BY <2>2, PeriodIsComplete DEF CachedPeriodIsComplete
    <3>2. CachedRankingIsFinal'
      BY <2>2, RankingIsFinal DEF CachedRankingIsFinal
    <3>3. KeptByAge'
      BY <2>2, HeaderIsByAge DEF KeptByAge
    <3> QED
      BY <3>1, <3>2, <3>3 DEF CachesAreSafe
  <2> QED
    BY <2>1, <2>2
<1> QED
  BY <1>1, <1>2, AskStays, PTL DEF Spec
-----------------------------------------------------------------------------
(* A node that is silent is not taken for one that answers, by any of the  *)
(* eleven endpoints (KaspadThread.py:65-66, get_blocks.py:191-198).        *)
LEMMA SilenceIsToldByAll ==
    ASSUME ask \in Ask, Next, Told(OfNode)' PROVE SilenceIsTold'
<1>1. ask' = ask /\ ask.kind \in OfNode /\ ReadNode /\ answer'.code = 200
  BY OwnEndpoint DEF Told
<1>2. ask.transport \in Transport /\ ask.outcome \in Outcome
  BY <1>1, ReadsAssumption
<1> DEFINE told == FromNode(ask.transport, ask.outcome)
<1>3. told \in {Tells("node"), Tells("defaults"), Raises(503), Raises(500)}
      /\ (told = Tells("node") => ask.outcome = "answers")
      /\ (told = Tells("defaults") => ask.outcome = "refuses" /\ ask.transport = "grpc")
  BY <1>2 DEF FromNode, Transport, Outcome, Tells, Raises
<1> HIDE DEF told
<1>4. /\ answer' \in {told, Tells("empty"), Raises(400), Raises(500)}
      /\ answer' = Tells("empty") =>
            \/ ask.kind = "blocks" /\ ask.transport = "wrpc"
            \/ ask.kind = "several" /\ ask.asked = {}
  BY <1>1, <1>2, <1>3 DEF ReadNode, Reply, GetBalance, GetBalances, GetBlockdag, GetHashrate,
      GetKaspadInfo, GetFeeEstimate, GetVspc, GetCoinsupply, GetCirculating, GetSinkBlueScore,
      GetBlocks, Balance, Balances, Blockdag, Hashrate, KaspadInfo, FeeEstimate,
      VirtualChainFromBlock, Coinsupply, CirculatingCoins, SinkBlueScore, Blocks, told,
      Tells, Raises
<1> QED
  BY <1>1, <1>2, <1>3, <1>4 DEF SilenceIsTold, Tells, Raises, Outcome, Transport

(* A colour is the network's (get_blocks.py:305-310, 325-363).             *)
LEMMA ColorsAreTrue ==
    ASSUME ask \in Ask, Next, Told({"color"})' PROVE ColorIsTrue'
<1>1. ask' = ask /\ ask.kind = "color" /\ GetBlockColor /\ answer'.code = 200
  BY OwnEndpoint DEF Told
<1>2. /\ ask.isChainBlock => ask.truth = "blue"
      /\ ask.told \in {"refuses", "silent", ask.truth}
      /\ ask.truth \in {"none", "blue", "red"}
      /\ ask.children \subseteq {"no", ask.truth} \cap {"blue", "red", "no"}
  BY <1>1, ReadsAssumption DEF Merges
<1>3. PICK color \in Color(ask.transport, ask.isChainBlock, ask.told, ask.children) :
        answer' = IF color = "unavailable" THEN Failure(503) ELSE [code |-> 200, color |-> color]
  BY <1>1 DEF GetBlockColor, Reply
<1>4. color # "unavailable" /\ answer'.color = color
  BY <1>1, <1>3 DEF Failure
<1>5. color \in {"none", ask.truth}
  BY <1>2, <1>3, <1>4 DEF Color, ColorFromKaspad, ColorFromDb
<1>6. ASSUME color = "none"
      PROVE  /\ ~ask.isChainBlock
             /\ IF ask.transport = "database" THEN ask.truth \notin ask.children
                ELSE ask.told # "blue"
  <2>1. ~ask.isChainBlock
    BY <1>3, <1>6 DEF Color
  <2>2. CASE ask.transport = "database"
    BY <1>2, <1>3, <1>6, <2>1, <2>2 DEF Color, ColorFromDb
  <2>3. CASE ask.transport # "database"
    BY <1>3, <1>6, <2>1, <2>3 DEF Color, ColorFromKaspad
  <2> QED
    BY <2>1, <2>2, <2>3
<1> QED
  BY <1>1, <1>4, <1>5, <1>6 DEF ColorIsTrue

(* An input is told what it spends (get_transactions.py:409-498).          *)
LEMMA InputsAreTrue ==
    ASSUME ask \in Ask, Next, Told({"inputs"})' PROVE InputsAreThoseSpent'
<1>1. ask' = ask /\ ask.kind = "inputs" /\ ResolveInputsFromDb
  BY OwnEndpoint DEF Told
<1>2. ask.db \subseteq ask.chain /\ \A d \in ask.chain : d.amount \in Nat \ {0}
  BY <1>1, ReadsAssumption
<1>3. answer'.inputs = ResolveInputs(ask.inputs, ask.mode, ask.prepared, ask.db)
  BY <1>1 DEF ResolveInputsFromDb, Reply
<1>4. ASSUME NEW i \in DOMAIN ask.inputs
      PROVE  LET told == answer'.inputs[i]
                 true == {d.amount : d \in SpentBy(ask.inputs[i], ask.chain)}
             IN /\ told.amount # 0 => told.amount \in true
                /\ told.amount # 0 <=> /\ ask.mode # "no"
                                       /\ ask.prepared \/ SpentBy(ask.inputs[i], ask.db) # {}
                /\ told.record <=> told.amount # 0 /\ ask.mode = "full"
  <2> DEFINE input == ask.inputs[i]
             spent == SpentBy(input, ask.db)
             true == {d.amount : d \in SpentBy(input, ask.chain)}
             told == answer'.inputs[i]
             one == (CHOOSE d \in spent : TRUE).amount
             looked == ask.mode = "full" /\ spent # {}
             stored == ask.mode = "full" /\ input.amount # 0
  <2>1. told = IF ask.mode # "no" /\ ~ask.prepared
               THEN [amount |-> IF spent = {} THEN input.amount ELSE one, record |-> looked]
               ELSE [amount |-> IF ask.mode = "no" THEN 0 ELSE input.amount, record |-> stored]
    BY <1>3 DEF ResolveInputs, ResolveInput
  <2>2. input.amount \in IF ask.prepared THEN true ELSE {0}
    BY <1>1, ReadsAssumption
  <2>3. 0 \notin true /\ (spent # {} => one \in true)
    BY <1>2 DEF SpentBy
  <2>4. looked \in BOOLEAN /\ stored \in BOOLEAN
    OBVIOUS
  <2> HIDE DEF told, looked, stored, one, true, spent
  <2>5. /\ told.amount = IF ask.mode # "no" /\ ~ask.prepared
                         THEN IF spent = {} THEN input.amount ELSE one
                         ELSE IF ask.mode = "no" THEN 0 ELSE input.amount
        /\ told.record = IF ask.mode # "no" /\ ~ask.prepared THEN looked ELSE stored
    BY <2>1
  <2>6. told.amount # 0 => told.amount \in true
    BY <2>2, <2>3, <2>5
  <2>7. told.amount # 0 <=> ask.mode # "no" /\ (ask.prepared \/ spent # {})
    BY <2>2, <2>3, <2>5
  <2>8. told.record <=> told.amount # 0 /\ ask.mode = "full"
    <3>1. CASE ask.mode # "no" /\ ~ask.prepared
      BY <2>4, <2>5, <2>7, <3>1 DEF looked
    <3>2. CASE ask.mode # "no" /\ ask.prepared
      BY <2>4, <2>5, <3>2 DEF stored
    <3>3. CASE ask.mode = "no"
      BY <2>4, <2>5, <3>3 DEF stored
    <3> QED
      BY <3>1, <3>2, <3>3
  <2> QED
    BY <2>6, <2>7, <2>8 DEF told, true, spent
<1> QED
  BY <1>1, <1>4 DEF InputsAreThoseSpent

(* The activity of scripts is that of their rows (get_address_active.py:   *)
(* 50-69).                                                                 *)
LEMMA ScriptsActiveAreUsed ==
    ASSUME ask \in Ask, Next, Told({"active"})', ask'.useScript PROVE ActiveIsUsed'
<1>1. ask' = ask /\ ask.kind = "active" /\ GetAddressesActive
  BY OwnEndpoint DEF Told
<1> QED
  BY <1>1 DEF GetAddressesActive, Reply, AddressesActive, LastTx, Mapping, Latest, ActiveIsUsed

(* The zeros that lstrip takes away are all before the first other digit.  *)
LEMMA ZerosAreThose ==
    ASSUME NEW d \in Seq({0, 1}), NEW k \in 0..Len(d),
           \A i \in 1..k : d[i] = 0, k < Len(d) => d[k + 1] # 0
    PROVE  LeadingZeros(d) = k
<1> DEFINE z == LeadingZeros(d)
<1>1. /\ z \in 0..Len(d) /\ \A i \in 1..z : d[i] = 0
      /\ z < Len(d) => d[z + 1] # 0
  BY DEF LeadingZeros
<1> HIDE DEF z
<1>2. ~(z < k)
  BY <1>1
<1>3. ~(k < z)
  BY <1>1
<1>4. z = k
  BY <1>1, <1>2, <1>3
<1> QED
  BY <1>4 DEF z

(* The zeros before a script are those of its version, and the one that    *)
(* makes its first digit, if that is zero, is put back (get_blocks.py:     *)
(* 485-491).                                                               *)
LEMMA LegacyScriptIsIt ==
    ASSUME NEW v \in Seq({0, 1}), NEW s \in Seq({0, 1}),
           \A i \in DOMAIN v : v[i] = 0, Len(s) % 2 = 0,
           s = <<>> \/ s[1] # 0 \/ s[2] # 0
    PROVE  LegacyScript(v \o s) = s
<1> DEFINE digits == v \o s
           n == Len(v)
           zeros == LeadingZeros(digits)
           rest == SubSeq(digits, zeros + 1, Len(digits))
<1>1. /\ digits \in Seq({0, 1}) /\ n \in Nat /\ Len(s) \in Nat
      /\ Len(digits) = n + Len(s)
      /\ \A i \in 1..n : digits[i] = 0
      /\ \A i \in 1..Len(s) : digits[n + i] = s[i]
  OBVIOUS
<1>2. LegacyScript(v \o s) = IF Len(rest) % 2 = 1 THEN <<0>> \o rest ELSE rest
  BY DEF LegacyScript
<1> HIDE DEF digits, n
<1>3. s # <<>> => Len(s) >= 2
  OBVIOUS
<1>4. PICK w \in {0, 1} : zeros = n + w /\ w <= Len(s) /\ (w = 1 => s[1] = 0)
  <2>1. CASE s = <<>> \/ s[1] # 0
    <3>1. n < Len(digits) => digits[n + 1] # 0
      BY <1>1, <1>3, <2>1
    <3>2. zeros = n
      <4>1. n \in 0..n + Len(s)
        BY <1>1
      <4> QED
        BY <1>1, <3>1, <4>1, ZerosAreThose
    <3> QED
      BY <1>1, <3>2
  <2>2. CASE s # <<>> /\ s[1] = 0
    <3>1. s[2] # 0 /\ Len(s) >= 2
      BY <1>3, <2>2
    <3>2. digits[n + 1] = 0 /\ digits[n + 2] # 0
      BY <1>1, <2>2, <3>1
    <3>3. \A i \in 1..n + 1 : digits[i] = 0
      <4>1. ASSUME NEW i \in 1..n + 1, i # n + 1 PROVE i \in 1..n
        BY <1>1, <4>1
      <4> QED
        BY <1>1, <3>2, <4>1
    <3>4. zeros = n + 1
      <4> DEFINE m == Len(digits)
      <4>0. m = n + Len(s)
        BY <1>1
      <4> HIDE DEF m
      <4>1. n + 1 \in 0..m /\ (n + 1) + 1 = n + 2
        <5>1. \A x, y \in Nat : y >= 2 => x + 1 \in 0..x + y /\ (x + 1) + 1 = x + 2
          OBVIOUS
        <5> QED
          BY <1>1, <3>1, <4>0, <5>1
      <4> QED
        BY <1>1, <3>2, <3>3, <4>1, ZerosAreThose DEF m
    <3> QED
      BY <1>1, <2>2, <3>1, <3>4
  <2> QED
    BY <2>1, <2>2
<1> HIDE DEF zeros
<1>6. zeros = n + w /\ w \in 0..1 /\ n + w <= Len(digits)
  BY <1>1, <1>4
<1>7. /\ rest \in Seq({0, 1}) /\ Len(rest) = Len(s) - w
      /\ \A i \in 1..Len(rest) : rest[i] = s[w + i]
  <2>1. rest \in Seq({0, 1}) /\ Len(rest) = Len(s) - w
    BY <1>1, <1>4, <1>6
  <2>2. ASSUME NEW i \in 1..Len(rest) PROVE rest[i] = s[w + i]
    <3> DEFINE m == Len(digits)
    <3>1. /\ zeros \in Nat /\ m \in Nat /\ i \in 1..m - zeros
      BY <1>1, <1>4, <1>6, <2>1
    <3>2. SubSeq(digits, zeros + 1, m)[i] = digits[zeros + 1 + i - 1]
      BY <1>1, <3>1
    <3>3. zeros + 1 + i - 1 = zeros + i
      BY <3>1
    <3>4. rest[i] = digits[zeros + i]
      BY <3>2, <3>3
    <3>5. w + i \in 1..Len(s) /\ zeros + i = n + (w + i)
      BY <1>1, <1>6, <2>1
    <3> QED
      BY <1>1, <3>4, <3>5
  <2> QED
    BY <2>1, <2>2
<1> HIDE DEF rest, digits
<1>8. CASE w = 0
  <2>1. Len(rest) = Len(s) /\ \A i \in 1..Len(s) : rest[i] = s[i]
    BY <1>1, <1>7, <1>8
  <2>2. rest = s
    BY <1>7, <2>1
  <2> QED
    BY <1>2, <2>2
<1>9. CASE w = 1
  <2>1. Len(rest) % 2 = 1
    <3>1. Len(rest) = Len(s) - 1 /\ Len(s) \in Nat
      BY <1>1, <1>7, <1>9
    <3>2. \A k \in Nat : k % 2 = 0 => (k - 1) % 2 = 1
      OBVIOUS
    <3> QED
      BY <3>1, <3>2
  <2>2. <<0>> \o rest = s
    <3> DEFINE t == <<0>> \o rest
    <3>1. t \in Seq({0, 1}) /\ Len(t) = Len(s)
      BY <1>1, <1>7, <1>9
    <3>2. ASSUME NEW i \in 1..Len(s) PROVE t[i] = s[i]
      <4>1. CASE i = 1
        BY <1>4, <1>7, <1>9, <4>1
      <4>2. CASE i # 1
        <5>1. i - 1 \in 1..Len(rest) /\ t[i] = rest[i - 1]
          BY <1>1, <1>7, <1>9, <4>2
        <5> QED
          BY <1>7, <1>9, <5>1
      <4> QED
        BY <4>1, <4>2
    <3> HIDE DEF t
    <3>3. t = s
      BY <3>1, <3>2
    <3> QED
      BY <3>3 DEF t
  <2> QED
    BY <1>2, <2>1, <2>2
<1> QED
  BY <1>8, <1>9

LEMMA ScriptsAreKept ==
    ASSUME ask \in Ask, Next, Told({"script"})' PROVE ScriptIsKept'
<1>1. ask' = ask /\ ask.kind = "script" /\ ConvertScript
  BY OwnEndpoint DEF Told
<1>2. /\ ask.version \in Seq({0, 1}) /\ ask.script \in Seq({0, 1})
      /\ Len(ask.script) % 2 = 0
  BY <1>1, ReadsAssumption
<1> QED
  BY <1>1, <1>2, LegacyScriptIsIt DEF ConvertScript, Reply, ScriptIsKept
-----------------------------------------------------------------------------
(* Every non-empty set of natural numbers has a least element: months of   *)
(* the table, and sizes of sets.                                           *)
LEMMA LeastNatural ==
    ASSUME NEW S \in SUBSET Nat, S # {}
    PROVE  \E m \in S : \A j \in S : m <= j
<1> DEFINE R == OpToRel(<, Nat)
<1>1. \A x, y \in Nat : ~ (<<y, x>> \in R) => x <= y
  BY DEF OpToRel
<1> HIDE DEF R
<1>2. \E m \in S : \A j \in S : ~ (<<j, m>> \in R)
  BY NatLessThanWellFounded, WFMin DEF R
<1> QED BY <1>1, <1>2

(* The table up to any month: the function that halves every year exists.  *)
IsTable(g, n) == g = [m \in 0..n |-> IF m < 12 THEN YearOne[m + 1] ELSE g[m - 12] \div 2]

LEMMA TableExists == \A n \in Nat : \E g : IsTable(g, n)
<1> DEFINE Bad == {n \in Nat : ~\E g : IsTable(g, n)}
<1> SUFFICES ASSUME Bad # {} PROVE FALSE
  OBVIOUS
<1>1. PICK n \in Bad : \A j \in Bad : n <= j
  BY LeastNatural
<1>2. CASE n = 0
  <2>1. IsTable([m \in 0..0 |-> YearOne[m + 1]], 0)
    BY DEF IsTable
  <2> QED
    BY <1>1, <1>2, <2>1
<1>3. CASE n # 0
  <2>1. n \in Nat \ {0} /\ n - 1 \in Nat /\ n - 1 \notin Bad
    BY <1>1, <1>3
  <2>2. PICK g : IsTable(g, n - 1)
    BY <2>1
  <2> DEFINE h == [m \in 0..n |-> IF m < 12 THEN YearOne[m + 1] ELSE g[m - 12] \div 2]
  <2>3. \A m \in 0..n - 1 : g[m] = h[m]
    BY <2>1, <2>2 DEF IsTable
  <2>4. \A m \in 0..n : m >= 12 => m - 12 \in 0..n - 1
    BY <2>1
  <2>5. \A m \in 0..n : h[m] = IF m < 12 THEN YearOne[m + 1] ELSE h[m - 12] \div 2
    <3>1. ASSUME NEW m \in 0..n, m >= 12 PROVE h[m] = h[m - 12] \div 2
      <4>1. g[m - 12] = h[m - 12]
        BY <2>3, <2>4, <3>1
      <4>2. h[m] = g[m - 12] \div 2
        BY <3>1
      <4> QED
        BY <4>1, <4>2
    <3>2. ASSUME NEW m \in 0..n, m < 12 PROVE h[m] = YearOne[m + 1]
      BY <3>2
    <3>3. \A m \in 0..n : m >= 12 \/ m < 12
      OBVIOUS
    <3> HIDE DEF h
    <3> QED
      BY <3>1, <3>2, <3>3
  <2>6. IsTable(h, n)
    <3>1. h = [m \in 0..n |-> h[m]]
      OBVIOUS
    <3> HIDE DEF h
    <3> QED
      BY <2>5, <3>1 DEF IsTable
  <2> QED
    BY <1>1, <2>6
<1> QED
  BY <1>2, <1>3

(* Every entry is what the table of the first year, or the entry of a year *)
(* before, gives (deflationary_table.py:5-432).                            *)
LEMMA SubsidyIsHalved ==
    \A m \in 0..Months - 1 :
        Subsidy[m] = IF m < 12 THEN YearOne[m + 1] ELSE Subsidy[m - 12] \div 2
<1>1. Months - 1 \in Nat
  BY TableAssumption
<1>2. \E g : IsTable(g, Months - 1)
  BY <1>1, TableExists
<1>3. IsTable(Subsidy, Months - 1)
  BY <1>2 DEF Subsidy, IsTable
<1> QED
  BY <1>3 DEF IsTable

LEMMA SubsidyIsNatural == \A m \in 0..Months - 1 : Subsidy[m] \in Nat
<1> DEFINE Bad == {m \in 0..Months - 1 : Subsidy[m] \notin Nat}
<1> SUFFICES ASSUME Bad # {} PROVE FALSE
  OBVIOUS
<1>1. Bad \in SUBSET Nat
  BY TableAssumption
<1>2. PICK m \in Bad : \A j \in Bad : m <= j
  BY <1>1, LeastNatural
<1>3. m \in 0..Months - 1 /\ Months \in Nat \ {0} /\ YearOne \in [1..12 -> Nat]
  BY <1>2, TableAssumption
<1>4. CASE m < 12
  BY <1>2, <1>3, <1>4, SubsidyIsHalved
<1>5. CASE m >= 12
  <2>1. m - 12 \in 0..Months - 1 /\ m - 12 \notin Bad
    BY <1>2, <1>3, <1>5
  <2>2. Subsidy[m] = Subsidy[m - 12] \div 2 /\ Subsidy[m - 12] \in Nat
    BY <1>3, <1>5, <2>1, SubsidyIsHalved
  <2>3. \A x \in Nat : x \div 2 \in Nat
    OBVIOUS
  <2> QED
    BY <1>2, <2>2, <2>3
<1> QED
  BY <1>3, <1>4, <1>5

(* The table never grows (deflationary_table.py:5-432).                    *)
LEMMA SubsidyFalls ==
    \A m \in Nat : m + 1 \in 0..Months - 1 => Subsidy[m + 1] <= Subsidy[m]
<1> DEFINE Bad == {m \in Nat : m + 1 \in 0..Months - 1 /\ ~(Subsidy[m + 1] <= Subsidy[m])}
<1> SUFFICES ASSUME Bad # {} PROVE FALSE
  OBVIOUS
<1>1. PICK m \in Bad : \A j \in Bad : m <= j
  BY LeastNatural
<1>2. /\ m \in Nat /\ m \in 0..Months - 1 /\ m + 1 \in 0..Months - 1
      /\ Months \in Nat \ {0} /\ YearOne \in [1..12 -> Nat]
  BY <1>1, TableAssumption
<1>3. CASE m < 11
  <2>1. m + 1 \in 1..11 /\ m + 1 < 12 /\ m < 12
    BY <1>2, <1>3
  <2>2. Subsidy[m] = YearOne[m + 1] /\ Subsidy[m + 1] = YearOne[(m + 1) + 1]
    BY <1>2, <2>1, SubsidyIsHalved
  <2> QED
    BY <1>1, <2>1, <2>2, TableAssumption
<1>4. CASE m = 11
  <2>1. 0 \in 0..Months - 1 /\ 11 \in 0..Months - 1 /\ 12 \in 0..Months - 1
    BY <1>2, <1>4
  <2>2. Subsidy[11] = YearOne[12] /\ Subsidy[0] = YearOne[1] /\ Subsidy[12] = Subsidy[0] \div 2
    BY <2>1, SubsidyIsHalved
  <2> QED
    BY <1>1, <1>4, <2>2, TableAssumption
<1>5. CASE m > 11
  <2>1. m - 12 \in Nat /\ (m - 12) + 1 = (m + 1) - 12 /\ (m - 12) + 1 \in 0..Months - 1
        /\ m - 12 \in 0..Months - 1
    BY <1>2, <1>5
  <2>2. Subsidy[(m - 12) + 1] <= Subsidy[m - 12]
    BY <1>1, <2>1
  <2>3. Subsidy[m] = Subsidy[m - 12] \div 2
        /\ Subsidy[m + 1] = Subsidy[(m - 12) + 1] \div 2
    BY <1>2, <1>5, <2>1, SubsidyIsHalved
  <2>4. Subsidy[m - 12] \in Nat /\ Subsidy[(m - 12) + 1] \in Nat
    BY <2>1, SubsidyIsNatural
  <2>5. \A x, y \in Nat : x <= y => x \div 2 <= y \div 2
    OBVIOUS
  <2> QED
    BY <1>1, <2>2, <2>3, <2>4, <2>5
<1> QED
  BY <1>2, <1>3, <1>4, <1>5

(* What a second pays is spread over its blocks, rounded up                *)
(* (deflationary_table.py:453-454).                                        *)
LEMMA CeilingIs ==
    ASSUME NEW x \in Nat
    PROVE  /\ Ceiling(x) \in Int
           /\ x <= Ceiling(x) * BPS /\ Ceiling(x) * BPS < x + BPS
<1>1. BPS \in Nat \ {0} /\ x + BPS - 1 \in Int
  BY BPSAssumption
<1> DEFINE c == (x + BPS - 1) \div BPS
<1>2. c \in Int /\ c * BPS <= x + BPS - 1 /\ x + BPS - 1 < c * BPS + BPS
  BY <1>1, Division
<1>3. c * BPS \in Int
  BY <1>1, <1>2
<1> HIDE DEF c
<1>4. x <= c * BPS /\ c * BPS < x + BPS
  BY <1>1, <1>2, <1>3
<1> QED
  BY <1>2, <1>4 DEF c, Ceiling

LEMMA CeilingGrows ==
    ASSUME NEW x \in Nat, NEW y \in Nat, x <= y
    PROVE  Ceiling(x) <= Ceiling(y)
<1> DEFINE c == Ceiling(x)
           d == Ceiling(y)
<1>1. c \in Int /\ d \in Int /\ BPS \in Nat \ {0} /\ c * BPS < x + BPS /\ y <= d * BPS
  BY CeilingIs, BPSAssumption
<1> HIDE DEF c, d
<1>2. (c - d) * BPS = c * BPS - d * BPS /\ c * BPS \in Int /\ d * BPS \in Int
  BY <1>1
<1>3. (c - d) * BPS < BPS
  BY <1>1, <1>2
<1>4. \A e \in Int : e * BPS < BPS => e <= 0
  BY <1>1
<1>5. c - d <= 0
  BY <1>1, <1>3, <1>4
<1> QED
  BY <1>1, <1>5 DEF c, d

LEMMA CeilingHalves ==
    ASSUME NEW x \in Nat
    PROVE  2 * Ceiling(x \div 2) - Ceiling(x) \in {-1, 0, 1}
<1> DEFINE h == x \div 2
           c == Ceiling(x)
           d == Ceiling(h)
<1>1. h \in Nat /\ 2 * h <= x /\ x <= 2 * h + 1
  OBVIOUS
<1> HIDE DEF h
<1>2. /\ c \in Int /\ d \in Int /\ BPS \in Nat \ {0}
      /\ x <= c * BPS /\ c * BPS < x + BPS
      /\ h <= d * BPS /\ d * BPS < h + BPS
  BY <1>1, CeilingIs, BPSAssumption
<1> HIDE DEF c, d
<1>3. (2 * d - c) * BPS = 2 * (d * BPS) - c * BPS /\ c * BPS \in Int /\ d * BPS \in Int
  BY <1>2
<1>4. (2 * d - c) * BPS < 2 * BPS /\ -(2 * BPS) < (2 * d - c) * BPS
  BY <1>1, <1>2, <1>3
<1>5. \A e \in Int : e * BPS < 2 * BPS /\ -(2 * BPS) < e * BPS => e \in {-1, 0, 1}
  BY <1>2
<1>6. 2 * d - c \in {-1, 0, 1}
  BY <1>2, <1>4, <1>5
<1> QED
  BY <1>6 DEF h, c, d

(* The reward never grows, and halves in a year (get_blockreward.py:13-26, *)
(* deflationary_table.py:437-456).                                         *)
LEMMA RewardsHalve ==
    ASSUME ask \in Ask, Next, Told({"blockreward"})' PROVE RewardHalves'
<1>1. ask' = ask /\ ask.kind = "blockreward" /\ GetBlockreward /\ answer'.code = 200
  BY OwnEndpoint DEF Told
<1>2. ask.daa \in Nat
  BY <1>1, ReadsAssumption
<1> DEFINE m == SubsidyMonth(ask.daa)
           year == ask.daa + 12 * PerMonth
<1>3. HasReward(ask.daa) /\ answer'.reward = CalcBlockReward(ask.daa).current
  BY <1>1 DEF GetBlockreward, Reply, Failure
<1>4. /\ m \in Int /\ SubsidyMonth(year) = m + 12 /\ 0 <= m
  <2> DEFINE k == PerMonth
             x == AtCrescendo + ask.daa - Crescendo
  <2>1. k \in Nat \ {0} /\ AtCrescendo \in Int /\ Crescendo \in Int /\ Crescendo <= AtCrescendo
    BY BPSAssumption, TimeAssumption DEF PerMonth, AtCrescendo
  <2>2. x \in Nat /\ AtCrescendo + year - Crescendo = x + 12 * k
    BY <1>2, <2>1
  <2>3. m = x \div k /\ SubsidyMonth(year) = (x + 12 * k) \div k
    BY <2>2 DEF SubsidyMonth
  <2> HIDE DEF k, x, year, m
  <2>4. m \in Int /\ m * k <= x /\ x < m * k + k
    BY <2>1, <2>2, <2>3, Division
  <2>5. m * k \in Int /\ (m + 12) * k = m * k + 12 * k
    BY <2>1, <2>4
  <2>6. x - m * k \in 0..k - 1 /\ x + 12 * k = (m + 12) * k + (x - m * k)
    BY <2>1, <2>2, <2>4, <2>5
  <2>7. (x + 12 * k) \div k = m + 12
    <3>1. m + 12 \in Int /\ x + 12 * k \in Int
      BY <2>1, <2>2, <2>4
    <3> QED
      BY <2>1, <2>6, <3>1, Quotient
  <2>8. 0 <= m
    <3>1. ASSUME m < 0 PROVE FALSE
      <4>1. (m + 1) * k = m * k + k /\ \A e \in Int : e <= 0 => e * k <= 0
        BY <2>1, <2>4
      <4>2. (m + 1) * k <= 0
        BY <2>4, <3>1, <4>1
      <4> QED
        BY <2>1, <2>2, <2>4, <2>5, <4>1, <4>2
    <3> QED
      BY <2>4, <3>1
  <2> QED
    BY <2>3, <2>4, <2>7, <2>8 DEF year, m
<1> HIDE DEF year
<1>5. \A x : HasReward(x) <=> SubsidyMonth(x) + 1 \in 0..Months - 1
  <2>1. Months - 1 \in Nat
    BY TableAssumption
  <2>2. DOMAIN Subsidy = 0..Months - 1
    <3>1. \E g : IsTable(g, Months - 1)
      BY <2>1, TableExists
    <3>2. IsTable(Subsidy, Months - 1)
      BY <3>1 DEF Subsidy, IsTable
    <3> QED
      BY <3>2 DEF IsTable
  <2> QED
    BY <2>2 DEF HasReward
<1> HIDE DEF m
<1>6. m \in Nat /\ m \in 0..Months - 1 /\ m + 1 \in 0..Months - 1
  BY <1>3, <1>4, <1>5, TableAssumption DEF m
<1>7. Subsidy[m] \in Nat /\ Subsidy[m + 1] \in Nat /\ Subsidy[m + 1] <= Subsidy[m]
  BY <1>6, SubsidyIsNatural, SubsidyFalls
<1>8. answer'.reward = Ceiling(Subsidy[m]) /\ CalcBlockReward(ask.daa).next = Ceiling(Subsidy[m + 1])
  BY <1>3 DEF CalcBlockReward, m
<1>9. CalcBlockReward(ask.daa).next <= answer'.reward
  BY <1>7, <1>8, CeilingGrows
<1>10. ASSUME HasReward(year) PROVE 2 * CalcBlockReward(year).current - answer'.reward \in {-1, 0, 1}
  <2>1. (m + 12) + 1 \in 0..Months - 1 /\ m + 12 \in 0..Months - 1
    BY <1>4, <1>5, <1>6, <1>10, TableAssumption DEF m
  <2>2. CalcBlockReward(year).current = Ceiling(Subsidy[m + 12])
    BY <1>4 DEF CalcBlockReward, m
  <2>3. Subsidy[m + 12] = Subsidy[m] \div 2
    <3>1. ~(m + 12 < 12) /\ (m + 12) - 12 = m
      BY <1>6
    <3> QED
      BY <2>1, <3>1, SubsidyIsHalved
  <2> QED
    BY <1>7, <1>8, <2>2, <2>3, CeilingHalves
<1> QED
  BY <1>1, <1>9, <1>10 DEF RewardHalves, year

(* What a single read is answered with is what was read: the reward, the   *)
(* colour, the spent output, the script, the activity, and the silence of  *)
(* the node (get_blockreward.py:13-26, get_blocks.py:185-201, 325-363,     *)
(* 480-491, get_transactions.py:409-498, get_address_active.py:50-76).     *)
THEOREM ReadsAreAlwaysTrue == Spec => []ReadsAreTrue
<1> USE DEF ReadsAreTrue, ColorIsTrue, RewardHalves, InputsAreThoseSpent, ScriptIsKept,
            SilenceIsTold, ActiveIsUsed
<1>1. Init => ReadsAreTrue
  BY DEF Init, Told, Waiting
<1>2. AskKept /\ ReadsAreTrue /\ [Next]_vars => ReadsAreTrue'
  <2> SUFFICES ASSUME ask \in Ask, ReadsAreTrue, [Next]_vars
               PROVE  ReadsAreTrue'
    BY DEF AskKept
  <2>1. CASE UNCHANGED vars
    BY SMTT(30), <2>1 DEF vars, Told
  <2>2. CASE Next
    <3>1. ColorIsTrue'
      BY <2>2, ColorsAreTrue
    <3>2. RewardHalves'
      BY <2>2, RewardsHalve
    <3>3. InputsAreThoseSpent'
      BY <2>2, InputsAreTrue
    <3>4. ScriptIsKept'
      BY <2>2, ScriptsAreKept
    <3>5. SilenceIsTold'
      BY <2>2, SilenceIsToldByAll
    <3>6. Told({"active"})' /\ ask'.useScript => ActiveIsUsed'
      BY <2>2, ScriptsActiveAreUsed
    <3> HIDE DEF ColorIsTrue, RewardHalves, InputsAreThoseSpent, ScriptIsKept,
                 SilenceIsTold, ActiveIsUsed
    <3> QED
      BY <3>1, <3>2, <3>3, <3>4, <3>5, <3>6
  <2> QED
    BY <2>1, <2>2
<1> HIDE DEF ReadsAreTrue
<1> QED
  BY <1>1, <1>2, AskStays, PTL DEF Spec
-----------------------------------------------------------------------------
(* The sums over the parts of f's domain: the function by which the fold   *)
(* of the community modules is defined.                                    *)
Some(s) == CHOOSE x \in s : TRUE
Sizes(D, n) == {s \in SUBSET D : Cardinality(s) <= n}
IsSums(g, f, Parts) ==
    g = [s \in Parts |-> IF s = {} THEN 0 ELSE f[Some(s)] + g[s \ {Some(s)}]]
SumsOf(f) == CHOOSE g : IsSums(g, f, SUBSET DOMAIN f)

LEMMA TotalIsOfSums == \A f : Total(f) = SumsOf(f)[DOMAIN f]
BY DEF Total, FoldFunction, FoldFunctionOnSet, MapThenFoldSet, SumsOf, IsSums, Some

LEMMA SomeIsIn == \A s : s # {} => Some(s) \in s
BY DEF Some

LEMMA SmallerPart ==
    ASSUME NEW D, IsFiniteSet(D), NEW s \in SUBSET D, NEW x \in s
    PROVE  /\ s \ {x} \in SUBSET D /\ IsFiniteSet(s) /\ Cardinality(s) \in Nat \ {0}
           /\ Cardinality(s \ {x}) = Cardinality(s) - 1
<1>1. IsFiniteSet(s)
  BY FS_Subset
<1>2. Cardinality(s) \in Nat /\ Cardinality(s \ {x}) = Cardinality(s) - 1
      /\ Cardinality(s \ {x}) \in Nat
  BY <1>1, FS_RemoveElement, FS_CardinalityType
<1> QED
  BY <1>1, <1>2

LEMMA SumsOfSizesExist ==
    ASSUME NEW f, IsFiniteSet(DOMAIN f)
    PROVE  \A n \in Nat : \E g : IsSums(g, f, Sizes(DOMAIN f, n))
<1> DEFINE D == DOMAIN f
           Bad == {n \in Nat : ~\E g : IsSums(g, f, Sizes(D, n))}
<1> SUFFICES ASSUME Bad # {} PROVE FALSE
  OBVIOUS
<1>1. PICK n \in Bad : \A j \in Bad : n <= j
  BY LeastNatural
<1>2. CASE n = 0
  <2> DEFINE g == [s \in Sizes(D, 0) |-> 0]
  <2>1. \A s \in Sizes(D, 0) : s = {}
    <3> SUFFICES ASSUME NEW s \in Sizes(D, 0), NEW x \in s PROVE FALSE
      OBVIOUS
    <3>1. Cardinality(s) \in Nat \ {0} /\ Cardinality(s) <= 0
      BY SmallerPart DEF Sizes
    <3> QED
      BY <3>1
  <2>2. IsSums(g, f, Sizes(D, 0))
    BY <2>1 DEF IsSums
  <2> QED
    BY <1>1, <1>2, <2>2
<1>3. CASE n # 0
  <2>1. n \in Nat \ {0} /\ n - 1 \in Nat /\ n - 1 \notin Bad
    BY <1>1, <1>3
  <2>2. PICK g : IsSums(g, f, Sizes(D, n - 1))
    BY <2>1
  <2> DEFINE h == [s \in Sizes(D, n) |-> IF s = {} THEN 0 ELSE f[Some(s)] + g[s \ {Some(s)}]]
  <2>3. \A s \in Sizes(D, n - 1) : s \in Sizes(D, n) /\ g[s] = h[s]
    <3>1. ASSUME NEW s \in Sizes(D, n - 1) PROVE s \in Sizes(D, n)
      <4>1. Cardinality(s) \in Nat
        BY FS_Subset, FS_CardinalityType DEF Sizes
      <4> QED
        BY <2>1, <4>1 DEF Sizes
    <3> QED
      BY <2>2, <3>1 DEF IsSums
  <2>4. \A s \in Sizes(D, n) : s # {} => s \ {Some(s)} \in Sizes(D, n - 1)
    <3> SUFFICES ASSUME NEW s \in Sizes(D, n), s # {} PROVE s \ {Some(s)} \in Sizes(D, n - 1)
      OBVIOUS
    <3>1. /\ s \ {Some(s)} \in SUBSET D /\ Cardinality(s) \in Nat
          /\ Cardinality(s \ {Some(s)}) = Cardinality(s) - 1
      BY SomeIsIn, SmallerPart DEF Sizes
    <3> QED
      BY <2>1, <3>1 DEF Sizes
  <2>5. ASSUME NEW s \in Sizes(D, n), s # {}
        PROVE  h[s] = f[Some(s)] + h[s \ {Some(s)}]
    <3>1. h[s] = f[Some(s)] + g[s \ {Some(s)}]
      BY <2>5
    <3> HIDE DEF h
    <3> QED
      BY <2>3, <2>4, <2>5, <3>1
  <2>6. \A s \in Sizes(D, n) : s = {} => h[s] = 0
    OBVIOUS
  <2>7. h = [s \in Sizes(D, n) |-> h[s]]
    OBVIOUS
  <2> HIDE DEF h
  <2>8. IsSums(h, f, Sizes(D, n))
    BY <2>5, <2>6, <2>7 DEF IsSums
  <2> QED
    BY <1>1, <2>8
<1> QED
  BY <1>2, <1>3

LEMMA SumsOfPart ==
    ASSUME NEW f, IsFiniteSet(DOMAIN f), NEW s \in SUBSET DOMAIN f
    PROVE  SumsOf(f)[s] = IF s = {} THEN 0 ELSE f[Some(s)] + SumsOf(f)[s \ {Some(s)}]
<1> DEFINE D == DOMAIN f
           n == Cardinality(D)
<1>1. n \in Nat
  BY FS_CardinalityType
<1>2. Sizes(D, n) = SUBSET D
  BY FS_Subset DEF Sizes
<1>3. \E g : IsSums(g, f, SUBSET D)
  <2>1. \E g : IsSums(g, f, Sizes(D, n))
    BY <1>1, SumsOfSizesExist
  <2> QED
    BY <1>2, <2>1
<1>4. IsSums(SumsOf(f), f, SUBSET D)
  BY <1>3 DEF SumsOf
<1> QED
  BY <1>4 DEF IsSums

(* Two functions that agree on a part have the same sum over it.           *)
LEMMA SumsAgree ==
    ASSUME NEW f, NEW g, NEW s, s \subseteq DOMAIN f, s \subseteq DOMAIN g,
           IsFiniteSet(DOMAIN f), IsFiniteSet(DOMAIN g),
           \A x \in s : f[x] = g[x]
    PROVE  SumsOf(f)[s] = SumsOf(g)[s]
<1> DEFINE Bad == {n \in Nat : \E t \in SUBSET s : Cardinality(t) = n /\ SumsOf(f)[t] # SumsOf(g)[t]}
<1>1. ASSUME Bad # {} PROVE FALSE
  <2>1. PICK n \in Bad : \A j \in Bad : n <= j
    BY <1>1, LeastNatural
  <2>2. PICK t \in SUBSET s : Cardinality(t) = n /\ SumsOf(f)[t] # SumsOf(g)[t]
    BY <2>1
  <2>3. t \in SUBSET DOMAIN f /\ t \in SUBSET DOMAIN g
    OBVIOUS
  <2>4. t # {}
    BY <2>2, <2>3, SumsOfPart
  <2> DEFINE x == Some(t)
  <2>5. x \in t /\ SumsOf(f)[t] = f[x] + SumsOf(f)[t \ {x}] /\ SumsOf(g)[t] = g[x] + SumsOf(g)[t \ {x}]
    BY <2>3, <2>4, SomeIsIn, SumsOfPart
  <2> HIDE DEF x
  <2>6. t \ {x} \in SUBSET s /\ Cardinality(t \ {x}) = n - 1 /\ n - 1 \in Nat
    <3>1. Cardinality(t) \in Nat \ {0} /\ Cardinality(t \ {x}) = Cardinality(t) - 1
      BY <2>3, <2>5, SmallerPart
    <3> QED
      BY <2>2, <3>1
  <2>7. SumsOf(f)[t \ {x}] = SumsOf(g)[t \ {x}]
    <3>1. n - 1 \notin Bad
      BY <2>1, <2>6
    <3> QED
      BY <2>6, <3>1
  <2> QED
    BY <2>2, <2>5, <2>7
<1>2. Cardinality(s) \in Nat
  BY FS_Subset, FS_CardinalityType
<1> QED
  BY <1>1, <1>2

(* The sum of integers is one, and any of them may be added last.          *)
LEMMA SumIsInt ==
    ASSUME NEW f, IsFiniteSet(DOMAIN f), \A x \in DOMAIN f : f[x] \in Int,
           NEW s \in SUBSET DOMAIN f
    PROVE  SumsOf(f)[s] \in Int
<1> DEFINE D == DOMAIN f
           Bad == {n \in Nat : \E t \in SUBSET D : Cardinality(t) = n /\ SumsOf(f)[t] \notin Int}
<1>1. ASSUME Bad # {} PROVE FALSE
  <2>1. PICK n \in Bad : \A j \in Bad : n <= j
    BY <1>1, LeastNatural
  <2>2. PICK t \in SUBSET D : Cardinality(t) = n /\ SumsOf(f)[t] \notin Int
    BY <2>1
  <2>3. t # {}
    <3>1. SumsOf(f)[{}] = 0
      BY SumsOfPart
    <3> QED
      BY <2>2, <3>1
  <2> DEFINE x == Some(t)
  <2>4. x \in t /\ SumsOf(f)[t] = f[x] + SumsOf(f)[t \ {x}]
    BY <2>3, SomeIsIn, SumsOfPart
  <2> HIDE DEF x
  <2>5. t \ {x} \in SUBSET D /\ Cardinality(t \ {x}) = n - 1 /\ n - 1 \in Nat
    BY <2>2, <2>4, SmallerPart
  <2>6. SumsOf(f)[t \ {x}] \in Int
    <3>1. n - 1 \notin Bad
      BY <2>1, <2>5
    <3> QED
      BY <2>5, <3>1
  <2> QED
    BY <2>2, <2>4, <2>6
<1>2. Cardinality(s) \in Nat
  BY FS_Subset, FS_CardinalityType
<1> QED
  BY <1>1, <1>2

LEMMA SumWithout ==
    ASSUME NEW f, IsFiniteSet(DOMAIN f), \A x \in DOMAIN f : f[x] \in Int,
           NEW s \in SUBSET DOMAIN f, NEW x \in s
    PROVE  SumsOf(f)[s] = f[x] + SumsOf(f)[s \ {x}]
<1> DEFINE D == DOMAIN f
           Wrong(t, y) == SumsOf(f)[t] # f[y] + SumsOf(f)[t \ {y}]
           Bad == {n \in Nat : \E t \in SUBSET D : Cardinality(t) = n /\ \E y \in t : Wrong(t, y)}
<1>1. ASSUME Bad # {} PROVE FALSE
  <2>1. PICK n \in Bad : \A j \in Bad : n <= j
    BY <1>1, LeastNatural
  <2>2. PICK t \in SUBSET D : Cardinality(t) = n /\ \E y \in t : Wrong(t, y)
    BY <2>1
  <2>3. PICK y \in t : Wrong(t, y)
    BY <2>2
  <2> DEFINE z == Some(t)
  <2>4. z \in t /\ SumsOf(f)[t] = f[z] + SumsOf(f)[t \ {z}]
    BY <2>3, SomeIsIn, SumsOfPart
  <2> HIDE DEF z
  <2>5. z # y
    BY <2>3, <2>4
  <2>6. t \ {z} \in SUBSET D /\ Cardinality(t \ {z}) = n - 1 /\ n - 1 \in Nat
        /\ t \ {y} \in SUBSET D /\ Cardinality(t \ {y}) = n - 1
    BY <2>2, <2>3, <2>4, SmallerPart
  <2>7. n - 1 \notin Bad
    BY <2>1, <2>6
  <2>8. \A u \in SUBSET D : Cardinality(u) = n - 1 => \A w \in u : ~Wrong(u, w)
    BY <2>6, <2>7
  <2> DEFINE rest == (t \ {z}) \ {y}
  <2>9. y \in t \ {z} /\ z \in t \ {y} /\ rest = (t \ {y}) \ {z}
    BY <2>3, <2>4, <2>5
  <2>10. SumsOf(f)[t \ {z}] = f[y] + SumsOf(f)[rest]
    BY <2>6, <2>8, <2>9
  <2>11. SumsOf(f)[t \ {y}] = f[z] + SumsOf(f)[rest]
    BY <2>6, <2>8, <2>9
  <2>12. SumsOf(f)[rest] \in Int /\ f[y] \in Int /\ f[z] \in Int
    BY <2>3, <2>4, SumIsInt
  <2> QED
    BY <2>3, <2>4, <2>10, <2>11, <2>12
<1>2. Cardinality(s) \in Nat
  BY FS_Subset, FS_CardinalityType
<1> QED
  BY <1>1, <1>2

(* The sum over two parts that share nothing.                              *)
LEMMA SumOfBoth ==
    ASSUME NEW f, IsFiniteSet(DOMAIN f), \A x \in DOMAIN f : f[x] \in Int,
           NEW s \in SUBSET DOMAIN f, NEW t \in SUBSET DOMAIN f, s \cap t = {}
    PROVE  SumsOf(f)[s \cup t] = SumsOf(f)[s] + SumsOf(f)[t]
<1> DEFINE Wrong(u) == SumsOf(f)[u \cup t] # SumsOf(f)[u] + SumsOf(f)[t]
           Bad == {n \in Nat : \E u \in SUBSET s : Cardinality(u) = n /\ Wrong(u)}
<1>1. ASSUME Bad # {} PROVE FALSE
  <2>1. PICK n \in Bad : \A j \in Bad : n <= j
    BY <1>1, LeastNatural
  <2>2. PICK u \in SUBSET s : Cardinality(u) = n /\ n \in Nat /\ Wrong(u)
    BY <2>1
  <2>3. ASSUME u = {} PROVE FALSE
    <3>1. SumsOf(f)[u] = 0 /\ u \cup t = t
      BY <2>3, SumsOfPart
    <3>2. SumsOf(f)[t] \in Int
      BY SumIsInt
    <3>3. SumsOf(f)[u \cup t] = SumsOf(f)[t]
      BY <3>1
    <3>4. SumsOf(f)[u \cup t] = SumsOf(f)[u] + SumsOf(f)[t]
      BY <3>1, <3>2, <3>3
    <3> QED
      BY <2>2, <3>4
  <2>4. PICK x \in u : TRUE
    BY <2>3
  <2>5. SumsOf(f)[u] = f[x] + SumsOf(f)[u \ {x}]
    BY <2>4, SumWithout
  <2>6. SumsOf(f)[u \cup t] = f[x] + SumsOf(f)[(u \ {x}) \cup t]
    <3>1. u \cup t \in SUBSET DOMAIN f /\ x \in u \cup t /\ (u \cup t) \ {x} = (u \ {x}) \cup t
      BY <2>4
    <3>2. SumsOf(f)[u \cup t] = f[x] + SumsOf(f)[(u \cup t) \ {x}]
      BY <3>1, SumWithout
    <3> QED
      BY <3>1, <3>2
  <2>7. u \ {x} \in SUBSET s /\ Cardinality(u \ {x}) = n - 1 /\ n - 1 \in Nat
    <3>1. u \in SUBSET DOMAIN f
      OBVIOUS
    <3>2. Cardinality(u) \in Nat \ {0} /\ Cardinality(u \ {x}) = Cardinality(u) - 1
      BY <2>4, <3>1, SmallerPart
    <3> QED
      BY <2>2, <3>2
  <2>8. ~Wrong(u \ {x})
    <3>1. n - 1 \notin Bad
      <4> HIDE DEF Bad
      <4> QED
        BY <2>1, <2>2, <2>7
    <3> QED
      BY <2>7, <3>1
  <2>9. SumsOf(f)[u \ {x}] \in Int /\ SumsOf(f)[t] \in Int /\ f[x] \in Int
    BY <2>4, SumIsInt
  <2> QED
    BY <2>2, <2>5, <2>6, <2>8, <2>9
<1>2. Cardinality(s) \in Nat
  BY FS_Subset, FS_CardinalityType
<1> QED
  BY <1>1, <1>2

(* A total is that of any larger function's part.                          *)
LEMMA TotalOfPart ==
    ASSUME NEW f, IsFiniteSet(DOMAIN f), NEW s \in SUBSET DOMAIN f
    PROVE  Total([x \in s |-> f[x]]) = SumsOf(f)[s]
<1> DEFINE g == [x \in s |-> f[x]]
<1>1. DOMAIN g = s /\ \A x \in s : g[x] = f[x]
  OBVIOUS
<1>2. IsFiniteSet(s)
  BY FS_Subset
<1> HIDE DEF g
<1>3. SumsOf(g)[s] = SumsOf(f)[s]
  BY <1>1, <1>2, SumsAgree
<1>4. Total(g) = SumsOf(g)[s]
  BY <1>1, TotalIsOfSums
<1> QED
  BY <1>3, <1>4 DEF g

LEMMA TotalIsInt ==
    ASSUME NEW f, IsFiniteSet(DOMAIN f), \A x \in DOMAIN f : f[x] \in Int
    PROVE  Total(f) \in Int
BY TotalIsOfSums, SumIsInt

(* What is counted in parts is the whole: the sum over the union of parts  *)
(* that share nothing is that of their sums.                               *)
LEMMA TotalOfParts ==
    ASSUME NEW f, IsFiniteSet(DOMAIN f), \A x \in DOMAIN f : f[x] \in Int,
           NEW m \in Nat, NEW part \in [0..m -> SUBSET DOMAIN f],
           \A d, e \in 0..m : d # e => part[d] \cap part[e] = {},
           \A x \in DOMAIN f : \E d \in 0..m : x \in part[d],
           NEW h, DOMAIN h = 0..m, \A d \in 0..m : h[d] = SumsOf(f)[part[d]]
    PROVE  Total(h) = Total(f)
<1> DEFINE upto(n) == UNION {part[d] : d \in 0..n}
           Bad == {n \in 0..m : SumsOf(h)[0..n] # SumsOf(f)[upto(n)]}
<1>1. /\ DOMAIN h = 0..m /\ \A d \in 0..m : h[d] = SumsOf(f)[part[d]] /\ h[d] \in Int
      /\ IsFiniteSet(DOMAIN h)
  <2>1. \A d \in 0..m : SumsOf(f)[part[d]] \in Int
    BY SumIsInt
  <2>2. IsFiniteSet(0..m)
    <3>1. 0 \in Int /\ m \in Int
      OBVIOUS
    <3> QED
      BY ONLY <3>1, FS_Interval
  <2> QED
    BY <2>1, <2>2
<1>2. ASSUME Bad # {} PROVE FALSE
  <2>0. Bad \in SUBSET Nat
    OBVIOUS
  <2>1. PICK n \in Bad : \A j \in Bad : n <= j
    <3> HIDE DEF Bad
    <3> QED
      BY <1>2, <2>0, LeastNatural
  <2>2. n \in 0..m /\ SumsOf(h)[0..n] # SumsOf(f)[upto(n)] /\ 0..n \in SUBSET (0..m) /\ n \in 0..n
    BY <2>1
  <2>3. SumsOf(h)[0..n] = h[n] + SumsOf(h)[(0..n) \ {n}]
    <3>1. \A t \in SUBSET DOMAIN h : \A x \in t : SumsOf(h)[t] = h[x] + SumsOf(h)[t \ {x}]
      <4>1. IsFiniteSet(DOMAIN h) /\ \A x \in DOMAIN h : h[x] \in Int
        BY <1>1
      <4> QED
        BY ONLY <4>1, SumWithout
    <3>2. 0..n \in SUBSET DOMAIN h
      BY <1>1, <2>2
    <3> QED
      BY <2>2, <3>1, <3>2
  <2>4. CASE n = 0
    <3>1. (0..n) \ {n} = {} /\ upto(n) = part[n]
      <4>1. 0..n = {n}
        BY <2>4
      <4> QED
        BY <4>1
    <3>2. SumsOf(h)[{}] = 0
      BY <1>1, SumsOfPart
    <3>3. SumsOf(h)[(0..n) \ {n}] = 0 /\ SumsOf(f)[upto(n)] = SumsOf(f)[part[n]]
      BY <3>1, <3>2
    <3> HIDE DEF upto
    <3>4. SumsOf(h)[0..n] = h[n]
      BY <1>1, <2>2, <2>3, <3>3
    <3> QED
      BY <1>1, <2>2, <3>3, <3>4
  <2>5. CASE n # 0
    <3>1. (0..n) \ {n} = 0..n - 1 /\ n - 1 \in 0..m /\ n - 1 \notin Bad
      <4> HIDE DEF Bad
      <4> QED
        BY <2>1, <2>2, <2>5
    <3>2. SumsOf(h)[0..n - 1] = SumsOf(f)[upto(n - 1)]
      BY <3>1
    <3>3. upto(n) = part[n] \cup upto(n - 1)
      <4>1. 0..n = {n} \cup 0..n - 1
        BY <2>2, <3>1
      <4> QED
        BY <4>1
    <3>4. part[n] \cap upto(n - 1) = {} /\ part[n] \in SUBSET DOMAIN f
          /\ upto(n - 1) \in SUBSET DOMAIN f
      <4>1. \A d \in 0..n - 1 : d \in 0..m /\ d # n
        BY <2>2
      <4> QED
        BY <2>2, <4>1
    <3> HIDE DEF upto
    <3>5. SumsOf(f)[part[n] \cup upto(n - 1)] = SumsOf(f)[part[n]] + SumsOf(f)[upto(n - 1)]
      <4>1. \A t, u \in SUBSET DOMAIN f :
              t \cap u = {} => SumsOf(f)[t \cup u] = SumsOf(f)[t] + SumsOf(f)[u]
        BY SumOfBoth
      <4> QED
        BY <3>4, <4>1
    <3> QED
      BY <1>1, <2>2, <2>3, <3>1, <3>2, <3>3, <3>5
  <2> QED
    BY <2>4, <2>5
<1>3. SumsOf(h)[0..m] = SumsOf(f)[upto(m)]
  <2>1. m \in 0..m /\ m \notin Bad
    <3> HIDE DEF Bad
    <3> QED
      BY <1>2
  <2> QED
    BY <2>1
<1>4. Total(h) = SumsOf(h)[0..m]
  BY <1>1, TotalIsOfSums
<1>5. upto(m) = DOMAIN f
  <2>1. \A d \in 0..m : part[d] \subseteq DOMAIN f
    OBVIOUS
  <2>2. upto(m) \subseteq DOMAIN f
    BY <2>1
  <2>3. \A x \in DOMAIN f : x \in upto(m)
    OBVIOUS
  <2> HIDE DEF upto
  <2> QED
    BY <2>2, <2>3
<1>6. Total(f) = SumsOf(f)[upto(m)]
  BY <1>5, TotalIsOfSums
<1> QED
  BY <1>3, <1>4, <1>6
-----------------------------------------------------------------------------
(* A day and its rows: whatever is refused as out of range has none.       *)
DayOf(start) == [month |-> FALSE, start |-> start, days |-> 1]
Between(rows, from, to) == {r \in rows : from <= r.at /\ r.at < to}

LEMMA RowsOfDay ==
    ASSUME NEW start \in Int, (start - GenesisDay) % Day = 0, NEW now \in Int, NEW table,
           \A r \in table : /\ r.at \in Int /\ r.seen \in Int
                            /\ GenesisDay <= r.at /\ r.at <= r.seen
    PROVE  PeriodRows(DayOf(start), now, table) = Between(Seen(table, now), start, start + Day)
<1>1. Day \in Nat \ {0} /\ GenesisDay \in Int
  BY PeriodsAssumption
<1>2. End(DayOf(start)) = start + Day
  BY <1>1 DEF End, DayOf
<1>3. CASE OutOfRange(DayOf(start), now)
  <2>1. start < GenesisDay \/ start > now
    BY <1>3 DEF OutOfRange, DayOf
  <2>2. ASSUME start < GenesisDay PROVE start + Day <= GenesisDay
    <3>1. PICK e \in Int : start - GenesisDay = Day * e
      BY <1>1
    <3>2. e <= -1
      <4>1. \A x \in Int : x >= 0 => Day * x >= 0
        BY <1>1
      <4> QED
        BY <1>1, <2>2, <3>1, <4>1
    <3>3. Day * e <= Day * (-1)
      BY <1>1, <3>2
    <3> QED
      BY <1>1, <3>1, <3>3
  <2>3. \A r \in Seen(table, now) : ~(start <= r.at /\ r.at < start + Day)
    BY <1>1, <2>1, <2>2 DEF Seen
  <2> QED
    BY <1>3, <2>3 DEF PeriodRows, Between
<1>4. CASE ~OutOfRange(DayOf(start), now)
  BY <1>2, <1>4 DEF PeriodRows, Between, DayOf
<1> QED
  BY <1>3, <1>4

(* The days from a midnight on share no row, and have every row of theirs. *)
LEMMA DaysShareNothing ==
    ASSUME NEW start \in Int, NEW d \in Nat, NEW e \in Nat, d # e, NEW rows,
           \A r \in rows : r.at \in Int
    PROVE  Between(rows, start + d * Day, start + d * Day + Day)
             \cap Between(rows, start + e * Day, start + e * Day + Day) = {}
<1>1. Day \in Nat \ {0}
  BY PeriodsAssumption
<1>2. \A x, y \in Nat : x < y => x * Day + Day <= y * Day
  <2> SUFFICES ASSUME NEW x \in Nat, NEW y \in Nat, x < y PROVE x * Day + Day <= y * Day
    OBVIOUS
  <2>1. x * Day + Day = (x + 1) * Day /\ x + 1 <= y
    BY <1>1
  <2> QED
    BY <1>1, <2>1
<1>3. d * Day \in Int /\ e * Day \in Int /\ (d * Day + Day <= e * Day \/ e * Day + Day <= d * Day)
  BY <1>1, <1>2
<1> QED
  BY <1>1, <1>3 DEF Between

LEMMA DayOfRow ==
    ASSUME NEW start \in Int, NEW at \in Int, start <= at
    PROVE  LET d == (at - start) \div Day
           IN d \in Nat /\ start + d * Day <= at /\ at < start + d * Day + Day
<1>1. Day \in Nat \ {0} /\ at - start \in Nat
  BY PeriodsAssumption
<1> DEFINE d == (at - start) \div Day
<1>2. d \in Nat /\ d * Day <= at - start /\ at - start < d * Day + Day
  BY <1>1, Division
<1>3. d * Day \in Int
  BY <1>1, <1>2
<1> HIDE DEF d
<1> QED
  BY <1>1, <1>2, <1>3 DEF d

(* A month is its days (get_transactions_count.py:82-94).                  *)
LEMMA MonthsAreTheirDays ==
    ASSUME ask \in Ask, Next, Told(OfPeriod)' PROVE MonthIsItsDays'
<1> DEFINE p == ask.period
           rows == Seen(ask.table, ask.now)
           from(d) == p.start + d * Day
           part(d) == Between(rows, from(d), from(d) + Day)
           days == 0..p.days - 1
<1>1. /\ ask' = ask /\ answer'.rows = PeriodRows(p, ask.now, ask.table)
      /\ p.start \in Int /\ p.days \in Nat /\ ask.now \in Int /\ ask.kind \in OfPeriod
  BY PeriodIsAnswered DEF Told
<1>2. /\ (p.start - GenesisDay) % Day = 0
      /\ \A r \in ask.table : /\ r.at \in Int /\ r.seen \in Int
                              /\ GenesisDay <= r.at /\ r.at <= r.seen
      /\ Day \in Nat \ {0} /\ GenesisDay \in Int /\ GenesisMonth \in Int
  BY <1>1, AskAssumption, PeriodsAssumption
<1>3. ASSUME p.month, p.start >= GenesisMonth
      PROVE  /\ PeriodRows(p, ask.now, ask.table)
                  = UNION {PeriodRows(DayOf(from(d)), ask.now, ask.table) : d \in days}
             /\ \A d, e \in days : d # e =>
                  PeriodRows(DayOf(from(d)), ask.now, ask.table)
                    \cap PeriodRows(DayOf(from(e)), ask.now, ask.table) = {}
  <2>1. ASSUME NEW d \in days
        PROVE  d \in Nat /\ from(d) \in Int /\ PeriodRows(DayOf(from(d)), ask.now, ask.table) = part(d)
    <3>1. d \in Nat /\ d * Day \in Int /\ from(d) \in Int
      BY <1>1, <1>2
    <3>2. (from(d) - GenesisDay) % Day = 0
      <4> DEFINE x == p.start - GenesisDay
      <4>1. x \in Int /\ from(d) - GenesisDay = x + d * Day
        BY <1>1, <1>2, <3>1
      <4> HIDE DEF x
      <4>2. PICK q \in Int : x = q * Day
        <5>1. x % Day = 0
          BY <1>2 DEF x
        <5>2. \A y \in Int : y % Day = 0 => \E q \in Int : y = q * Day
          BY <1>2
        <5> QED
          BY <4>1, <5>1, <5>2
      <4>3. x + d * Day = (q + d) * Day /\ q + d \in Int
        BY <1>2, <3>1, <4>2
      <4>4. \A k \in Int : (k * Day) % Day = 0
        BY <1>2
      <4> QED
        BY <4>1, <4>3, <4>4
    <3> HIDE DEF from
    <3> QED
      BY <1>1, <1>2, <3>1, <3>2, RowsOfDay
  <2>2. \A d, e \in days : d # e => part(d) \cap part(e) = {}
    <3>1. \A r \in rows : r.at \in Int
      BY <1>2 DEF Seen
    <3> QED
      BY <1>1, <2>1, <3>1, DaysShareNothing
  <2>3. ASSUME NEW r \in PeriodRows(p, ask.now, ask.table) PROVE \E d \in days : r \in part(d)
    <3>1. r \in rows /\ p.start <= r.at /\ r.at < p.start + p.days * Day /\ r.at \in Int
      BY <1>1, <1>2, <2>3 DEF PeriodRows, Seen, End
    <3> DEFINE d == (r.at - p.start) \div Day
    <3>2. d \in Nat /\ p.start + d * Day <= r.at /\ r.at < p.start + d * Day + Day
      BY <1>1, <3>1, DayOfRow
    <3> HIDE DEF d
    <3>3. d < p.days
      <4>1. ASSUME p.days <= d PROVE FALSE
        <5>1. p.days * Day <= d * Day /\ p.days * Day \in Int /\ d * Day \in Int
          BY <1>1, <1>2, <3>2, <4>1
        <5> QED
          BY <1>1, <3>1, <3>2, <5>1
      <4> QED
        BY <1>1, <3>2, <4>1
    <3>4. d \in days /\ r \in part(d)
      BY <1>1, <3>1, <3>2, <3>3 DEF Between
    <3> QED
      BY <3>4
  <2>4. ASSUME NEW d \in days, NEW r \in part(d) PROVE r \in PeriodRows(p, ask.now, ask.table)
    <3>1. /\ r \in ask.table /\ r.at \in Int /\ r.seen \in Int /\ r.at <= r.seen
          /\ r.seen <= ask.now /\ p.start + d * Day <= r.at /\ r.at < p.start + d * Day + Day
      BY <1>2, <2>4 DEF Between, Seen
    <3>2. d * Day \in Nat /\ p.days * Day \in Nat /\ d * Day + Day <= p.days * Day
      <4>1. d \in Nat /\ d + 1 <= p.days /\ d * Day + Day = (d + 1) * Day
        BY <1>1, <1>2
      <4>2. (d + 1) * Day <= p.days * Day
        BY <1>1, <1>2, <4>1
      <4> QED
        BY <1>1, <1>2, <4>1, <4>2
    <3>3. p.start <= r.at /\ r.at < p.start + p.days * Day /\ p.start <= ask.now
      BY <1>1, <1>2, <3>1, <3>2
    <3>4. ~OutOfRange(p, ask.now)
      BY <1>1, <1>2, <1>3, <3>3 DEF OutOfRange
    <3> QED
      BY <3>1, <3>3, <3>4 DEF PeriodRows, Seen, End
  <2>5. PeriodRows(p, ask.now, ask.table) = UNION {part(d) : d \in days}
    BY <2>3, <2>4
  <2> HIDE DEF part, from
  <2> QED
    BY <2>1, <2>2, <2>5
<1> QED
  BY <1>1, <1>3 DEF MonthIsItsDays, DayOf

(* The total is that of the days (get_transactions_count.py:47-64).        *)
LEMMA TotalsAreTheirDays ==
    ASSUME ask \in Ask, Next, Told({"totals"})' PROVE TotalIsItsDays'
<1> DEFINE rows == Seen(ask.table, ask.now)
           f == [r \in rows |-> r.count]
           m == (ask.now - GenesisDay) \div Day
           from(d) == GenesisDay + d * Day
           part == [d \in 0..m |-> Between(rows, from(d), from(d) + Day)]
<1>1. ask' = ask /\ ask.kind = "totals" /\ GetTransactionCountTotals /\ answer'.code = 200
  BY OwnEndpoint DEF Told
<1>2. rows # {} /\ answer'.count = CountOf(rows)
  BY <1>1 DEF GetTransactionCountTotals, Reply, Failure
<1>3. /\ ask.now \in Int /\ IsFiniteSet(ask.table)
      /\ \A r \in ask.table : /\ r.at \in Int /\ r.seen \in Int /\ r.count \in Nat
                              /\ GenesisDay <= r.at /\ r.at <= r.seen
      /\ Day \in Nat \ {0} /\ GenesisDay \in Int
  BY <1>1, AskAssumption, PeriodsAssumption
<1>4. /\ DOMAIN f = rows /\ IsFiniteSet(rows) /\ rows \in SUBSET ask.table
      /\ \A r \in rows : f[r] = r.count /\ f[r] \in Int /\ r.at \in Int /\ r.at <= ask.now
  <2>1. rows \in SUBSET ask.table /\ \A r \in rows : r.seen <= ask.now
    BY DEF Seen
  <2>2. IsFiniteSet(rows)
    BY <1>3, <2>1, FS_Subset
  <2> QED
    BY <1>3, <2>1, <2>2
<1> HIDE DEF rows
<1>5. m \in Nat
  <2>1. ask.now - GenesisDay \in Nat
    BY <1>2, <1>3, <1>4
  <2> QED
    BY <1>3, <2>1
<1> HIDE DEF m
<1>6. part \in [0..m -> SUBSET DOMAIN f]
  BY <1>4 DEF Between
<1>7. \A d, e \in 0..m : d # e => part[d] \cap part[e] = {}
  <2> SUFFICES ASSUME NEW d \in 0..m, NEW e \in 0..m, d # e PROVE part[d] \cap part[e] = {}
    OBVIOUS
  <2>1. d \in Nat /\ e \in Nat
    BY <1>5
  <2>2. Between(rows, from(d), from(d) + Day) \cap Between(rows, from(e), from(e) + Day) = {}
    BY <1>3, <1>4, <2>1, DaysShareNothing
  <2> HIDE DEF from
  <2> QED
    BY <2>2
<1>8. ASSUME NEW r \in rows PROVE \E d \in 0..m : r \in part[d]
  <2> DEFINE d == (r.at - GenesisDay) \div Day
  <2>1. r.at \in Int /\ GenesisDay <= r.at /\ r.at <= ask.now
    BY <1>3, <1>4
  <2>2. d \in Nat /\ from(d) <= r.at /\ r.at < from(d) + Day
    BY <1>3, <2>1, DayOfRow
  <2>3. d <= m
    <3>1. \A x, y \in Int : x <= y => x \div Day <= y \div Day
      BY <1>3
    <3>2. r.at - GenesisDay \in Int /\ ask.now - GenesisDay \in Int
          /\ r.at - GenesisDay <= ask.now - GenesisDay
      BY <1>3, <2>1
    <3> QED
      BY <3>1, <3>2 DEF m
  <2> HIDE DEF d
  <2>4. d \in 0..m
    BY <1>5, <2>2, <2>3
  <2> QED
    BY <2>2, <2>4 DEF Between
<1>9. ASSUME NEW d \in 0..m
      PROVE  CountOf(PeriodRows(DayOf(from(d)), ask.now, ask.table)) = SumsOf(f)[part[d]]
  <2>1. PeriodRows(DayOf(from(d)), ask.now, ask.table) = part[d]
    <3>1. d \in Nat /\ d * Day \in Int /\ from(d) \in Int /\ from(d) - GenesisDay = d * Day
      BY <1>3, <1>5
    <3>2. \A k \in Int : (k * Day) % Day = 0
      BY <1>3
    <3>3. (from(d) - GenesisDay) % Day = 0
      BY <3>1, <3>2
    <3>4. PeriodRows(DayOf(from(d)), ask.now, ask.table) = Between(rows, from(d), from(d) + Day)
      <4> HIDE DEF from
      <4> QED
        BY <1>3, <3>1, <3>3, RowsOfDay DEF rows
    <3> QED
      BY <3>4
  <2>2. part[d] \in SUBSET DOMAIN f
    BY <1>6
  <2>3. \A r \in part[d] : f[r] = r.count
    BY <1>4, <2>2
  <2> HIDE DEF part, f, from
  <2>4. [r \in part[d] |-> f[r]] = [r \in part[d] |-> r.count]
    BY <2>3
  <2>5. Total([r \in part[d] |-> f[r]]) = SumsOf(f)[part[d]]
    BY <1>4, <2>2, TotalOfPart
  <2> QED
    BY <2>1, <2>4, <2>5 DEF CountOf
<1>10. CountOf(rows) = Total(f)
  BY DEF CountOf
<1> DEFINE h == [d \in 0..m |-> CountOf(PeriodRows(DayOf(from(d)), ask.now, ask.table))]
<1>11. Total(h) = Total(f)
  <2>1. IsFiniteSet(DOMAIN f) /\ \A r \in DOMAIN f : f[r] \in Int
    BY <1>4
  <2>2. DOMAIN h = 0..m /\ \A d \in 0..m : h[d] = SumsOf(f)[part[d]]
    <3> HIDE DEF part, f, from
    <3> QED
      BY <1>9
  <2>3. \A r \in DOMAIN f : \E d \in 0..m : r \in part[d]
    BY <1>4, <1>8
  <2> HIDE DEF part, f, h
  <2> QED
    BY <1>5, <1>6, <1>7, <2>1, <2>2, <2>3, TotalOfParts
<1> QED
  BY <1>1, <1>2, <1>10, <1>11 DEF TotalIsItsDays, DayOf, m
-----------------------------------------------------------------------------
(* The rows above any other, when no two have the same time, are those     *)
(* that fewer rows are newer than.                                         *)
Newer(rows, r) == {s \in rows : s.at > r.at}

LEMMA RankOfRow ==
    ASSUME NEW rows, IsFiniteSet(rows), \A r \in rows : r.at \in Int,
           \A r, s \in rows : r.at = s.at => r = s,
           NEW S \in SUBSET rows, \A s \in S, r \in rows \ S : s.at >= r.at,
           NEW r \in rows
    PROVE  /\ Cardinality(Newer(rows, r)) \in Nat /\ Cardinality(S) \in Nat
           /\ r \in S <=> Cardinality(Newer(rows, r)) < Cardinality(S)
<1> DEFINE N == Newer(rows, r)
<1>1. N \in SUBSET rows /\ IsFiniteSet(N) /\ IsFiniteSet(S)
  <2>1. N \in SUBSET rows
    BY DEF Newer
  <2> QED
    BY <2>1, FS_Subset
<1>2. Cardinality(N) \in Nat /\ Cardinality(S) \in Nat
  BY <1>1, FS_CardinalityType
<1>3. ASSUME r \in S PROVE Cardinality(N) < Cardinality(S)
  <2>1. N \subseteq S \ {r}
    <3> SUFFICES ASSUME NEW s \in N PROVE s \in S /\ s # r
      OBVIOUS
    <3>1. s \in rows /\ s.at > r.at /\ s.at \in Int /\ r.at \in Int
      BY DEF Newer
    <3> QED
      BY <1>3, <3>1
  <2>2. IsFiniteSet(S \ {r}) /\ Cardinality(S \ {r}) = Cardinality(S) - 1
    BY <1>1, <1>3, FS_RemoveElement
  <2>3. Cardinality(N) <= Cardinality(S \ {r})
    BY <2>1, <2>2, FS_Subset
  <2> QED
    BY <1>2, <2>2, <2>3
<1>4. ASSUME r \notin S PROVE Cardinality(S) <= Cardinality(N)
  <2>1. S \subseteq N
    <3> SUFFICES ASSUME NEW s \in S PROVE s \in N
      OBVIOUS
    <3>1. s.at >= r.at /\ s # r /\ s \in rows /\ s.at \in Int /\ r.at \in Int
      BY <1>4
    <3>2. s.at # r.at
      BY <3>1
    <3> QED
      BY <3>1, <3>2 DEF Newer
  <2> QED
    BY <1>1, <2>1, FS_Subset
<1> HIDE DEF N
<1>5. r \in S <=> Cardinality(N) < Cardinality(S)
  BY <1>2, <1>3, <1>4
<1> QED
  BY <1>2, <1>5 DEF N

LEMMA MinOfTwo ==
    ASSUME NEW a \in Nat, NEW b \in Nat
    PROVE  Min({a, b}) = IF a <= b THEN a ELSE b
BY DEF Min

(* A page has the rows that as many are newer than as it is offset by, and *)
(* fewer than what the next begins with (get_address_transactions.py:      *)
(* 72-95).                                                                 *)
LEMMA PageIsRanked ==
    ASSUME NEW rows, IsFiniteSet(rows), \A r \in rows : r.at \in Int,
           \A r, s \in rows : r.at = s.at => r = s,
           NEW offset \in Nat, NEW limit \in Nat, NEW P \in OffsetPages(offset, limit, rows)
    PROVE  P = {r \in rows : Cardinality(Newer(rows, r)) \in offset..offset + limit - 1}
<1> DEFINE n == Cardinality(rows)
<1>1. n \in Nat
  BY FS_CardinalityType
<1>2. PICK skipped \in SUBSET (rows \ P) :
        /\ Cardinality(skipped) = Min({offset, n})
        /\ Cardinality(P) = Min({limit, Cardinality(rows \ skipped)})
        /\ \A s \in skipped, r \in rows \ skipped : s.at >= r.at
        /\ \A p \in P, r \in rows \ (skipped \cup P) : p.at >= r.at
  BY DEF OffsetPages
<1>3. P \in SUBSET rows /\ skipped \in SUBSET rows /\ skipped \cap P = {}
  BY DEF OffsetPages
<1> DEFINE a == Cardinality(skipped)
           upper == skipped \cup P
<1>4. IsFiniteSet(P) /\ IsFiniteSet(skipped) /\ upper \in SUBSET rows
  BY <1>3, FS_Subset
<1>5. a = IF offset <= n THEN offset ELSE n
  BY <1>1, <1>2, MinOfTwo
<1>6. Cardinality(rows \ skipped) = n - a
  <2>1. rows \cap skipped = skipped
    BY <1>3
  <2>2. Cardinality(rows \ skipped) = Cardinality(rows) - Cardinality(rows \cap skipped)
    BY FS_Difference
  <2> QED
    BY <2>1, <2>2
<1>7. a \in Nat /\ n - a \in Nat
  BY <1>1, <1>5
<1>8. Cardinality(P) = IF limit <= n - a THEN limit ELSE n - a
  BY ZenonT(40), <1>2, <1>6, <1>7, MinOfTwo
<1>9. Cardinality(upper) = a + Cardinality(P)
  <2>1. Cardinality(skipped \cup P)
          = Cardinality(skipped) + Cardinality(P) - Cardinality(skipped \cap P)
    BY <1>4, FS_Union
  <2>2. Cardinality(skipped \cap P) = 0
    BY <1>3, FS_EmptySet
  <2> QED
    BY <1>7, <1>8, <2>1, <2>2
<1>10. \A s \in upper, r \in rows \ upper : s.at >= r.at
  BY <1>2
<1>11. ASSUME NEW r \in rows
       PROVE  r \in P <=> Cardinality(Newer(rows, r)) \in offset..offset + limit - 1
  <2> DEFINE k == Cardinality(Newer(rows, r))
  <2>1. k \in Nat /\ (r \in skipped <=> k < a)
    BY <1>2, <1>3, RankOfRow
  <2>2. r \in upper <=> k < Cardinality(upper)
    BY <1>4, <1>10, RankOfRow
  <2>3. k < n
    <3>1. \A s \in rows, t \in rows \ rows : s.at >= t.at
      OBVIOUS
    <3> QED
      BY <3>1, RankOfRow
  <2> HIDE DEF k, n, a
  <2>4. r \in P <=> k < Cardinality(upper) /\ ~(k < a)
    BY <1>3, <2>1, <2>2
  <2>5. r \in P <=> k \in offset..offset + limit - 1
    BY <1>1, <1>5, <1>7, <1>8, <1>9, <2>1, <2>3, <2>4
  <2> QED
    BY <2>5 DEF k
<1> QED
  BY <1>3, <1>11

LEMMA PagesArePartition ==
    ASSUME ask \in Ask, Next, Told({"offset"})' PROVE PagesPartition'
<1> DEFINE rows == Seen(ask.table, ask.now)
<1>1. ask' = ask /\ ask.kind = "offset" /\ GetFullTransactions /\ answer'.code = 200
  BY OwnEndpoint DEF Told
<1>2. PICK page \in OffsetPages(ask.offset, ask.limit, rows) :
        answer' = IF ~ask.valid THEN Failure(400)
                  ELSE IF Cardinality(page) > SearchLimit THEN Failure(422)
                  ELSE [code |-> 200, body |-> page \cap ask.stored,
                        max_age |-> OffsetMaxAge(ask.offset, page, ask.now)]
  BY <1>1 DEF GetFullTransactions, Reply
<1>3. answer'.body = page \cap ask.stored
  BY <1>1, <1>2 DEF Failure
<1>4. /\ ask.offset \in Nat /\ ask.limit \in Nat
      /\ IsFiniteSet(ask.table) /\ \A r \in ask.table : r.at \in Int
  BY <1>1, AskAssumption
<1>5. ASSUME \A r, s \in ask.table : r.at = s.at => r = s
      PROVE  page = {r \in ask.table : r.seen <= ask.now
                       /\ Cardinality({s \in ask.table : s.seen <= ask.now /\ s.at > r.at})
                             \in ask.offset..ask.offset + ask.limit - 1}
  <2>1. rows \in SUBSET ask.table
    BY DEF Seen
  <2>2. IsFiniteSet(rows)
    BY <1>4, <2>1, FS_Subset
  <2>3. page = {r \in rows : Cardinality(Newer(rows, r)) \in ask.offset..ask.offset + ask.limit - 1}
    <3>1. /\ \A r \in rows : r.at \in Int
          /\ \A r, s \in rows : r.at = s.at => r = s
      BY <1>4, <1>5, <2>1
    <3> HIDE DEF rows
    <3> QED
      BY <1>2, <1>4, <2>2, <3>1, PageIsRanked
  <2>4. \A r \in ask.table :
          Newer(rows, r) = {s \in ask.table : s.seen <= ask.now /\ s.at > r.at}
    BY DEF Newer, Seen
  <2> QED
    BY <2>3, <2>4 DEF Seen
<1> QED
  BY <1>1, <1>3, <1>5 DEF PagesPartition

(* What is answered in parts is the whole: the days of a month and of all  *)
(* time, and the pages of an address (get_transactions_count.py:47-118,    *)
(* get_address_transactions.py:70-111).                                    *)
THEOREM PagesAlwaysAddUp == Spec => []PagesAddUp
<1> USE DEF PagesAddUp, MonthIsItsDays, TotalIsItsDays, PagesPartition
<1>1. Init => PagesAddUp
  BY DEF Init, Told, Waiting
<1>2. AskKept /\ PagesAddUp /\ [Next]_vars => PagesAddUp'
  <2> SUFFICES ASSUME ask \in Ask, PagesAddUp, [Next]_vars
               PROVE  PagesAddUp'
    BY DEF AskKept
  <2>1. CASE UNCHANGED vars
    BY <2>1 DEF vars, Told
  <2>2. CASE Next
    <3>1. MonthIsItsDays'
      BY <2>2, MonthsAreTheirDays
    <3>2. TotalIsItsDays'
      BY <2>2, TotalsAreTheirDays
    <3>3. PagesPartition'
      BY <2>2, PagesArePartition
    <3> HIDE DEF MonthIsItsDays, TotalIsItsDays, PagesPartition
    <3> QED
      BY <3>1, <3>2, <3>3
  <2> QED
    BY <2>1, <2>2
<1> HIDE DEF PagesAddUp
<1> QED
  BY <1>1, <1>2, AskStays, PTL DEF Spec
-----------------------------------------------------------------------------
LEMMA TotalsAgree ==
    ASSUME NEW f, NEW g, DOMAIN f = DOMAIN g, IsFiniteSet(DOMAIN f), \A x \in DOMAIN f : f[x] = g[x]
    PROVE  Total(f) = Total(g)
BY TotalIsOfSums, SumsAgree

(* A sum of natural numbers is at least each of them, and any two.         *)
LEMMA SumIsNatural ==
    ASSUME NEW f, IsFiniteSet(DOMAIN f), \A x \in DOMAIN f : f[x] \in Nat,
           NEW s \in SUBSET DOMAIN f
    PROVE  SumsOf(f)[s] \in Nat
<1> DEFINE D == DOMAIN f
           Bad == {n \in Nat : \E t \in SUBSET D : Cardinality(t) = n /\ SumsOf(f)[t] \notin Nat}
<1>1. ASSUME Bad # {} PROVE FALSE
  <2>1. PICK n \in Bad : \A j \in Bad : n <= j
    BY <1>1, LeastNatural
  <2>2. PICK t \in SUBSET D : Cardinality(t) = n /\ SumsOf(f)[t] \notin Nat
    BY <2>1
  <2>3. t # {}
    <3>1. SumsOf(f)[{}] = 0
      BY SumsOfPart
    <3> QED
      BY <2>2, <3>1
  <2> DEFINE x == Some(t)
  <2>4. x \in t /\ SumsOf(f)[t] = f[x] + SumsOf(f)[t \ {x}]
    BY <2>3, SomeIsIn, SumsOfPart
  <2> HIDE DEF x
  <2>5. t \ {x} \in SUBSET D /\ Cardinality(t \ {x}) = n - 1 /\ n - 1 \in Nat
    BY <2>2, <2>4, SmallerPart
  <2>6. SumsOf(f)[t \ {x}] \in Nat
    <3>1. n - 1 \notin Bad
      BY <2>1, <2>5
    <3> QED
      BY <2>5, <3>1
  <2> QED
    BY <2>2, <2>4, <2>6
<1>2. Cardinality(s) \in Nat
  BY FS_Subset, FS_CardinalityType
<1> QED
  BY <1>1, <1>2

LEMMA TotalIsAtLeast ==
    ASSUME NEW f, IsFiniteSet(DOMAIN f), \A x \in DOMAIN f : f[x] \in Nat
    PROVE  /\ Total(f) \in Nat
           /\ \A x \in DOMAIN f : f[x] <= Total(f)
           /\ \A x, y \in DOMAIN f : x # y => f[x] + f[y] <= Total(f)
<1> DEFINE D == DOMAIN f
<1>1. \A x \in D : f[x] \in Int
  OBVIOUS
<1>2. Total(f) = SumsOf(f)[D]
  BY TotalIsOfSums
<1>3. \A s \in SUBSET D : SumsOf(f)[s] \in Nat
  BY SumIsNatural
<1>4. \A s \in SUBSET D : \A x \in s : SumsOf(f)[s] = f[x] + SumsOf(f)[s \ {x}]
  BY <1>1, SumWithout
<1>5. ASSUME NEW x \in D, NEW y \in D, x # y PROVE f[x] + f[y] <= Total(f)
  <2>1. SumsOf(f)[D] = f[x] + SumsOf(f)[D \ {x}]
    BY <1>4
  <2>2. SumsOf(f)[D \ {x}] = f[y] + SumsOf(f)[(D \ {x}) \ {y}]
    BY <1>4, <1>5
  <2>3. SumsOf(f)[(D \ {x}) \ {y}] \in Nat
    BY <1>3
  <2> QED
    BY <1>2, <2>1, <2>2, <2>3
<1>6. ASSUME NEW x \in D PROVE f[x] <= Total(f)
  <2>1. SumsOf(f)[D] = f[x] + SumsOf(f)[D \ {x}] /\ SumsOf(f)[D \ {x}] \in Nat
    BY <1>3, <1>4
  <2> QED
    BY <1>2, <2>1
<1> QED
  BY <1>2, <1>3, <1>5, <1>6

LEMMA TotalOfOne ==
    ASSUME NEW f, NEW x, DOMAIN f = {x}, f[x] \in Int
    PROVE  Total(f) = f[x]
<1>1. IsFiniteSet({x})
  BY FS_Singleton
<1>2. SumsOf(f)[{x}] = f[x] + SumsOf(f)[{x} \ {x}]
  <2>1. \A y \in DOMAIN f : f[y] \in Int
    OBVIOUS
  <2>2. {x} \in SUBSET DOMAIN f /\ x \in {x}
    OBVIOUS
  <2> QED
    BY <1>1, <2>1, <2>2, SumWithout
<1>3. {x} \ {x} = {} /\ SumsOf(f)[{}] = 0
  BY <1>1, SumsOfPart
<1>4. SumsOf(f)[{x}] = f[x]
  BY <1>2, <1>3
<1> QED
  BY <1>4, TotalIsOfSums

(* To split a value in two changes the sum by what the parts differ.       *)
LEMMA TotalOfSplit ==
    ASSUME NEW n \in Nat, NEW f, DOMAIN f = 1..n, \A j \in 1..n : f[j] \in Int,
           NEW g, DOMAIN g = 1..n + 1, \A j \in 1..n + 1 : g[j] \in Int,
           NEW i \in 1..n, \A j \in 1..n : j # i => g[j] = f[j]
    PROVE  Total(g) = Total(f) - f[i] + g[i] + g[n + 1]
<1> DEFINE rest == (1..n) \ {i}
<1>1. IsFiniteSet(1..n) /\ IsFiniteSet(1..n + 1)
  BY FS_Interval
<1>2. 1..n \in SUBSET (1..n + 1) /\ n + 1 \in 1..n + 1 /\ (1..n + 1) \ {n + 1} = 1..n
      /\ rest \in SUBSET (1..n) /\ rest \in SUBSET (1..n + 1)
  OBVIOUS
<1>10. \A s \in SUBSET DOMAIN g : \A x \in s : SumsOf(g)[s] = g[x] + SumsOf(g)[s \ {x}]
  <2>1. IsFiniteSet(DOMAIN g) /\ \A x \in DOMAIN g : g[x] \in Int
    BY <1>1
  <2> QED
    BY <2>1, SumWithout
<1>11. \A s \in SUBSET DOMAIN f : \A x \in s : SumsOf(f)[s] = f[x] + SumsOf(f)[s \ {x}]
  <2>1. IsFiniteSet(DOMAIN f) /\ \A x \in DOMAIN f : f[x] \in Int
    BY <1>1
  <2> QED
    BY <2>1, SumWithout
<1>3. SumsOf(g)[1..n + 1] = g[n + 1] + SumsOf(g)[1..n]
  BY SMTT(30), <1>2, <1>10
<1>4. SumsOf(g)[1..n] = g[i] + SumsOf(g)[rest]
  BY <1>2, <1>10
<1>5. SumsOf(f)[1..n] = f[i] + SumsOf(f)[rest]
  BY <1>2, <1>11
<1>6. SumsOf(f)[rest] = SumsOf(g)[rest]
  <2>1. rest \subseteq DOMAIN f /\ rest \subseteq DOMAIN g /\ \A j \in rest : f[j] = g[j]
    BY <1>2
  <2> HIDE DEF rest
  <2> QED
    BY SMTT(30), <1>1, <2>1, SumsAgree
<1>7. SumsOf(f)[rest] \in Int
  BY <1>1, <1>2, SumIsInt
<1>8. f[i] \in Int /\ g[i] \in Int /\ g[n + 1] \in Int
  BY <1>2
<1>9. Total(f) = SumsOf(f)[1..n] /\ Total(g) = SumsOf(g)[1..n + 1]
  BY TotalIsOfSums
<1> HIDE DEF rest
<1> QED
  BY <1>3, <1>4, <1>5, <1>6, <1>7, <1>8, <1>9

LEMMA AtLeastTheQuotient ==
    ASSUME NEW x \in Int, NEW k \in Nat \ {0}, NEW q \in Int, q * k <= x
    PROVE  q <= x \div k
<1> DEFINE d == x \div k
<1>1. d \in Int /\ x < d * k + k
  BY Division
<1> HIDE DEF d
<1> DEFINE e == d + 1
<1>2. e \in Int /\ e * k = d * k + k
  BY <1>1
<1> HIDE DEF e
<1>4. (e - q) * k = e * k - q * k
  BY <1>2
<1>5. (e - q) * k > 0
  <2>1. d * k \in Int /\ q * k \in Int
    BY <1>1
  <2> QED
    BY <1>1, <1>2, <1>4, <2>1
<1>6. \A y \in Int : y * k > 0 => y > 0
  OBVIOUS
<1>7. e - q \in Int /\ e - q > 0
  BY <1>2, <1>5, <1>6
<1>8. e = d + 1
  BY DEF e
<1> QED
  BY <1>1, <1>7, <1>8 DEF d

(* A share of less, and one among more, is less.                           *)
LEMMA SharesCompare ==
    ASSUME NEW x \in Nat, NEW y \in Nat, x <= y,
           NEW k \in Nat \ {0}, NEW l \in Nat \ {0}, l <= k
    PROVE  x \div k <= y \div l /\ x \div k \in Nat /\ y \div l \in Nat
<1> DEFINE d == x \div k
<1>1. d \in Nat /\ d * k <= x
  <2>1. d \in Int /\ d * k <= x
    BY Division
  <2>2. d \in Nat
    <3>1. 0 * k <= x
      OBVIOUS
    <3>2. 0 <= d
      BY <3>1, AtLeastTheQuotient
    <3> QED
      BY <2>1, <3>2
  <2> QED
    BY <2>1, <2>2
<1> HIDE DEF d
<1>2. d * l <= d * k
  BY <1>1
<1>3. d * l <= y
  <2>1. d * l \in Int /\ d * k \in Int
    BY <1>1
  <2> QED
    BY <1>1, <1>2, <2>1
<1>4. d <= y \div l
  BY <1>1, <1>3, AtLeastTheQuotient
<1>5. y \div l \in Int
  BY Division
<1> QED
  BY <1>1, <1>4, <1>5 DEF d

(* Half of the divisor, twice the share.                                   *)
LEMMA HalfTheDivisor ==
    ASSUME NEW x \in Nat, NEW k \in Nat \ {0}, NEW l \in Nat \ {0}, 2 * l <= k
    PROVE  2 * (x \div k) <= x \div l
<1> DEFINE d == x \div k
<1>1. d \in Nat /\ d * k <= x
  <2>1. d \in Int /\ d * k <= x
    BY Division
  <2>2. d \in Nat
    BY SharesCompare
  <2> QED
    BY <2>1, <2>2
<1> HIDE DEF d
<1>2. d * (2 * l) <= d * k
  BY <1>1
<1>3. (2 * d) * l = d * (2 * l) /\ d * (2 * l) \in Int /\ d * k \in Int
  BY <1>1
<1>4. (2 * d) * l <= x
  BY <1>1, <1>2, <1>3
<1>5. 2 * d <= x \div l
  BY <1>1, <1>4, AtLeastTheQuotient
<1> QED
  BY <1>5 DEF d

LEMMA GreatestOfTwo ==
    ASSUME NEW x \in Int, NEW y \in Int
    PROVE  /\ Greatest({x, y}) \in {x, y}
           /\ x <= Greatest({x, y}) /\ y <= Greatest({x, y})
<1> DEFINE IsGreatest(m) == m \in {x, y} /\ \A z \in {x, y} : z <= m
<1>1. \E m : IsGreatest(m)
  <2>1. CASE x <= y
    <3>1. IsGreatest(y)
      BY <2>1
    <3> QED
      BY <3>1
  <2>2. CASE y <= x
    <3>1. IsGreatest(x)
      BY <2>2
    <3> QED
      BY <3>1
  <2> QED
    BY <2>1, <2>2
<1>2. Greatest({x, y}) = CHOOSE m : IsGreatest(m)
  BY DEF Greatest
<1>3. IsGreatest(Greatest({x, y}))
  <2> HIDE DEF IsGreatest
  <2> QED
    BY <1>1, <1>2
<1> QED
  BY <1>3
-----------------------------------------------------------------------------
Cells == [p : Nat \ {0}, v : Nat \ {0}]
Weight(p, v) == (C * p * p) \div v

LEMMA WeightsCompare ==
    ASSUME NEW p \in Nat, NEW q \in Nat, p <= q,
           NEW v \in Nat \ {0}, NEW w \in Nat \ {0}, w <= v
    PROVE  Weight(p, v) \in Nat /\ Weight(q, w) \in Nat /\ Weight(p, v) <= Weight(q, w)
<1>1. C \in Nat
  BY MassAssumption
<1>2. C * p * p \in Nat /\ C * q * q \in Nat
  BY <1>1
<1>3. C * p * p <= C * q * q
  <2>1. p * p <= q * q /\ p * p \in Nat /\ q * q \in Nat
    OBVIOUS
  <2>2. C * (p * p) <= C * (q * q)
    BY <1>1, <2>1
  <2>3. C * p * p = C * (p * p) /\ C * q * q = C * (q * q)
    BY <1>1
  <2> QED
    BY <2>2, <2>3
<1> QED
  BY <1>2, <1>3, SharesCompare DEF Weight

(* The three sums over cells are sums of natural numbers.                  *)
WeightsOf(s) == [i \in DOMAIN s |-> Weight(s[i].p, s[i].v)]
PluralitiesOf(s) == [i \in DOMAIN s |-> s[i].p]
AmountsOf(s) == [i \in DOMAIN s |-> s[i].v]

LEMMA SumsOverCells ==
    ASSUME NEW s \in Seq(Cells)
    PROVE  /\ Harmonic(s) = Total(WeightsOf(s)) /\ Plurality(s) = Total(PluralitiesOf(s))
           /\ Amounts(s) = Total(AmountsOf(s))
           /\ DOMAIN s = 1..Len(s) /\ IsFiniteSet(DOMAIN s)
           /\ \A i \in DOMAIN s : /\ s[i].p \in Nat \ {0} /\ s[i].v \in Nat \ {0}
                                  /\ Weight(s[i].p, s[i].v) \in Nat
           /\ Harmonic(s) \in Nat /\ Plurality(s) \in Nat /\ Total(AmountsOf(s)) \in Nat
<1>1. DOMAIN s = 1..Len(s) /\ IsFiniteSet(DOMAIN s)
  <2>1. Len(s) \in Nat /\ DOMAIN s = 1..Len(s)
    OBVIOUS
  <2> QED
    BY <2>1, FS_Interval
<1>2. \A i \in DOMAIN s : /\ s[i].p \in Nat \ {0} /\ s[i].v \in Nat \ {0}
                          /\ Weight(s[i].p, s[i].v) \in Nat
  <2> SUFFICES ASSUME NEW i \in DOMAIN s
               PROVE  /\ s[i].p \in Nat \ {0} /\ s[i].v \in Nat \ {0}
                      /\ Weight(s[i].p, s[i].v) \in Nat
    OBVIOUS
  <2>1. s[i] \in Cells
    BY <1>1
  <2>2. s[i].p \in Nat \ {0} /\ s[i].v \in Nat \ {0}
    BY <2>1 DEF Cells
  <2>3. Weight(s[i].p, s[i].v) \in Nat
    <3>1. s[i].p \in Nat /\ s[i].p <= s[i].p /\ s[i].v <= s[i].v
      BY <2>2
    <3> QED
      BY ONLY <2>2, <3>1, WeightsCompare
  <2> QED
    BY <2>2, <2>3
<1>3. Harmonic(s) = Total(WeightsOf(s)) /\ Plurality(s) = Total(PluralitiesOf(s))
      /\ Amounts(s) = Total(AmountsOf(s))
  <2> DEFINE f == [i \in DOMAIN s |-> FloorDiv(C * s[i].p * s[i].p, s[i].v)]
  <2>1. Harmonic(s) = Total(f)
    BY DEF Harmonic, Over
  <2>2. \A i \in DOMAIN s : FloorDiv(C * s[i].p * s[i].p, s[i].v) = Weight(s[i].p, s[i].v)
    <3> SUFFICES ASSUME NEW i \in DOMAIN s
                 PROVE  FloorDiv(C * s[i].p * s[i].p, s[i].v) = Weight(s[i].p, s[i].v)
      OBVIOUS
    <3>1. s[i].v > 0
      BY <1>2
    <3> QED
      BY <3>1 DEF FloorDiv, Weight
  <2>3. f = WeightsOf(s)
    BY <2>2 DEF WeightsOf
  <2>4. Plurality(s) = Total(PluralitiesOf(s)) /\ Amounts(s) = Total(AmountsOf(s))
    BY DEF Plurality, Amounts, Over, PluralitiesOf, AmountsOf
  <2> QED
    BY <2>1, <2>3, <2>4
<1>4. Total(WeightsOf(s)) \in Nat
  <2>1. DOMAIN WeightsOf(s) = DOMAIN s /\ \A i \in DOMAIN s : WeightsOf(s)[i] \in Nat
    BY <1>2 DEF WeightsOf
  <2> QED
    BY <1>1, <2>1, TotalIsAtLeast
<1>5. Total(PluralitiesOf(s)) \in Nat
  <2>1. DOMAIN PluralitiesOf(s) = DOMAIN s /\ \A i \in DOMAIN s : PluralitiesOf(s)[i] \in Nat
    BY <1>2 DEF PluralitiesOf
  <2> QED
    BY <1>1, <2>1, TotalIsAtLeast
<1>6. Total(AmountsOf(s)) \in Nat
  <2>1. DOMAIN AmountsOf(s) = DOMAIN s /\ \A i \in DOMAIN s : AmountsOf(s)[i] \in Nat
    BY <1>2 DEF AmountsOf
  <2> QED
    BY <1>1, <2>1, TotalIsAtLeast
<1> QED
  BY <1>1, <1>2, <1>3, <1>4, <1>5, <1>6

(* Each cell, and any two, are part of these sums.                         *)
LEMMA CellsArePart ==
    ASSUME NEW s \in Seq(Cells), NEW i \in DOMAIN s
    PROVE  /\ Weight(s[i].p, s[i].v) <= Harmonic(s)
           /\ s[i].p <= Plurality(s)
           /\ s[i].v <= Total(AmountsOf(s))
           /\ \A j \in DOMAIN s : i # j =>
                 /\ s[i].p + s[j].p <= Plurality(s)
                 /\ s[i].v + s[j].v <= Total(AmountsOf(s))
           /\ DOMAIN s = {i} => /\ Harmonic(s) = Weight(s[i].p, s[i].v)
                                /\ Plurality(s) = s[i].p
                                /\ Total(AmountsOf(s)) = s[i].v
<1>1. /\ Harmonic(s) = Total(WeightsOf(s)) /\ Plurality(s) = Total(PluralitiesOf(s))
      /\ IsFiniteSet(DOMAIN s)
      /\ \A j \in DOMAIN s : /\ s[j].p \in Nat /\ s[j].v \in Nat
                             /\ Weight(s[j].p, s[j].v) \in Nat
  BY SumsOverCells
<1> DEFINE f == WeightsOf(s)
           g == PluralitiesOf(s)
           h == AmountsOf(s)
<1>2. /\ DOMAIN f = DOMAIN s /\ DOMAIN g = DOMAIN s /\ DOMAIN h = DOMAIN s
      /\ \A j \in DOMAIN s : f[j] = Weight(s[j].p, s[j].v) /\ g[j] = s[j].p /\ h[j] = s[j].v
  BY DEF WeightsOf, PluralitiesOf, AmountsOf
<1> HIDE DEF f, g, h
<1>3. /\ \A j \in DOMAIN f : f[j] \in Nat
      /\ \A j \in DOMAIN g : g[j] \in Nat
      /\ \A j \in DOMAIN h : h[j] \in Nat
  BY <1>1, <1>2
<1>4. f[i] <= Total(f)
  BY <1>1, <1>2, <1>3, TotalIsAtLeast
<1>5. g[i] <= Total(g) /\ \A j \in DOMAIN g : i # j => g[i] + g[j] <= Total(g)
  BY <1>1, <1>2, <1>3, TotalIsAtLeast
<1>6. h[i] <= Total(h) /\ \A j \in DOMAIN h : i # j => h[i] + h[j] <= Total(h)
  BY <1>1, <1>2, <1>3, TotalIsAtLeast
<1>7. ASSUME DOMAIN s = {i} PROVE Total(f) = f[i] /\ Total(g) = g[i] /\ Total(h) = h[i]
  <2>1. f[i] \in Int /\ g[i] \in Int /\ h[i] \in Int
    BY <1>2, <1>3
  <2> QED
    BY <1>2, <1>7, <2>1, TotalOfOne
<1> QED
  BY <1>1, <1>2, <1>4, <1>5, <1>6, <1>7 DEF f, g, h

LEMMA SplitCells ==
    ASSUME NEW s \in Seq(Cells), NEW i \in DOMAIN s, NEW part \in 1..s[i].v - 1
    PROVE  LET t == Split(s, i, part)
               n == Len(s)
           IN /\ t \in Seq(Cells) /\ DOMAIN t = 1..n + 1
              /\ t[i].p = s[i].p /\ t[i].v = part
              /\ t[n + 1].p = s[i].p /\ t[n + 1].v = s[i].v - part
              /\ \A j \in 1..n : j # i => t[j] = s[j]
<1> DEFINE n == Len(s)
           v == s[i].v
           a == [s EXCEPT ![i].v = part]
           c == [s[i] EXCEPT !.v = @ - part]
<1>1. n \in Nat /\ DOMAIN s = 1..n /\ s[i] \in Cells /\ v \in Nat /\ part \in Nat \ {0}
      /\ v - part \in Nat \ {0}
  <2>1. n \in Nat /\ DOMAIN s = 1..n
    OBVIOUS
  <2>2. s[i] \in Cells
    BY <2>1
  <2>3. v \in Nat
    BY <2>2 DEF Cells
  <2> QED
    BY <2>1, <2>2, <2>3
<1>2. c \in Cells /\ c.p = s[i].p /\ c.v = v - part
  BY <1>1 DEF Cells
<1>3. DOMAIN a = 1..n /\ a[i] = [s[i] EXCEPT !.v = part] /\ \A j \in 1..n : j # i => a[j] = s[j]
  BY <1>1
<1>4. a[i] \in Cells /\ a[i].p = s[i].p /\ a[i].v = part
  BY <1>1, <1>3 DEF Cells
<1>5. a \in Seq(Cells) /\ Len(a) = n
  <2>1. a = [j \in 1..n |-> a[j]]
    BY <1>1
  <2>2. \A j \in 1..n : s[j] \in Cells
    BY <1>1
  <2>3. \A j \in 1..n : a[j] \in Cells
    BY <1>3, <1>4, <2>2
  <2> HIDE DEF a
  <2>4. a \in [1..n -> Cells]
    BY <2>1, <2>3
  <2> QED
    BY <1>1, <2>4
<1> HIDE DEF a, c
<1>6. LET t == Append(a, c) IN
      /\ t \in Seq(Cells) /\ DOMAIN t = 1..n + 1 /\ t[n + 1] = c
      /\ \A j \in 1..n : t[j] = a[j]
  BY <1>1, <1>2, <1>5
<1>7. Split(s, i, part) = Append(a, c)
  BY DEF Split, a, c
<1>8. i \in 1..n
  BY <1>1
<1> QED
  BY <1>2, <1>3, <1>4, <1>6, <1>7, <1>8

LEMMA SplitWeighs ==
    ASSUME NEW s \in Seq(Cells), NEW i \in DOMAIN s, NEW part \in 1..s[i].v - 1
    PROVE  LET t == Split(s, i, part)
               p == s[i].p
           IN /\ Harmonic(t) = Harmonic(s) - Weight(p, s[i].v)
                               + Weight(p, part) + Weight(p, s[i].v - part)
              /\ Plurality(t) = Plurality(s) + p
<1> DEFINE t == Split(s, i, part)
           n == Len(s)
<1>1. /\ t \in Seq(Cells) /\ DOMAIN t = 1..n + 1
      /\ t[i].p = s[i].p /\ t[i].v = part
      /\ t[n + 1].p = s[i].p /\ t[n + 1].v = s[i].v - part
      /\ \A j \in 1..n : j # i => t[j] = s[j]
  BY SplitCells
<1> HIDE DEF t
<1>2. n \in Nat /\ DOMAIN s = 1..n /\ i \in 1..n
  OBVIOUS
<1>3. /\ Harmonic(s) = Total(WeightsOf(s)) /\ Plurality(s) = Total(PluralitiesOf(s))
      /\ \A j \in DOMAIN s : s[j].p \in Nat \ {0} /\ Weight(s[j].p, s[j].v) \in Nat
  BY SumsOverCells
<1>4. /\ Harmonic(t) = Total(WeightsOf(t)) /\ Plurality(t) = Total(PluralitiesOf(t))
      /\ \A j \in DOMAIN t : t[j].p \in Nat \ {0} /\ Weight(t[j].p, t[j].v) \in Nat
  BY <1>1, SumsOverCells
<1>5. Total(WeightsOf(t)) = Total(WeightsOf(s)) - Weight(s[i].p, s[i].v)
                            + Weight(s[i].p, part) + Weight(s[i].p, s[i].v - part)
  <2> DEFINE f == WeightsOf(s)
             g == WeightsOf(t)
  <2>1. DOMAIN f = 1..n /\ \A j \in 1..n : f[j] = Weight(s[j].p, s[j].v)
    BY <1>2 DEF WeightsOf
  <2>2. DOMAIN g = 1..n + 1 /\ \A j \in 1..n + 1 : g[j] = Weight(t[j].p, t[j].v)
    BY <1>1 DEF WeightsOf
  <2>3. n + 1 \in 1..n + 1 /\ i \in 1..n + 1 /\ \A j \in 1..n : j \in 1..n + 1
    BY <1>2
  <2> HIDE DEF f, g
  <2>4. \A j \in 1..n : f[j] \in Int
    BY <1>2, <1>3, <2>1
  <2>5. \A j \in 1..n + 1 : g[j] \in Int
    BY SMTT(30), <1>1, <1>4, <2>2
  <2>6. \A j \in 1..n : j # i => g[j] = f[j]
    BY <1>1, <2>1, <2>2, <2>3
  <2>7. Total(g) = Total(f) - f[i] + g[i] + g[n + 1]
    BY <1>2, <2>1, <2>2, <2>4, <2>5, <2>6, TotalOfSplit
  <2>8. f[i] = Weight(s[i].p, s[i].v) /\ g[i] = Weight(s[i].p, part)
        /\ g[n + 1] = Weight(s[i].p, s[i].v - part)
    BY <1>1, <1>2, <2>1, <2>2, <2>3
  <2> QED
    BY <2>7, <2>8 DEF f, g
<1>6. Total(PluralitiesOf(t)) = Total(PluralitiesOf(s)) + s[i].p
  <2> DEFINE f == PluralitiesOf(s)
             g == PluralitiesOf(t)
  <2>1. DOMAIN f = 1..n /\ \A j \in 1..n : f[j] = s[j].p
    BY <1>2 DEF PluralitiesOf
  <2>2. DOMAIN g = 1..n + 1 /\ \A j \in 1..n + 1 : g[j] = t[j].p
    BY <1>1 DEF PluralitiesOf
  <2>3. n + 1 \in 1..n + 1 /\ i \in 1..n + 1 /\ \A j \in 1..n : j \in 1..n + 1
    BY <1>2
  <2> HIDE DEF f, g
  <2>4. \A j \in 1..n : f[j] \in Int
    BY <1>2, <1>3, <2>1
  <2>5. \A j \in 1..n + 1 : g[j] \in Int
    BY <1>1, <1>4, <2>2
  <2>6. \A j \in 1..n : j # i => g[j] = f[j]
    BY <1>1, <2>1, <2>2, <2>3
  <2>7. Total(g) = Total(f) - f[i] + g[i] + g[n + 1]
    BY ZenonT(40), <1>2, <2>1, <2>2, <2>4, <2>5, <2>6, TotalOfSplit
  <2>8. f[i] = s[i].p /\ g[i] = s[i].p /\ g[n + 1] = s[i].p /\ s[i].p \in Int
    BY <1>1, <1>2, <1>3, <2>1, <2>2, <2>3
  <2>9. Total(f) \in Int
    <3>1. Plurality(s) \in Nat
      BY SumsOverCells
    <3> QED
      BY <1>3, <3>1 DEF f
  <2> QED
    BY <2>7, <2>8, <2>9 DEF f, g
<1> QED
  BY <1>3, <1>4, <1>5, <1>6 DEF t

(* What the halves weigh: the larger as much as the whole, the smaller     *)
(* what is left over.                                                      *)
LEMMA HalvesWeigh ==
    ASSUME NEW p \in Nat \ {0}, NEW v \in Nat \ {0}, NEW part \in 1..v - 1
    PROVE  \E less \in 1..v - 1 :
              /\ 2 * less <= v
              /\ Weight(p, v) + Weight(p, less) <= Weight(p, part) + Weight(p, v - part)
              /\ 2 * Weight(p, v) <= Weight(p, less)
<1>1. \A a \in 1..v - 1 : Weight(p, v) <= Weight(p, a) /\ Weight(p, a) \in Nat /\ Weight(p, v) \in Nat
  <2> SUFFICES ASSUME NEW a \in 1..v - 1
               PROVE  Weight(p, v) <= Weight(p, a) /\ Weight(p, a) \in Nat /\ Weight(p, v) \in Nat
    OBVIOUS
  <2>1. a \in Nat \ {0} /\ a <= v /\ p \in Nat /\ p <= p
    OBVIOUS
  <2> QED
    BY <2>1, WeightsCompare
<1>2. \A a \in 1..v - 1 : 2 * a <= v => 2 * Weight(p, v) <= Weight(p, a)
  <2> SUFFICES ASSUME NEW a \in 1..v - 1, 2 * a <= v PROVE 2 * Weight(p, v) <= Weight(p, a)
    OBVIOUS
  <2>1. a \in Nat \ {0} /\ C * p * p \in Nat
    BY MassAssumption
  <2> QED
    BY <2>1, HalfTheDivisor DEF Weight
<1>3. v - part \in 1..v - 1
  OBVIOUS
<1>4. CASE 2 * part <= v
  BY <1>1, <1>2, <1>3, <1>4
<1>5. CASE 2 * (v - part) <= v
  BY <1>1, <1>2, <1>3, <1>5
<1>6. 2 * part <= v \/ 2 * (v - part) <= v
  OBVIOUS
<1> QED
  BY <1>4, <1>5, <1>6

(* The mean of the inputs, and what they weigh by it.                      *)
MeanOf(s) == Greatest({Total(AmountsOf(s)) \div Plurality(s), 1})

LEMMA ArithmeticIs ==
    ASSUME NEW s \in Seq(Cells), s # <<>>
    PROVE  /\ Plurality(s) \in Nat \ {0} /\ MeanOf(s) \in Nat \ {0}
           /\ Total(AmountsOf(s)) \div Plurality(s) <= MeanOf(s)
           /\ Total(AmountsOf(s)) < Plurality(s) * (2 * MeanOf(s))
           /\ C \div MeanOf(s) \in Nat /\ (C \div MeanOf(s)) * MeanOf(s) <= C
           /\ Arithmetic(s) = Plurality(s) * (C \div MeanOf(s))
<1> DEFINE k == Plurality(s)
           total == Total(AmountsOf(s))
           mean == total \div k
           m == MeanOf(s)
<1>1. /\ k \in Nat /\ total \in Nat /\ Amounts(s) = total
  BY SumsOverCells
<1>2. k \in Nat \ {0}
  <2>1. Len(s) \in Nat \ {0} /\ DOMAIN s = 1..Len(s)
    OBVIOUS
  <2>2. 1 \in DOMAIN s
    BY <2>1
  <2>3. s[1].p <= k /\ s[1].p \in Nat \ {0}
    BY <2>2, CellsArePart, SumsOverCells
  <2> QED
    BY <1>1, <2>3
<1>3. mean \in Int /\ total < mean * k + k
  BY SMTT(30), <1>1, <1>2, Division
<1>4. m \in {mean, 1} /\ mean <= m /\ 1 <= m
  <2>1. m = Greatest({mean, 1})
    BY DEF MeanOf
  <2> HIDE DEF m, mean
  <2>2. mean \in Int /\ 1 \in Int
    BY <1>3
  <2> QED
    BY <2>1, <2>2, GreatestOfTwo
<1>5. m \in Nat \ {0}
  BY <1>3, <1>4
<1>6. total < k * (2 * m)
  <2> HIDE DEF mean, m, k, total
  <2>1. mean * k <= m * k
    BY <1>2, <1>3, <1>4, <1>5
  <2>2. k <= m * k
    BY <1>2, <1>5
  <2>3. k * (2 * m) = m * k + m * k /\ m * k \in Int /\ mean * k \in Int
    BY <1>2, <1>3, <1>5
  <2> QED
    BY <1>1, <1>2, <1>3, <2>1, <2>2, <2>3
<1>7. C \in Nat
  BY MassAssumption
<1>8. C \div m \in Nat /\ (C \div m) * m <= C
  <2> HIDE DEF m
  <2>1. C <= C /\ m <= m
    BY <1>5, <1>7
  <2>2. C \div m \in Nat
    BY <1>5, <1>7, <2>1, SharesCompare
  <2>3. (C \div m) * m <= C
    BY <1>5, <1>7, Division
  <2> QED
    BY <2>2, <2>3
<1>9. Arithmetic(s) = k * (C \div m)
  BY <1>1 DEF Arithmetic, MeanOf
<1> QED
  BY <1>2, <1>4, <1>5, <1>6, <1>8, <1>9

(* One input of several cells that pays for one of one: what it weighs is  *)
(* at least half of what it weighs by the mean.                            *)
LEMMA OneInputWeighs ==
    ASSUME NEW s \in Seq(Cells), NEW j, DOMAIN s = {j}
    PROVE  Arithmetic(s) <= 2 * Harmonic(s) + 2
<1> DEFINE k == Plurality(s)
           v == s[j].v
           m == MeanOf(s)
           q == C \div m
           h == Weight(k, v)
<1>1. Harmonic(s) = Weight(s[j].p, v) /\ k = s[j].p /\ Total(AmountsOf(s)) = v
  BY CellsArePart
<1>2. v \in Nat \ {0} /\ h \in Nat
  BY <1>1, SumsOverCells
<1>3. s # <<>>
  <2>1. 1..Len(s) = {j} /\ (s = <<>> => Len(s) = 0)
    OBVIOUS
  <2> QED
    BY <2>1
<1>4. k \in Nat \ {0} /\ m \in Nat \ {0} /\ q \in Nat /\ q * m <= C
      /\ v < k * (2 * m) /\ Arithmetic(s) = k * q
  BY <1>1, <1>3, ArithmeticIs
<1>5. C \in Nat /\ C * k * k \in Nat
  <2>1. C \in Nat
    BY MassAssumption
  <2> QED
    BY <1>4, <2>1
<1>6. C * k * k < h * v + v
  <2> DEFINE x == C * k * k
  <2>1. h = x \div v
    BY DEF Weight
  <2>2. x \in Int
    BY <1>5
  <2> HIDE DEF h, k, v, x
  <2>3. x < (x \div v) * v + v
    BY <1>2, <2>2, Division
  <2> QED
    BY <2>1, <2>3 DEF x
<1> HIDE DEF k, v, m, q, h
<1>7. (q * m) * (k * k) <= C * (k * k)
  BY <1>4, <1>5
<1>8. (h + 1) * v <= (h + 1) * (k * (2 * m))
  <2>1. v <= k * (2 * m) /\ k * (2 * m) \in Nat /\ h + 1 \in Nat
    BY <1>2, <1>4
  <2> QED
    BY <1>2, <2>1
<1>9. (k * q) * (k * m) < (2 * h + 2) * (k * m)
  <2>1. (k * q) * (k * m) = (q * m) * (k * k)
    BY <1>4
  <2>2. C * (k * k) = C * k * k
    BY <1>4, <1>5
  <2>3. (h + 1) * v = h * v + v
    BY <1>2
  <2>4. (h + 1) * (k * (2 * m)) = (2 * h + 2) * (k * m)
    BY <1>2, <1>4
  <2>5. (q * m) * (k * k) \in Int /\ C * (k * k) \in Int /\ h * v \in Int /\ (h + 1) * (k * (2 * m)) \in Int
    BY <1>2, <1>4, <1>5
  <2> QED
    BY <1>2, <1>6, <1>7, <1>8, <2>1, <2>2, <2>3, <2>4, <2>5
<1>10. k * q < 2 * h + 2
  <2>1. k * m \in Nat \ {0}
    BY <1>4
  <2>2. \A x, y \in Int, z \in Nat \ {0} : x * z < y * z => x < y
    OBVIOUS
  <2>3. k * q \in Int /\ 2 * h + 2 \in Int
    BY <1>2, <1>4
  <2> QED
    BY <1>9, <2>1, <2>2, <2>3
<1>11. Harmonic(s) = h
  BY <1>1 DEF h, v
<1>12. k * q \in Int
  BY <1>4
<1> QED
  BY <1>2, <1>4, <1>10, <1>11, <1>12

(* Two cells spent: each of them weighs as much as one by the mean.        *)
LEMMA TwoCellsWeigh ==
    ASSUME NEW s \in Seq(Cells), s # <<>>, Len(s) <= 2, Plurality(s) = 2
    PROVE  /\ C \div MeanOf(s) <= Harmonic(s)
           /\ \A v \in Nat \ {0} : 2 * v <= Total(AmountsOf(s)) => v <= MeanOf(s)
<1> DEFINE total == Total(AmountsOf(s))
           m == MeanOf(s)
<1>1. m \in Nat \ {0} /\ total \div 2 <= m /\ total \in Nat /\ total < 4 * m
  <2>1. total \in Nat
    BY SumsOverCells
  <2>2. m \in Nat \ {0} /\ total \div 2 <= m /\ total < 2 * (2 * m)
    BY ArithmeticIs
  <2> QED
    BY <2>1, <2>2
<1>2. \A v \in Nat \ {0} : 2 * v <= total => v <= m
  <2> SUFFICES ASSUME NEW v \in Nat \ {0}, 2 * v <= total PROVE v <= m
    OBVIOUS
  <2>1. v * 2 <= total
    BY <1>1
  <2>2. v <= total \div 2
    BY <1>1, <2>1, AtLeastTheQuotient
  <2>3. total \div 2 \in Int
    BY <1>1
  <2> QED
    BY <1>1, <2>2, <2>3
<1>3. C \in Nat
  BY MassAssumption
<1>4. DOMAIN s = 1..Len(s) /\ (Len(s) = 1 \/ Len(s) = 2)
  <2>1. Len(s) \in Nat /\ DOMAIN s = 1..Len(s) /\ (Len(s) = 0 => s = <<>>)
    OBVIOUS
  <2> QED
    BY <2>1
<1>5. CASE Len(s) = 1
  <2>1. DOMAIN s = {1}
    BY <1>4, <1>5
  <2>2. Harmonic(s) = Weight(2, s[1].v) /\ total = s[1].v
    BY <2>1, CellsArePart
  <2>3. s[1].v \in Nat \ {0}
    BY <2>1, SumsOverCells
  <2>4. Weight(2, total) \in Nat /\ total \in Nat \ {0}
    BY <2>1, <2>2, <2>3, SumsOverCells, CellsArePart
  <2>5. C \div m <= Weight(2, total)
    <3> DEFINE q == C \div m
    <3>1. q \in Nat /\ q * m <= C
      BY ArithmeticIs
    <3> HIDE DEF q, m, total
    <3>2. q * total <= q * (4 * m)
      <4>1. total <= 4 * m /\ 4 * m \in Nat
        BY <1>1
      <4> QED
        BY <1>1, <3>1, <4>1
    <3>3. q * (4 * m) = 4 * (q * m) /\ q * m \in Int
      BY <1>1, <3>1
    <3>4. C * 2 * 2 = 4 * C
      BY <1>3
    <3>5. q * total <= C * 2 * 2
      BY <1>1, <1>3, <3>1, <3>2, <3>3, <3>4
    <3>6. C * 2 * 2 \in Int /\ q \in Int
      BY <1>3, <3>1
    <3> QED
      BY <2>4, <3>5, <3>6, AtLeastTheQuotient DEF Weight, q
  <2> QED
    BY <1>2, <2>2, <2>5
<1>6. CASE Len(s) = 2
  <2>1. 1 \in DOMAIN s /\ 2 \in DOMAIN s /\ 1 # 2
    BY <1>4, <1>6
  <2>2. s[1].v + s[2].v <= total
    BY <2>1, CellsArePart
  <2>3. \A i \in DOMAIN s : s[i].v \in Nat \ {0} /\ s[i].p \in Nat \ {0}
    BY SumsOverCells
  <2>4. PICK i \in DOMAIN s : 2 * s[i].v <= total
    BY <1>1, <2>1, <2>2, <2>3
  <2>5. s[i].v <= m
    BY <1>2, <2>3, <2>4
  <2>6. Weight(1, m) <= Weight(s[i].p, s[i].v) /\ Weight(s[i].p, s[i].v) \in Nat
    <3> DEFINE p == s[i].p
               v == s[i].v
    <3>1. p \in Nat /\ 1 <= p /\ v \in Nat \ {0} /\ v <= m
      BY <2>3, <2>5
    <3> HIDE DEF p, v, m
    <3> QED
      BY <1>1, <3>1, WeightsCompare DEF p, v
  <2>7. Weight(1, m) = C \div m
    BY <1>3 DEF Weight
  <2>8. Weight(s[i].p, s[i].v) <= Harmonic(s) /\ Harmonic(s) \in Nat
    BY CellsArePart, SumsOverCells
  <2>9. C \div m \in Nat
    BY ArithmeticIs
  <2> HIDE DEF m
  <2>10. C \div m <= Harmonic(s)
    BY <2>6, <2>7, <2>8, <2>9
  <2> QED
    BY <1>2, <2>10 DEF m
<1> QED
  BY <1>4, <1>5, <1>6

(* Whoever takes the relaxed mean after a split takes it before.           *)
LEMMA SplitRelaxesNothing ==
    ASSUME NEW ins \in Seq(Cells), NEW outs \in Seq(Cells), NEW i \in DOMAIN outs,
           NEW part \in 1..outs[i].v - 1, Relaxed(ins, Split(outs, i, part))
    PROVE  Relaxed(ins, outs)
<1> DEFINE after == Split(outs, i, part)
<1>1. Plurality(after) = Plurality(outs) + outs[i].p
  BY SplitWeighs
<1>2. outs[i].p \in Nat \ {0} /\ outs[i].p <= Plurality(outs) /\ Plurality(outs) \in Nat
  BY SumsOverCells, CellsArePart
<1> HIDE DEF after
<1>3. Relaxed(ins, after)
  BY DEF after
<1>4. Plurality(after) # 1
  BY <1>1, <1>2
<1>5. Plurality(after) = 2 => Plurality(outs) = 1
  BY <1>1, <1>2
<1> QED
  BY <1>3, <1>4, <1>5 DEF Relaxed

(* Where a split changes the mean, what it gains is made up for.            *)
LEMMA MeansDiffer ==
    ASSUME NEW ins \in Seq(Cells), ins # <<>>, NEW outs \in Seq(Cells), NEW i \in DOMAIN outs,
           NEW part \in 1..outs[i].v - 1,
           Total(AmountsOf(outs)) <= Total(AmountsOf(ins)),
           \A j \in DOMAIN ins : Total(AmountsOf(ins)) - Total(AmountsOf(outs)) < ins[j].v,
           Relaxed(ins, outs), ~Relaxed(ins, Split(outs, i, part))
    PROVE  \/ Harmonic(outs) <= Harmonic(ins)
           \/ Harmonic(outs) + Arithmetic(ins) <= Harmonic(Split(outs, i, part)) + Harmonic(ins)
<1> DEFINE after == Split(outs, i, part)
           p == outs[i].p
           v == outs[i].v
           k == Plurality(ins)
           S == Total(AmountsOf(ins))
           V == Total(AmountsOf(outs))
           H == Harmonic(ins)
           A == Arithmetic(ins)
           m == MeanOf(ins)
           before == Harmonic(outs)
           now == Harmonic(after)
<1>0. /\ V <= S /\ \A j \in DOMAIN ins : S - V < ins[j].v
      /\ part \in 1..v - 1
  OBVIOUS
<1>1. /\ now = before - Weight(p, v) + Weight(p, part) + Weight(p, v - part)
      /\ Plurality(after) = Plurality(outs) + p
  BY SplitWeighs
<1>2. /\ p \in Nat \ {0} /\ v \in Nat \ {0} /\ V \in Nat /\ S \in Nat
      /\ before \in Nat /\ H \in Nat /\ k \in Nat /\ Plurality(outs) \in Nat
  BY SumsOverCells
<1>3. p <= Plurality(outs) /\ v <= V
  BY CellsArePart
<1>4. PICK less \in 1..v - 1 :
              /\ 2 * less <= v
              /\ Weight(p, v) + Weight(p, less) <= Weight(p, part) + Weight(p, v - part)
              /\ 2 * Weight(p, v) <= Weight(p, less)
  BY <1>2, HalvesWeigh
<1>5. /\ Weight(p, v) \in Nat /\ Weight(p, less) \in Nat
      /\ Weight(p, part) \in Nat /\ Weight(p, v - part) \in Nat
  <2>1. \A a \in Nat \ {0} : Weight(p, a) \in Nat
    <3> SUFFICES ASSUME NEW a \in Nat \ {0} PROVE Weight(p, a) \in Nat
      OBVIOUS
    <3>1. p \in Nat /\ p <= p /\ a <= a
      BY <1>2
    <3> QED
      BY ONLY <3>1, WeightsCompare
  <2>2. less \in 1..v - 1 /\ part \in 1..v - 1
    BY <1>0
  <2> HIDE DEF p, v
  <2>3. {v, less, part, v - part} \subseteq Nat \ {0}
    BY ONLY <1>2, <2>2
  <2> QED
    BY <2>1, <2>3
<1>6. /\ A \in Nat /\ k \in Nat \ {0} /\ C \div m \in Nat
      /\ A = k * (C \div m) /\ m \in Nat \ {0}
  <2>1. /\ k \in Nat \ {0} /\ C \div m \in Nat
        /\ A = k * (C \div m) /\ m \in Nat \ {0}
    BY ArithmeticIs
  <2> HIDE DEF A, k, m
  <2> QED
    BY <2>1
<1>7. Relaxed(ins, outs) /\ ~Relaxed(ins, after)
  OBVIOUS
<1> HIDE DEF after, p, v, k, S, V, H, A, m, before, now
<1>8. before + Weight(p, less) <= now /\ now \in Nat
  <2> DEFINE whole == Weight(p, v)
             one == Weight(p, part)
             other == Weight(p, v - part)
             small == Weight(p, less)
  <2>1. /\ now = before - whole + one + other /\ whole + small <= one + other
        /\ {before, whole, one, other, small} \subseteq Nat
    BY <1>1, <1>2, <1>4, <1>5
  <2>2. whole <= before
    BY CellsArePart DEF before, p, v
  <2> HIDE DEF whole, one, other, small
  <2>3. now \in Int
    BY <2>1
  <2> QED
    BY SMTT(30), <2>1, <2>2, <2>3 DEF small
<1>9. CASE Plurality(outs) = 1
  <2>1. p = 1 /\ Plurality(after) = 2
    BY <1>1, <1>2, <1>3, <1>9
  <2>2. DOMAIN outs = {i}
    <3> SUFFICES ASSUME NEW j \in DOMAIN outs, j # i PROVE FALSE
      OBVIOUS
    <3>1. outs[i].p + outs[j].p <= Plurality(outs)
      BY CellsArePart
    <3>2. outs[i].p \in Nat \ {0} /\ outs[j].p \in Nat \ {0}
      BY SumsOverCells
    <3> QED
      BY <1>9, <3>1, <3>2
  <2>3. before = Weight(1, v) /\ V = v
    BY <2>1, <2>2, CellsArePart DEF before, V, v, p
  <2>4. CASE \E j, l \in DOMAIN ins : j # l
    <3>1. PICK j \in DOMAIN ins, l \in DOMAIN ins : j # l
      BY <2>4
    <3> DEFINE q == ins[j].p
               w == ins[j].v
               rest == ins[l].v
    <3>2. w + rest <= S
      BY <3>1, CellsArePart DEF S
    <3>3. w \in Nat \ {0} /\ rest \in Nat \ {0} /\ q \in Nat \ {0}
      BY SumsOverCells
    <3>4. S - V < rest
      BY <1>0
    <3>5. Weight(q, w) <= H
      BY CellsArePart DEF H
    <3> HIDE DEF q, w, rest
    <3>6. w <= v /\ 1 <= q
      <4>1. {w, rest, q, S, V, v} \subseteq Nat /\ q # 0
        BY <1>2, <3>3
      <4> QED
        BY SMTT(30), <2>3, <3>2, <3>4, <4>1
    <3>7. Weight(1, v) <= Weight(q, w) /\ Weight(q, w) \in Nat
      BY <1>2, <3>3, <3>6, WeightsCompare
    <3>8. before <= H
      BY <1>2, <2>3, <3>5, <3>7
    <3> QED
      BY <3>8 DEF before, H
  <2>5. CASE ~\E j, l \in DOMAIN ins : j # l
    <3>1. DOMAIN ins = {1}
      <4>1. Len(ins) \in Nat /\ DOMAIN ins = 1..Len(ins) /\ (Len(ins) = 0 => ins = <<>>)
        OBVIOUS
      <4>2. 1 \in DOMAIN ins
        BY <4>1
      <4> QED
        BY <2>5, <4>2
    <3>2. A <= 2 * H + 2
      BY <3>1, OneInputWeighs DEF A, H
    <3>3. before <= H \/ before + A <= now + H
      <4>1. ASSUME ~(before <= H) PROVE 2 * H + 2 <= Weight(p, less)
        BY SMTT(30), <1>2, <1>4, <1>5, <2>1, <2>3, <4>1
      <4> QED
        <5>1. {before, H, A, now, Weight(p, less)} \subseteq Nat
          BY <1>2, <1>5, <1>6, <1>8
        <5> QED
          BY SMTT(30), <1>8, <3>2, <4>1, <5>1
    <3> QED
      BY <3>3 DEF before, now, after, A, H
  <2> QED
    BY <2>4, <2>5
<1>10. CASE Plurality(outs) # 1
  <2>1. Len(ins) <= 2 /\ k = 2
    BY <1>7, <1>10 DEF Relaxed, k
  <2>2. C \div m <= H
    BY <2>1, TwoCellsWeigh DEF m, H, k
  <2>3. less \in Nat \ {0} /\ less <= m
    <3>1. less \in Nat \ {0} /\ 2 * less <= S
      BY <1>0, <1>2, <1>3, <1>4
    <3> QED
      BY <2>1, <3>1, TwoCellsWeigh DEF m, S, k
  <2>4. C \div m <= Weight(p, less)
    <3>1. 1 <= p
      BY <1>2
    <3>2. Weight(1, m) = C \div m
      BY MassAssumption DEF Weight
    <3>3. Weight(1, m) <= Weight(p, less)
      BY <1>2, <1>6, <2>3, <3>1, WeightsCompare
    <3> QED
      BY <3>2, <3>3
  <2>5. A = 2 * (C \div m)
    BY <1>6, <2>1
  <2> DEFINE q == C \div m
  <2>6. q \in Nat
    BY <1>6
  <2>7. before + A <= now + H
    <3>1. q <= H /\ q <= Weight(p, less) /\ A = 2 * q
      BY <2>2, <2>4, <2>5
    <3> HIDE DEF q
    <3> QED
      BY SMTT(30), <1>2, <1>5, <1>8, <2>6, <3>1
  <2> QED
    BY <2>7 DEF before, now, after, A, H
<1> QED
  BY <1>9, <1>10

(* To split an output never makes a transaction lighter                    *)
(* (mass_calculation_storage.py:11-22).                                    *)
LEMMA SplitNeverLightens ==
    ASSUME NEW ins \in Seq(Cells), ins # <<>>, NEW outs \in Seq(Cells), NEW i \in DOMAIN outs,
           NEW part \in 1..outs[i].v - 1,
           Total(AmountsOf(outs)) <= Total(AmountsOf(ins)),
           \A j \in DOMAIN ins : Total(AmountsOf(ins)) - Total(AmountsOf(outs)) < ins[j].v
    PROVE  StorageMass(ins, Split(outs, i, part)) >= StorageMass(ins, outs)
<1> DEFINE after == Split(outs, i, part)
           H == Harmonic(ins)
           A == Arithmetic(ins)
           before == Harmonic(outs)
           now == Harmonic(after)
           relaxed == Relaxed(ins, outs)
           still == Relaxed(ins, after)
           bonus == IF relaxed THEN H ELSE A
           bonusNow == IF still THEN H ELSE A
<1>1. after \in Seq(Cells)
  BY SplitCells
<1>2. H \in Nat /\ before \in Nat
  BY SumsOverCells
<1>3. now \in Nat
  <2> HIDE DEF after
  <2> QED
    BY <1>1, SumsOverCells
<1>4. A \in Nat
  <2> DEFINE k == Plurality(ins)
             q == C \div MeanOf(ins)
  <2>1. k \in Nat /\ q \in Nat /\ A = k * q
    BY ArithmeticIs
  <2> HIDE DEF A, k, q
  <2> QED
    BY <2>1
<1>5. before <= now
  <2> DEFINE p == outs[i].p
             v == outs[i].v
             whole == Weight(p, v)
             one == Weight(p, part)
             other == Weight(p, v - part)
  <2>1. now = before - whole + one + other
    BY SplitWeighs
  <2>2. p \in Nat \ {0} /\ v \in Nat \ {0} /\ whole \in Nat
    BY SumsOverCells
  <2>3. whole <= one /\ one \in Nat /\ other \in Nat
    <3>1. p \in Nat /\ p <= p /\ part \in Nat \ {0} /\ part <= v
          /\ v - part \in Nat \ {0} /\ v - part <= v
      BY <2>2
    <3> HIDE DEF p, v
    <3> QED
      BY <2>2, <3>1, WeightsCompare
  <2> HIDE DEF whole, one, other, now, before
  <2> QED
    BY <1>2, <2>1, <2>2, <2>3
<1>6. still => relaxed
  BY SplitRelaxesNothing
<1>7. relaxed /\ ~still => before <= H \/ before + A <= now + H
  BY MeansDiffer
<1>8. /\ StorageMass(ins, outs) = Greatest({before - bonus, 0})
      /\ StorageMass(ins, after) = Greatest({now - bonusNow, 0})
  BY DEF StorageMass
<1> HIDE DEF before, now, H, A, after, relaxed, still
<1>9. /\ before - bonus \in Int /\ now - bonusNow \in Int
      /\ before - bonus <= now - bonusNow \/ before - bonus <= 0
  BY <1>2, <1>3, <1>4, <1>5, <1>6, <1>7
<1> DEFINE x == before - bonus
           y == now - bonusNow
<1>10. x \in Int /\ y \in Int /\ (x <= y \/ x <= 0)
  BY <1>9
<1> HIDE DEF x, y
<1> DEFINE greater == Greatest({y, 0})
           less == Greatest({x, 0})
<1>11. greater \in {y, 0} /\ y <= greater /\ 0 <= greater
  <2>1. y \in Int /\ 0 \in Int
    BY <1>10
  <2> QED
    BY ONLY <2>1, GreatestOfTwo
<1>12. less \in {x, 0}
  <2>1. x \in Int /\ 0 \in Int
    BY <1>10
  <2> QED
    BY ONLY <2>1, GreatestOfTwo
<1> HIDE DEF greater, less
<1>13. greater >= less
  BY <1>10, <1>11, <1>12
<1> QED
  BY <1>8, <1>13 DEF x, y, after, greater, less

LEMMA SplitsCost ==
    ASSUME AskKept, CalcStorageMass
    PROVE  SplittingCosts'
<1> DEFINE ins == ask'.ins
           outs == ask'.outs
           paid == Amounts(ins)
           made == Amounts(outs)
<1>1. ask' \in Ask /\ ask'.kind = "storage" /\ answer'.storage = StorageMass(ins, outs)
  BY DEF AskKept, CalcStorageMass, Reply
<1>2. ins \in Seq(Cells) /\ outs \in Seq(Cells) /\ ins # <<>>
  BY <1>1, MassAssumption DEF Cells
<1>3. /\ paid = Total(AmountsOf(ins)) /\ made = Total(AmountsOf(outs))
      /\ Total(AmountsOf(ins)) \in Nat /\ Total(AmountsOf(outs)) \in Nat
  BY <1>2, SumsOverCells
<1> DEFINE thrifty == 0 <= paid - made /\ \A j \in DOMAIN ins : paid - made < ins[j].v
<1>4. ASSUME thrifty, NEW i \in DOMAIN outs, NEW part \in 1..outs[i].v - 1
      PROVE  StorageMass(ins, Split(outs, i, part)) >= StorageMass(ins, outs)
  <2>1. \A j \in DOMAIN ins : Total(AmountsOf(ins)) - Total(AmountsOf(outs)) < ins[j].v
    BY <1>3, <1>4
  <2>2. 0 <= Total(AmountsOf(ins)) - Total(AmountsOf(outs))
    BY <1>3, <1>4
  <2>3. Total(AmountsOf(outs)) <= Total(AmountsOf(ins))
    BY <1>3, <2>2
  <2>4. i \in DOMAIN outs /\ part \in 1..outs[i].v - 1
    BY <1>4
  <2> HIDE DEF ins, outs
  <2> QED
    BY <1>2, <2>1, <2>3, <2>4, SplitNeverLightens
<1>5. thrifty => \A i \in DOMAIN outs : \A part \in 1..outs[i].v - 1 :
                     StorageMass(ins, Split(outs, i, part)) >= answer'.storage
  <2> HIDE DEF ins, outs, thrifty
  <2> QED
    BY <1>1, <1>4
<1>6. (thrifty => \A i \in DOMAIN outs : \A part \in 1..outs[i].v - 1 :
                     StorageMass(ins, Split(outs, i, part)) >= answer'.storage)
      => SplittingCosts'
  BY DEF SplittingCosts
<1> QED
  BY <1>5, <1>6

LEMMA SpentIsWeighed ==
    ASSUME AskKept, GetTransactionMass
    PROVE  MassOfTheSpent'
<1> DEFINE db == ask'.db
           tx == ask'.tx
           spent(i) == {d \in db : d.transaction = tx.ins[i].transaction
                                   /\ d.index = tx.ins[i].index}
           known == \A i \in DOMAIN tx.ins : spent(i) # {}
           made == \A i \in DOMAIN tx.outs : tx.outs[i].amount # 0
           few == Len(tx.ins) <= SearchLimit
           cells == InputCells(db, tx)
           cell(d) == [p |-> UtxoPlurality(d.script, d.covenant), v |-> d.amount]
<1> SUFFICES ASSUME ~tx.coinbase
             PROVE  /\ answer'.code = 200 <=> known /\ made /\ few
                    /\ answer'.code = 200 =>
                         /\ cells \in [DOMAIN tx.ins -> {cell(d) : d \in db}]
                         /\ \A i \in DOMAIN tx.ins : \E d \in spent(i) : cells[i].v = d.amount
                         /\ answer'.storage = StorageMass(cells, OutputCells(tx))
  BY DEF MassOfTheSpent, GetTransactionMass, Reply
<1>1. ask' \in Ask /\ ask'.kind = "mass" /\ answer' = CalculateTransactionMass(db, tx)
  BY DEF AskKept, GetTransactionMass, Reply
<1>2. \A i \in DOMAIN tx.ins : Outputs(db, tx.ins[i]) = spent(i)
  BY DEF Outputs
<1> DEFINE asked == {tx.ins[i].transaction : i \in DOMAIN tx.ins}
           have == {d.transaction : d \in db}
<1>4. known => asked \ have = {}
  OBVIOUS
<1> DEFINE unknown == \E i \in DOMAIN tx.ins : Outputs(db, tx.ins[i]) = {}
           nothing == \E i \in DOMAIN tx.outs : tx.outs[i].amount = 0
           storage == StorageMass(cells, OutputCells(tx))
           compute == ComputeMass(tx)
           mass == Greatest({storage, compute, TransientMass(tx)})
           many == Len(tx.ins) > SearchLimit
<1>3. many <=> ~few
  <2>1. tx.ins \in Seq({tx.ins[i] : i \in DOMAIN tx.ins}) /\ SearchLimit \in Nat
    BY <1>1, MassAssumption
  <2> QED
    BY <2>1
<1>5. answer' = IF many THEN Failed(422)
                ELSE IF asked \ have # {} THEN Failed(404)
                ELSE IF unknown \/ nothing THEN Failed(500)
                ELSE [code |-> 200, storage |-> storage, compute |-> compute, mass |-> mass]
  BY <1>1 DEF CalculateTransactionMass
<1>9. (unknown <=> ~known) /\ (nothing <=> ~made)
  BY <1>2
<1> HIDE DEF unknown, nothing, few, many, storage, compute, mass
<1>6. answer'.code = 200 => answer'.storage = StorageMass(cells, OutputCells(tx))
  <2> HIDE DEF asked, have, cells
  <2>1. answer'.code = 200 => answer'.storage = storage
    BY <1>5 DEF Failed
  <2> QED
    BY <2>1 DEF storage
<1>7. answer'.code = 200 <=> known /\ made /\ few
  <2> HIDE DEF asked, have, known, made
  <2> QED
    BY <1>3, <1>4, <1>5, <1>9 DEF Failed
<1>8. ASSUME known
      PROVE  /\ cells \in [DOMAIN tx.ins -> {cell(d) : d \in db}]
             /\ \A i \in DOMAIN tx.ins : \E d \in spent(i) : cells[i].v = d.amount
  <2> DEFINE pick(i) == CHOOSE d \in spent(i) : TRUE
  <2>1. \A i \in DOMAIN tx.ins : pick(i) \in spent(i)
    BY <1>8
  <2>2. cells = [i \in DOMAIN tx.ins |-> cell(pick(i))]
    BY <1>2 DEF InputCells
  <2>3. \A i \in DOMAIN tx.ins : pick(i) \in db
    BY <2>1
  <2> HIDE DEF pick, cells, spent
  <2> QED
    BY <2>1, <2>2, <2>3
<1> QED
  BY <1>6, <1>7, <1>8

(* The masses told are those of the transaction that is sent               *)
(* (get_transaction_mass.py:17-68, mass_calculation_storage.py:11-22).     *)
THEOREM MassesAlwaysAgree == Spec => []MassesAgree
<1>1. Init => MassesAgree
  BY DEF Init, MassesAgree, MassOfTheSpent, SplittingCosts, Told, Waiting
<1>2. AskKept /\ MassesAgree /\ [Next]_vars => MassesAgree'
  <2> SUFFICES ASSUME AskKept, MassesAgree, [Next]_vars PROVE MassesAgree'
    OBVIOUS
  <2>1. CASE UNCHANGED vars
    BY <2>1 DEF vars, MassesAgree, MassOfTheSpent, SplittingCosts, Told
  <2>2. CASE Next
    <3>1. MassOfTheSpent'
      <4>1. CASE ask.kind = "mass"
        BY <2>2, <4>1, OwnEndpoint, SpentIsWeighed
      <4>2. CASE ask.kind # "mass"
        BY <2>2, <4>2, OwnEndpoint DEF MassOfTheSpent
      <4> QED
        BY <4>1, <4>2
    <3>2. SplittingCosts'
      <4>1. CASE ask.kind = "storage"
        BY <2>2, <4>1, OwnEndpoint, SplitsCost
      <4>2. CASE ask.kind # "storage"
        BY <2>2, <4>2, OwnEndpoint DEF SplittingCosts, Told
      <4> QED
        BY <4>1, <4>2
    <3> QED
      BY <3>1, <3>2 DEF MassesAgree
  <2> QED
    BY <2>1, <2>2
<1> QED
  BY <1>1, <1>2, AskStays, PTL DEF Spec
-----------------------------------------------------------------------------
(* Functions on the natural numbers whose values are made of the one       *)
(* before: `step[n]` makes the n-th.                                       *)
IsStart(g, n, S, base, step) ==
    /\ g \in [0..n -> S] /\ g[0] = base
    /\ \A i \in 1..n : g[i] = step[i][g[i - 1]]

AreSteps(step, S) == step \in [Nat -> [S -> S]]
IsMade(g, S, base, step) ==
    g \in [Nat -> S] /\ g[0] = base /\ \A n \in Nat \ {0} : g[n] = step[n][g[n - 1]]

LEMMA StartsExist ==
    ASSUME NEW S, NEW base \in S, NEW step, AreSteps(step, S)
    PROVE  \A n \in Nat : \E g : IsStart(g, n, S, base, step)
<1> DEFINE Bad == {n \in Nat : ~\E g : IsStart(g, n, S, base, step)}
<1> SUFFICES ASSUME Bad # {} PROVE FALSE
  OBVIOUS
<1>1. PICK n \in Bad : \A j \in Bad : n <= j
  BY LeastNatural
<1>2. CASE n = 0
  <2>1. IsStart([i \in 0..0 |-> base], 0, S, base, step)
    BY DEF IsStart
  <2> QED
    BY <1>1, <1>2, <2>1
<1>3. CASE n # 0
  <2>0. n \in Nat
    OBVIOUS
  <2>1. n \in Nat \ {0} /\ n - 1 \in Nat /\ n - 1 \notin Bad
    <3> HIDE DEF Bad
    <3> QED
      BY <1>1, <1>3, <2>0
  <2>2. PICK g : IsStart(g, n - 1, S, base, step)
    BY <2>1
  <2> DEFINE h == [i \in 0..n |-> IF i = n THEN step[n][g[n - 1]] ELSE g[i]]
  <2>3. n - 1 \in 0..n - 1 /\ \A i \in 0..n : i # n => i \in 0..n - 1
    BY <2>1
  <2>4. g[n - 1] \in S /\ step[n] \in [S -> S]
    BY <2>1, <2>2, <2>3 DEF IsStart, AreSteps
  <2>5. step[n][g[n - 1]] \in S
    BY <2>4
  <2>6. h \in [0..n -> S]
    BY <2>2, <2>3, <2>5 DEF IsStart
  <2>7. h[n] = step[n][g[n - 1]] /\ \A i \in 0..n - 1 : h[i] = g[i]
    BY <2>1
  <2> HIDE DEF h
  <2>8. h[0] = base
    BY <2>1, <2>2, <2>7 DEF IsStart
  <2>9. \A i \in 1..n : h[i] = step[i][h[i - 1]]
    <3> SUFFICES ASSUME NEW i \in 1..n PROVE h[i] = step[i][h[i - 1]]
      OBVIOUS
    <3>1. i - 1 \in 0..n - 1
      BY <2>1
    <3>2. CASE i = n
      BY <2>7, <3>1, <3>2
    <3>3. CASE i # n
      <4>1. i \in 1..n - 1 /\ i \in 0..n - 1
        BY <2>1, <3>3
      <4>2. g[i] = step[i][g[i - 1]]
        BY <2>2, <4>1 DEF IsStart
      <4> QED
        BY <2>7, <3>1, <4>1, <4>2
    <3> QED
      BY <3>2, <3>3
  <2>10. IsStart(h, n, S, base, step)
    BY <2>6, <2>8, <2>9 DEF IsStart
  <2> QED
    BY <1>1, <2>10
<1> QED
  BY <1>2, <1>3

LEMMA StartsAgree ==
    ASSUME NEW S, NEW base, NEW step, NEW m \in Nat, NEW n \in Nat, m <= n,
           NEW g, NEW h, IsStart(g, m, S, base, step), IsStart(h, n, S, base, step)
    PROVE  \A i \in 0..m : g[i] = h[i]
<1> DEFINE Bad == {i \in 0..m : g[i] # h[i]}
<1> SUFFICES ASSUME Bad # {} PROVE FALSE
  OBVIOUS
<1>1. Bad \in SUBSET Nat
  OBVIOUS
<1>2. PICK i \in Bad : \A j \in Bad : i <= j
  BY <1>1, LeastNatural
<1>3. i \in 0..m /\ g[i] # h[i]
  BY <1>2
<1>4. i # 0
  BY <1>3 DEF IsStart
<1>5. i \in 1..m /\ i \in 1..n /\ i - 1 \in 0..m
  BY <1>3, <1>4
<1>6. i - 1 \notin Bad
  BY <1>2, <1>5
<1>7. g[i - 1] = h[i - 1]
  BY <1>5, <1>6
<1>8. g[i] = step[i][g[i - 1]] /\ h[i] = step[i][h[i - 1]]
  BY <1>5 DEF IsStart
<1> QED
  BY <1>3, <1>7, <1>8

LEMMA StepsExist ==
    ASSUME NEW S, NEW base \in S, NEW step, AreSteps(step, S)
    PROVE  \E g : IsMade(g, S, base, step)
<1> DEFINE start(n) == CHOOSE g : IsStart(g, n, S, base, step)
           h == [n \in Nat |-> start(n)[n]]
<1>1. \A n \in Nat : IsStart(start(n), n, S, base, step)
  BY StartsExist
<1> HIDE DEF start
<1>2. h \in [Nat -> S]
  <2> SUFFICES ASSUME NEW n \in Nat PROVE start(n)[n] \in S
    OBVIOUS
  <2>1. start(n) \in [0..n -> S] /\ n \in 0..n
    BY <1>1 DEF IsStart
  <2> QED
    BY <2>1
<1>3. h[0] = base
  <2>1. start(0)[0] = base
    BY <1>1 DEF IsStart
  <2> QED
    BY <2>1
<1>4. \A n \in Nat \ {0} : h[n] = step[n][h[n - 1]]
  <2> SUFFICES ASSUME NEW n \in Nat \ {0} PROVE h[n] = step[n][h[n - 1]]
    OBVIOUS
  <2>1. n - 1 \in Nat /\ n - 1 <= n /\ n - 1 \in 0..n - 1 /\ n \in 1..n
    OBVIOUS
  <2>2. start(n - 1)[n - 1] = start(n)[n - 1]
    BY <1>1, <2>1, StartsAgree
  <2>3. start(n)[n] = step[n][start(n)[n - 1]]
    BY <1>1, <2>1 DEF IsStart
  <2>4. h[n] = start(n)[n] /\ h[n - 1] = start(n - 1)[n - 1]
    BY <2>1
  <2> HIDE DEF h
  <2> QED
    BY <2>2, <2>3, <2>4
<1>5. IsMade(h, S, base, step)
  <2> HIDE DEF h
  <2> QED
    BY <1>2, <1>3, <1>4 DEF IsMade
<1> QED
  BY <1>5

(* A shift multiplies by Byte once more.                                   *)
LEMMA ShiftIs ==
    /\ Shift \in [Nat -> Nat \ {0}] /\ Shift[0] = 1
    /\ \A n \in Nat \ {0} : Shift[n] = Byte * Shift[n - 1]
<1> DEFINE S == Nat \ {0}
           step == [n \in Nat |-> [x \in S |-> Byte * x]]
           IsShift(g) == g = [n \in Nat |-> IF n = 0 THEN 1 ELSE Byte * g[n - 1]]
<1>1. Byte \in Nat \ {0}
  BY HistoryAssumption
<1>2. \A x \in S : Byte * x \in S
  <2> SUFFICES ASSUME NEW x \in S PROVE Byte * x \in S
    OBVIOUS
  <2>1. Byte * x \in Nat /\ Byte * x > 0
    BY <1>1
  <2> QED
    BY <2>1
<1>3. 1 \in S /\ AreSteps(step, S)
  BY <1>2 DEF AreSteps
<1>4. PICK g : IsMade(g, S, 1, step)
  <2> HIDE DEF S, step
  <2> QED
    BY <1>3, StepsExist
<1>5. \A n \in Nat \ {0} : g[n] = Byte * g[n - 1]
  <2> SUFFICES ASSUME NEW n \in Nat \ {0} PROVE g[n] = Byte * g[n - 1]
    OBVIOUS
  <2>1. g[n - 1] \in S
    BY <1>4 DEF IsMade
  <2> QED
    BY <1>4, <2>1 DEF IsMade
<1>6. IsShift(g)
  <2>1. g = [n \in Nat |-> g[n]]
    BY <1>4 DEF IsMade
  <2>2. \A n \in Nat : g[n] = IF n = 0 THEN 1 ELSE Byte * g[n - 1]
    BY <1>4, <1>5 DEF IsMade
  <2> QED
    BY <2>1, <2>2
<1>7. IsShift(Shift)
  <2>1. Shift = CHOOSE f : IsShift(f)
    BY DEF Shift
  <2> HIDE DEF IsShift
  <2> QED
    BY <1>6, <2>1
<1>8. \A n \in Nat : Shift[n] = g[n]
  <2> DEFINE Bad == {n \in Nat : Shift[n] # g[n]}
  <2> SUFFICES ASSUME Bad # {} PROVE FALSE
    OBVIOUS
  <2>1. PICK n \in Bad : \A j \in Bad : n <= j
    BY LeastNatural
  <2>2. n # 0
    BY <1>4, <1>7, <2>1 DEF IsMade
  <2>3. n \in Nat \ {0} /\ n - 1 \in Nat /\ n - 1 \notin Bad
    BY <2>1, <2>2
  <2>4. Shift[n - 1] = g[n - 1]
    BY <2>3
  <2>5. Shift[n] = Byte * Shift[n - 1]
    BY <1>7, <2>3
  <2> QED
    BY <1>5, <2>1, <2>3, <2>4, <2>5
<1>9. \A n \in Nat \ {0} : Shift[n] = Byte * Shift[n - 1]
  <2> SUFFICES ASSUME NEW n \in Nat \ {0} PROVE Shift[n] = Byte * Shift[n - 1]
    OBVIOUS
  <2>1. n - 1 \in Nat
    OBVIOUS
  <2> QED
    BY <1>5, <1>8, <2>1
<1>10. DOMAIN Shift = Nat
  BY <1>7
<1> QED
  BY <1>4, <1>7, <1>8, <1>9, <1>10 DEF IsMade

LEMMA ExactQuotient ==
    ASSUME NEW x \in Int, NEW k \in Nat \ {0}
    PROVE  (x * k) \div k = x
<1>1. x * k \in Int /\ x * k = x * k + 0 /\ 0 \in 0..k - 1
  OBVIOUS
<1> QED
  BY <1>1, Quotient

LEMMA Remainder ==
    ASSUME NEW x \in Nat, NEW k \in Nat \ {0}
    PROVE  x % k \in 0..k - 1 /\ x \div k \in Nat
OBVIOUS

(* The bits give back the target, cut to its first bytes                   *)
(* (difficulty_calculation.py:1-21).                                       *)
LEMMA BitsAreRead ==
    ASSUME AskKept, GetDifficulty
    PROVE  BitsRoundTrip'
<1> DEFINE bits == ask'.bits
           target == ask'.target
           unit == ask'.unit
           bytes == bits \div Shift[3]
           first == bits % Shift[3]
           told == FromCompactTargetBits(bits)
<1>1. /\ ask' \in Ask /\ ask'.kind = "bits"
      /\ answer'.target = told /\ answer'.difficulty = BitsToDifficulty(bits)
  BY DEF AskKept, GetDifficulty, Reply
<1>2. /\ bits \in Nat /\ target \in Nat /\ 2 * first < Shift[3]
      /\ IF bytes <= 3 THEN unit = 1 /\ first = target * Shift[3 - bytes]
         ELSE unit = Shift[bytes - 3] /\ first = target \div unit
  BY <1>1, SamplesAssumption
<1>3. \A n \in Nat : Shift[n] \in Nat \ {0}
  BY ShiftIs
<1>4. bytes \in Nat /\ first \in Nat
  <2> DEFINE k == Shift[3]
  <2>1. k \in Nat \ {0}
    BY <1>3
  <2> HIDE DEF k
  <2>2. bits % k \in 0..k - 1 /\ bits \div k \in Nat
    BY <1>2, <2>1, Remainder
  <2> QED
    BY <2>1, <2>2 DEF k
<1> HIDE DEF bytes, first
<1>5. ASSUME bytes <= 3 PROVE told = (target \div unit) * unit
  <2> DEFINE k == Shift[3 - bytes]
  <2>1. 3 - bytes \in Nat
    BY <1>4, <1>5
  <2>2. k \in Nat \ {0} /\ first = target * k /\ unit = 1
    BY <1>2, <1>3, <1>5, <2>1
  <2> HIDE DEF k
  <2>3. first \div k = target
    BY <1>2, <2>2, ExactQuotient
  <2>4. target <= first
    <3>1. target * 1 <= target * k
      BY <1>2, <2>2
    <3> QED
      BY <1>2, <2>2, <3>1
  <2>5. ~(2 * target >= Shift[3])
    <3>1. Shift[3] \in Nat
      BY <1>3
    <3> QED
      BY <1>2, <1>4, <2>4, <3>1
  <2>6. told = IF 2 * (first \div k) >= Shift[3] THEN 0 ELSE first \div k
    BY <1>5 DEF FromCompactTargetBits, bytes, first, k
  <2>7. told = target
    BY <2>3, <2>5, <2>6
  <2>8. (target \div unit) * unit = target
    BY <1>2, <2>2
  <2> QED
    BY <2>7, <2>8
<1>6. ASSUME ~(bytes <= 3) PROVE told = (target \div unit) * unit
  <2> DEFINE k == Shift[bytes - 3]
  <2>1. first = target \div unit /\ unit = k
    BY <1>2, <1>6
  <2>2. ~(2 * first >= Shift[3])
    <3>1. Shift[3] \in Nat
      BY <1>3
    <3> QED
      BY <1>2, <1>4, <3>1
  <2>3. told = IF 2 * first >= Shift[3] THEN 0 ELSE first * k
    BY <1>6 DEF FromCompactTargetBits, bytes, first, k
  <2> QED
    BY <2>1, <2>2, <2>3
<1>7. told = (target \div unit) * unit
  BY <1>5, <1>6
<1>8. told \in 1..MaxTarget => BitsToDifficulty(bits) >= 1
  <2> SUFFICES ASSUME told \in 1..MaxTarget PROVE BitsToDifficulty(bits) >= 1
    OBVIOUS
  <2>1. BitsToDifficulty(bits) = MaxTarget \div told
    BY DEF BitsToDifficulty
  <2> HIDE DEF told
  <2>2. told \in Nat \ {0} /\ 1 * told <= MaxTarget /\ MaxTarget \in Int
    BY HistoryAssumption
  <2>3. 1 <= MaxTarget \div told
    BY <2>2, AtLeastTheQuotient
  <2>4. MaxTarget \div told \in Int
    BY <2>2
  <2> QED
    BY <2>1, <2>3, <2>4
<1> HIDE DEF told, target, unit
<1> QED
  BY <1>1, <1>7, <1>8 DEF BitsRoundTrip, target, unit

(* Samples of S, newest first, and points made of them.                    *)
AreScored(S) == \A s \in S : s.blue_score \in Int
Falling(samples) ==
    \A i \in DOMAIN samples : \A j \in 1..i - 1 : samples[i].blue_score < samples[j].blue_score
PointsOf(S) == [at : S, of : Seq(S), rate : {1, 10}]
Unmixed(point) == \A i \in DOMAIN point.of : Rate(point.of[i]) = point.rate
Older(point, before) ==
    point.at.blue_score < before.at.blue_score \/ (point.rate = 10 /\ before.rate = 1)
Honest(points) ==
    /\ \A n \in DOMAIN points : Unmixed(points[n])
    /\ \A n \in DOMAIN points \ {1} : Older(points[n], points[n - 1])

LEMMA ChunkIsPart ==
    ASSUME NEW S, NEW samples \in Seq(S), NEW n \in 1..Len(samples), NEW k \in Nat \ {0}
    PROVE  LET c == Chunk(samples, n, k) IN
           /\ c \in Seq(S) /\ Len(c) \in Nat \ {0} /\ n + Len(c) - 1 <= Len(samples)
           /\ \A i \in 1..Len(c) : c[i] = samples[n + i - 1]
<1> DEFINE m == IF n + k - 1 <= Len(samples) THEN n + k - 1 ELSE Len(samples)
<1>1. m \in n..Len(samples) /\ Len(samples) \in Nat /\ n \in Nat \ {0}
  OBVIOUS
<1>2. Chunk(samples, n, k) = SubSeq(samples, n, m)
  BY DEF Chunk
<1> HIDE DEF m
<1>3. /\ SubSeq(samples, n, m) \in Seq(S) /\ Len(SubSeq(samples, n, m)) = m - n + 1
      /\ \A i \in 1..m - n + 1 : SubSeq(samples, n, m)[i] = samples[n + i - 1]
  <2>1. \A i \in n..m : samples[i] \in S
    BY <1>1
  <2> QED
    BY <1>1, <2>1
<1> QED
  BY <1>1, <1>2, <1>3

(* One chunk: at most one point on either side of Crescendo.               *)
LEMMA PointsAreHonest ==
    ASSUME NEW S, AreScored(S), NEW chunk \in Seq(S), Len(chunk) \in Nat \ {0}, Falling(chunk)
    PROVE  LET p == Points(chunk) IN
           /\ p \in Seq(PointsOf(S)) /\ Len(p) \in Nat \ {0} /\ Honest(p)
           /\ p[1].at \in {chunk[1], chunk[Len(chunk)]} /\ p[Len(p)].at = chunk[1]
<1> DEFINE L == Len(chunk)
           first == chunk[L]
           last == chunk[1]
           p == Points(chunk)
<1>1. L \in Nat \ {0} /\ DOMAIN chunk = 1..L /\ \A i \in 1..L : chunk[i] \in S
  OBVIOUS
<1>2. \A i \in 1..L : chunk[i].blue_score \in Int
  BY <1>1 DEF AreScored
<1>3. \A i \in 1..L : /\ first.blue_score <= chunk[i].blue_score
                      /\ chunk[i].blue_score <= last.blue_score
  <2> SUFFICES ASSUME NEW i \in 1..L
               PROVE  /\ first.blue_score <= chunk[i].blue_score
                      /\ chunk[i].blue_score <= last.blue_score
    OBVIOUS
  <2>0. i \in 1..L
    OBVIOUS
  <2> HIDE DEF L
  <2>1. i # L => i \in 1..L - 1
    BY <1>1, <2>0
  <2>2. i # 1 => 1 \in 1..i - 1
    BY <1>1, <2>0
  <2>3. 1 \in 1..L /\ L \in 1..L
    BY <1>1
  <2>4. first.blue_score <= chunk[i].blue_score
    <3>1. i # L => chunk[L].blue_score < chunk[i].blue_score
      BY <1>1, <2>1, <2>3 DEF Falling
    <3> QED
      BY <1>2, <2>0, <2>3, <3>1
  <2>5. chunk[i].blue_score <= last.blue_score
    <3>1. i # 1 => chunk[i].blue_score < chunk[1].blue_score
      BY <1>1, <2>0, <2>2 DEF Falling
    <3> QED
      BY <1>2, <2>0, <2>3, <3>1
  <2> QED
    BY <2>4, <2>5
<1>4. first \in S /\ last \in S /\ first.blue_score \in Int /\ last.blue_score \in Int
  BY <1>1, <1>2
<1>5. CrescendoBs \in Int
  BY HistoryAssumption
<1> DEFINE crossing == first.blue_score < CrescendoBs /\ CrescendoBs <= last.blue_score
           a == Point(first, <<first>>, 1)
           b == Point(last, <<last>>, 10)
           c == Point(last, chunk, Rate(last))
<1>6. p = IF crossing THEN <<a, b>> ELSE <<c>>
  BY DEF Points
<1>7. /\ a.at = first /\ a.of = <<first>> /\ a.rate = 1
      /\ b.at = last /\ b.of = <<last>> /\ b.rate = 10
      /\ c.at = last /\ c.of = chunk /\ c.rate = Rate(last)
  BY DEF Point
<1>8. a \in PointsOf(S) /\ b \in PointsOf(S) /\ c \in PointsOf(S)
  <2>1. <<first>> \in Seq(S) /\ <<last>> \in Seq(S)
    BY <1>4
  <2>2. Rate(last) \in {1, 10}
    BY DEF Rate
  <2> QED
    BY <1>4, <2>1, <2>2 DEF PointsOf, Point
<1>9. ASSUME crossing PROVE Unmixed(a) /\ Unmixed(b) /\ Older(b, a)
  <2>1. Rate(first) = 1 /\ Rate(last) = 10
    BY <1>4, <1>5, <1>9 DEF Rate
  <2>2. \A s, i : i \in DOMAIN <<s>> => <<s>>[i] = s
    OBVIOUS
  <2> HIDE DEF a, b, first, last
  <2>3. Unmixed(a) /\ Unmixed(b)
    BY ZenonT(40), <1>7, <2>1, <2>2 DEF Unmixed
  <2> QED
    BY <1>7, <2>3 DEF Older
<1>10. ASSUME ~crossing PROVE Unmixed(c)
  <2>1. \A i \in 1..L : Rate(chunk[i]) = Rate(last)
    BY <1>2, <1>3, <1>4, <1>5, <1>10 DEF Rate
  <2> HIDE DEF c
  <2> QED
    BY <1>1, <1>7, <2>1 DEF Unmixed
<1> HIDE DEF a, b, c, p, first, last, L
<1>11. CASE crossing
  <2>1. p = <<a, b>>
    BY <1>6, <1>11
  <2>2. p \in Seq(PointsOf(S)) /\ Len(p) = 2 /\ DOMAIN p = {1, 2} /\ p[1] = a /\ p[2] = b
    BY <1>8, <2>1
  <2>3. Honest(p)
    BY <1>9, <1>11, <2>2 DEF Honest
  <2> QED
    BY <1>7, <2>2, <2>3 DEF p, first, last, L
<1>12. CASE ~crossing
  <2>1. p = <<c>>
    BY <1>6, <1>12
  <2>2. p \in Seq(PointsOf(S)) /\ Len(p) = 1 /\ DOMAIN p = {1} /\ p[1] = c
    BY <1>8, <2>1
  <2>3. Honest(p)
    BY <1>10, <1>12, <2>2 DEF Honest
  <2> QED
    BY <1>7, <2>2, <2>3 DEF p, first, last, L
<1> QED
  BY <1>11, <1>12

(* Points after which older ones follow.                                   *)
LEMMA HonestTogether ==
    ASSUME NEW P, NEW a \in Seq(P), NEW b \in Seq(P), Honest(a), Honest(b), Len(b) \in Nat \ {0},
           a = <<>> \/ Older(b[1], a[Len(a)])
    PROVE  /\ a \o b \in Seq(P) /\ Len(a \o b) \in Nat \ {0} /\ Honest(a \o b)
           /\ (a \o b)[Len(a \o b)] = b[Len(b)]
<1> DEFINE m == Len(a)
           n == Len(b)
           c == a \o b
<1>1. /\ m \in Nat /\ n \in Nat \ {0} /\ c \in Seq(P) /\ Len(c) = m + n
      /\ DOMAIN a = 1..m /\ DOMAIN b = 1..n /\ DOMAIN c = 1..m + n
      /\ (m = 0 <=> a = <<>>)
  OBVIOUS
<1>2. /\ \A i \in 1..m : c[i] = a[i]
      /\ \A i \in m + 1..m + n : c[i] = b[i - m]
  OBVIOUS
<1> HIDE DEF c, m, n
<1>3. \A i \in 1..m + n : i \notin 1..m => i \in m + 1..m + n /\ i - m \in 1..n
  BY <1>1
<1>4. \A i \in DOMAIN c : Unmixed(c[i])
  BY <1>1, <1>2, <1>3 DEF Honest
<1>5. ASSUME NEW i \in DOMAIN c \ {1} PROVE Older(c[i], c[i - 1])
  <2>1. CASE i \in 1..m
    <3>1. i \in DOMAIN a \ {1} /\ i - 1 \in 1..m
      BY <1>1, <1>5, <2>1
    <3> QED
      BY <1>2, <2>1, <3>1 DEF Honest
  <2>2. CASE i = m + 1
    <3>1. m # 0 /\ m \in 1..m /\ i \in m + 1..m + n /\ i - m = 1 /\ i - 1 = m
      BY <1>1, <1>5, <2>2
    <3> QED
      BY <1>1, <1>2, <3>1 DEF m
  <2>3. CASE i \notin 1..m /\ i # m + 1
    <3>1. i - m \in DOMAIN b \ {1} /\ i \in m + 1..m + n /\ i - 1 \in m + 1..m + n
          /\ (i - m) - 1 = (i - 1) - m
      BY <1>1, <1>3, <1>5, <2>3
    <3>2. Older(b[i - m], b[(i - m) - 1])
      BY <3>1 DEF Honest
    <3> QED
      BY <1>2, <3>1, <3>2
  <2> QED
    BY <2>1, <2>2, <2>3
<1>6. c[m + n] = b[n]
  <2>1. m + n \in m + 1..m + n /\ (m + n) - m = n
    BY <1>1
  <2> QED
    BY <1>2, <2>1
<1> QED
  BY SMTT(30), <1>1, <1>4, <1>5, <1>6 DEF Honest, c, n

(* The loop of filter_samples up to an index, and that it exists.          *)
IsFiltered(g, samples, k) ==
    g = [n \in 0..Len(samples) |->
           IF n = 0 THEN <<>>
           ELSE IF (n - 1) % k = 0 THEN g[n - 1] \o Points(Chunk(samples, n, k))
           ELSE g[n - 1]]

LEMMA PointsOfEachChunk ==
    ASSUME NEW S, AreScored(S), NEW samples \in Seq(S), Falling(samples),
           NEW k \in Nat \ {0}, NEW n \in 1..Len(samples)
    PROVE  LET p == Points(Chunk(samples, n, k)) IN
           /\ p \in Seq(PointsOf(S)) /\ Len(p) \in Nat \ {0} /\ Honest(p)
           /\ p[Len(p)].at = samples[n]
           /\ \E i \in n..Len(samples) : p[1].at = samples[i]
<1> DEFINE c == Chunk(samples, n, k)
           L == Len(samples)
           m == Len(c)
<1>1. /\ c \in Seq(S) /\ m \in Nat \ {0} /\ n + m - 1 <= L
      /\ \A i \in 1..m : c[i] = samples[n + i - 1]
  BY ChunkIsPart
<1> HIDE DEF c
<1>2. /\ L \in Nat /\ n \in 1..L /\ DOMAIN samples = 1..L /\ DOMAIN c = 1..m
  BY <1>1
<1> HIDE DEF L, m
<1>3. Falling(c)
  <2> SUFFICES ASSUME NEW i \in 1..m, NEW j \in 1..i - 1
               PROVE  c[i].blue_score < c[j].blue_score
    BY <1>2 DEF Falling
  <2>1. j \in 1..m /\ n + i - 1 \in 1..L /\ n + j - 1 \in 1..(n + i - 1) - 1
    BY <1>1, <1>2
  <2>2. samples[n + i - 1].blue_score < samples[n + j - 1].blue_score
    BY <1>2, <2>1 DEF Falling
  <2> QED
    BY <1>1, <2>1, <2>2
<1> DEFINE p == Points(c)
<1>4. /\ p \in Seq(PointsOf(S)) /\ Len(p) \in Nat \ {0} /\ Honest(p)
      /\ p[1].at \in {c[1], c[m]} /\ p[Len(p)].at = c[1]
  BY <1>1, <1>3, PointsAreHonest DEF m
<1> HIDE DEF p
<1>5. c[1] = samples[n] /\ c[m] = samples[n + m - 1]
  BY <1>1, <1>2
<1>6. n \in n..L /\ n + m - 1 \in n..L
  BY <1>1, <1>2
<1>7. \E i \in n..L : p[1].at = samples[i]
  BY <1>4, <1>5, <1>6
<1> QED
  BY <1>4, <1>5, <1>7 DEF p, c, L

LEMMA FilteredExists ==
    ASSUME NEW S, AreScored(S), NEW samples \in Seq(S), Falling(samples), NEW k \in Nat \ {0}
    PROVE  \E g : IsFiltered(g, samples, k)
<1> DEFINE P == Seq(PointsOf(S))
           L == Len(samples)
           step == [n \in Nat |-> [p \in P |->
                      IF n \in 1..L /\ (n - 1) % k = 0 THEN p \o Points(Chunk(samples, n, k)) ELSE p]]
<1>1. \A n \in 1..L : Points(Chunk(samples, n, k)) \in P
  BY PointsOfEachChunk
<1>2. L \in Nat /\ <<>> \in P
  OBVIOUS
<1>3. \A p, q \in P : p \o q \in P
  OBVIOUS
<1> HIDE DEF P, L
<1>4. AreSteps(step, P)
  BY <1>1, <1>3 DEF AreSteps
<1>5. PICK g : IsMade(g, P, <<>>, step)
  <2> HIDE DEF step
  <2> QED
    BY <1>2, <1>4, StepsExist
<1> DEFINE h == [n \in 0..L |-> g[n]]
<1>6. /\ h[0] = <<>> /\ \A n \in 0..L : h[n] \in P
      /\ \A n \in 1..L : h[n] = step[n][h[n - 1]]
  <2>1. \A n \in 1..L : n \in Nat \ {0} /\ n \in 0..L /\ n - 1 \in 0..L
    BY <1>2
  <2> HIDE DEF step
  <2> QED
    BY <1>2, <1>5, <2>1 DEF IsMade
<1>7. \A n \in 0..L : h[n] = IF n = 0 THEN <<>>
                             ELSE IF (n - 1) % k = 0 THEN h[n - 1] \o Points(Chunk(samples, n, k))
                             ELSE h[n - 1]
  <2> HIDE DEF h
  <2> SUFFICES ASSUME NEW n \in 1..L
               PROVE  h[n] = IF (n - 1) % k = 0 THEN h[n - 1] \o Points(Chunk(samples, n, k))
                             ELSE h[n - 1]
    BY <1>2, <1>6
  <2>1. n \in Nat /\ h[n - 1] \in P /\ h[n] = step[n][h[n - 1]]
    <3>1. n \in Nat /\ n - 1 \in 0..L
      BY <1>2
    <3> HIDE DEF step
    <3> QED
      BY <1>6, <3>1
  <2> QED
    BY <2>1
<1>8. h = [n \in 0..L |-> h[n]]
  OBVIOUS
<1> HIDE DEF h
<1>9. IsFiltered(h, samples, k)
  BY <1>7, <1>8 DEF IsFiltered, L
<1> QED
  BY <1>9

(* No point mixes both sides of Crescendo, for any samples and interval    *)
(* (get_hashrate_history.py:134-154).                                      *)
LEMMA FilteredIsHonest ==
    ASSUME NEW S, AreScored(S), NEW samples \in Seq(S), Falling(samples), NEW k \in Nat \ {0}
    PROVE  Honest(FilterSamples(samples, k))
<1> DEFINE L == Len(samples)
           P == PointsOf(S)
<1>1. PICK g : IsFiltered(g, samples, k) /\ FilterSamples(samples, k) = g[L]
  <2> DEFINE made == CHOOSE g : IsFiltered(g, samples, k)
  <2>1. IsFiltered(made, samples, k)
    BY FilteredExists
  <2>2. FilterSamples(samples, k) = made[L]
    BY DEF FilterSamples, IsFiltered
  <2> QED
    BY <2>1, <2>2
<1>2. L \in Nat /\ DOMAIN samples = 1..L /\ \A i \in 1..L : samples[i] \in S
  OBVIOUS
<1>3. /\ g[0] = <<>>
      /\ \A n \in 1..L : g[n] = IF (n - 1) % k = 0 THEN g[n - 1] \o Points(Chunk(samples, n, k))
                                ELSE g[n - 1]
  <2>1. \A n \in 1..L : n \in 0..L /\ n # 0
    OBVIOUS
  <2>2. 0 \in 0..L
    BY <1>2
  <2> QED
    BY <1>1, <2>1, <2>2 DEF IsFiltered
<1> DEFINE Good(n) == /\ g[n] \in Seq(P) /\ Honest(g[n])
                      /\ g[n] # <<>> => \E i \in 1..n : g[n][Len(g[n])].at = samples[i]
           Bad == {n \in 0..L : ~Good(n)}
<1>4. ASSUME Bad # {} PROVE FALSE
  <2>1. Bad \in SUBSET Nat
    BY <1>2
  <2>2. PICK n \in Bad : \A j \in Bad : n <= j
    BY <1>4, <2>1, LeastNatural
  <2>3. n \in 0..L /\ ~Good(n)
    BY <2>2
  <2>4. n # 0
    <3>1. Good(0)
      <4>1. <<>> \in Seq(P) /\ DOMAIN <<>> = {}
        OBVIOUS
      <4> QED
        BY <1>3, <4>1 DEF Honest
    <3> QED
      BY <2>3, <3>1
  <2>5. n \in 1..L /\ n - 1 \in 0..L
    BY <1>2, <2>3, <2>4
  <2>6. Good(n - 1)
    <3>1. n - 1 \notin Bad
      <4> HIDE DEF Bad
      <4> QED
        BY <2>2, <2>5
    <3> QED
      BY <2>5, <3>1
  <2> DEFINE a == g[n - 1]
             b == Points(Chunk(samples, n, k))
  <2>7. CASE (n - 1) % k # 0
    <3>1. g[n] = a
      BY <1>3, <2>5, <2>7
    <3>2. \A i \in 1..n - 1 : i \in 1..n
      BY <2>5
    <3> QED
      BY <2>3, <2>6, <3>1, <3>2
  <2>8. CASE (n - 1) % k = 0
    <3>1. g[n] = a \o b
      BY <1>3, <2>5, <2>8
    <3>2. /\ b \in Seq(P) /\ Len(b) \in Nat \ {0} /\ Honest(b)
          /\ b[Len(b)].at = samples[n]
          /\ \E i \in n..L : b[1].at = samples[i]
      <4> HIDE DEF a, Bad, Good
      <4>1. n \in 1..Len(samples)
        BY <2>5
      <4> QED
        BY ONLY SMTT(30), AreScored(S), samples \in Seq(S), Falling(samples), k \in Nat \ {0},
                <4>1, PointsOfEachChunk
    <3> HIDE DEF b
    <3>3. ASSUME a # <<>> PROVE Older(b[1], a[Len(a)])
      <4>1. PICK j \in 1..n - 1 : a[Len(a)].at = samples[j]
        BY <2>6, <3>3
      <4>2. PICK i \in n..L : b[1].at = samples[i]
        BY <3>2
      <4>3. i \in 1..L /\ j \in 1..i - 1
        BY <1>2, <2>5
      <4>4. samples[i].blue_score < samples[j].blue_score
        BY <1>2, <4>3 DEF Falling
      <4> QED
        BY <4>1, <4>2, <4>4 DEF Older
    <3>4. a \in Seq(P) /\ Honest(a)
      BY <2>6
    <3> HIDE DEF a, P, L
    <3>5. a \o b \in Seq(P) /\ Honest(a \o b) /\ (a \o b)[Len(a \o b)] = b[Len(b)]
      BY <3>2, <3>3, <3>4, HonestTogether
    <3>6. n \in 1..n
      BY <2>5 DEF L
    <3> QED
      BY <2>3, <3>1, <3>2, <3>5, <3>6
  <2> QED
    BY <2>7, <2>8
<1>5. L \in 0..L /\ L \notin Bad
  BY <1>2, <1>4
<1>6. Good(L)
  BY <1>5
<1> QED
  BY <1>1, <1>6

(* The rows that a query returns, up to an index, and that they exist.     *)
IsSelected(g, samples, rows) ==
    g = [n \in 0..Len(samples) |->
           IF n = 0 THEN <<>>
           ELSE IF samples[n] \in rows THEN Append(g[n - 1], samples[n])
           ELSE g[n - 1]]

LEMMA SelectedExists ==
    ASSUME NEW S, NEW samples \in Seq(S), NEW rows
    PROVE  \E g : IsSelected(g, samples, rows)
<1> DEFINE P == Seq(S)
           L == Len(samples)
           step == [n \in Nat |-> [p \in P |->
                      IF n \in 1..L /\ samples[n] \in rows THEN Append(p, samples[n]) ELSE p]]
<1>1. L \in Nat /\ <<>> \in P /\ \A n \in 1..L : samples[n] \in S
  OBVIOUS
<1>2. \A p \in P, s \in S : Append(p, s) \in P
  OBVIOUS
<1> HIDE DEF P, L
<1>3. AreSteps(step, P)
  BY <1>1, <1>2 DEF AreSteps
<1>4. PICK g : IsMade(g, P, <<>>, step)
  <2> HIDE DEF step
  <2> QED
    BY <1>1, <1>3, StepsExist
<1> DEFINE h == [n \in 0..L |-> g[n]]
<1>5. /\ h[0] = <<>> /\ \A n \in 0..L : h[n] \in P
      /\ \A n \in 1..L : h[n] = step[n][h[n - 1]]
  <2>1. \A n \in 1..L : n \in Nat \ {0} /\ n \in 0..L /\ n - 1 \in 0..L
    BY <1>1
  <2> HIDE DEF step
  <2> QED
    BY <1>1, <1>4, <2>1 DEF IsMade
<1>6. \A n \in 0..L : h[n] = IF n = 0 THEN <<>>
                             ELSE IF samples[n] \in rows THEN Append(h[n - 1], samples[n])
                             ELSE h[n - 1]
  <2> HIDE DEF h
  <2> SUFFICES ASSUME NEW n \in 1..L
               PROVE  h[n] = IF samples[n] \in rows THEN Append(h[n - 1], samples[n])
                             ELSE h[n - 1]
    BY <1>1, <1>5
  <2>1. n \in Nat /\ h[n - 1] \in P /\ h[n] = step[n][h[n - 1]]
    <3>1. n \in Nat /\ n - 1 \in 0..L
      BY <1>1
    <3> HIDE DEF step
    <3> QED
      BY <1>5, <3>1
  <2> QED
    BY <2>1
<1>7. h = [n \in 0..L |-> h[n]]
  OBVIOUS
<1> HIDE DEF h
<1>8. IsSelected(h, samples, rows)
  BY <1>6, <1>7 DEF IsSelected, L
<1> QED
  BY <1>8

(* What is selected stays in order, and nothing is of no rows              *)
(* (get_hashrate_history.py:102-109).                                      *)
LEMMA SelectedFalls ==
    ASSUME NEW S, AreScored(S), NEW samples \in Seq(S), Falling(samples), NEW rows
    PROVE  /\ Selected(samples, rows) \in Seq(S) /\ Falling(Selected(samples, rows))
           /\ rows = {} => Selected(samples, rows) = <<>>
<1> DEFINE L == Len(samples)
<1>1. PICK g : IsSelected(g, samples, rows) /\ Selected(samples, rows) = g[L]
  <2> DEFINE made == CHOOSE g : IsSelected(g, samples, rows)
  <2>1. IsSelected(made, samples, rows)
    BY SelectedExists
  <2>2. Selected(samples, rows) = made[L]
    BY DEF Selected, IsSelected
  <2> QED
    BY <2>1, <2>2
<1>2. L \in Nat /\ DOMAIN samples = 1..L /\ \A i \in 1..L : samples[i] \in S
  OBVIOUS
<1>3. /\ g[0] = <<>>
      /\ \A n \in 1..L : g[n] = IF samples[n] \in rows THEN Append(g[n - 1], samples[n])
                                ELSE g[n - 1]
  <2>1. \A n \in 1..L : n \in 0..L /\ n # 0
    OBVIOUS
  <2>2. 0 \in 0..L
    BY <1>2
  <2> QED
    BY <1>1, <2>1, <2>2 DEF IsSelected
<1> DEFINE Good(n) == /\ g[n] \in Seq(S) /\ Falling(g[n])
                      /\ \A i \in DOMAIN g[n] : \E j \in 1..n : g[n][i] = samples[j]
                      /\ rows = {} => g[n] = <<>>
           Bad == {n \in 0..L : ~Good(n)}
<1>4. ASSUME Bad # {} PROVE FALSE
  <2>1. Bad \in SUBSET Nat
    BY <1>2
  <2>2. PICK n \in Bad : \A j \in Bad : n <= j
    BY <1>4, <2>1, LeastNatural
  <2>3. n \in 0..L /\ ~Good(n)
    BY <2>2
  <2>4. n # 0
    <3>1. Good(0)
      <4>1. <<>> \in Seq(S) /\ DOMAIN <<>> = {}
        OBVIOUS
      <4> QED
        BY <1>3, <4>1 DEF Falling
    <3> QED
      BY <2>3, <3>1
  <2>5. n \in 1..L /\ n - 1 \in 0..L
    BY <1>2, <2>3, <2>4
  <2>6. Good(n - 1)
    <3>1. n - 1 \notin Bad
      <4> HIDE DEF Bad
      <4> QED
        BY <2>2, <2>5
    <3> QED
      BY <2>5, <3>1
  <2>7. \A i \in 1..n - 1 : i \in 1..n
    BY <2>5
  <2> DEFINE a == g[n - 1]
             s == samples[n]
             m == Len(a)
  <2>8. CASE s \notin rows
    <3>1. g[n] = a
      BY <1>3, <2>5, <2>8
    <3> QED
      BY <2>3, <2>6, <2>7, <3>1
  <2>9. CASE s \in rows
    <3>1. g[n] = Append(a, s) /\ rows # {}
      BY <1>3, <2>5, <2>9
    <3>2. /\ a \in Seq(S) /\ Falling(a) /\ s \in S
          /\ \A i \in DOMAIN a : \E j \in 1..n - 1 : a[i] = samples[j]
      BY <1>2, <2>5, <2>6
    <3> DEFINE b == Append(a, s)
    <3>3. /\ b \in Seq(S) /\ m \in Nat /\ DOMAIN a = 1..m /\ DOMAIN b = 1..m + 1
          /\ b[m + 1] = s /\ \A i \in 1..m : b[i] = a[i]
      <4> HIDE DEF a, s, Bad, Good
      <4> QED
        BY <3>2 DEF m
    <3> HIDE DEF b, a, m, Bad, Good
    <3>4. ASSUME NEW i \in 1..m PROVE s.blue_score < a[i].blue_score
      <4>1. PICK j \in 1..n - 1 : a[i] = samples[j]
        BY <3>2, <3>3
      <4> QED
        BY <1>2, <2>5, <4>1 DEF Falling
    <3>5. Falling(b)
      <4> SUFFICES ASSUME NEW i \in 1..m + 1, NEW j \in 1..i - 1
                   PROVE  b[i].blue_score < b[j].blue_score
        BY <3>3 DEF Falling
      <4>1. j \in 1..m
        BY <3>3
      <4>2. CASE i = m + 1
        BY <3>3, <3>4, <4>1, <4>2
      <4>3. CASE i # m + 1
        <5>1. i \in 1..m
          BY <3>3, <4>3
        <5> QED
          BY <3>2, <3>3, <4>1, <5>1 DEF Falling
      <4> QED
        BY <4>2, <4>3
    <3>6. \A i \in DOMAIN b : \E j \in 1..n : b[i] = samples[j]
      <4> SUFFICES ASSUME NEW i \in 1..m + 1 PROVE \E j \in 1..n : b[i] = samples[j]
        BY <3>3
      <4>1. CASE i = m + 1
        <5>1. n \in 1..n
          BY <2>5
        <5> QED
          BY <3>3, <4>1, <5>1
      <4>2. CASE i # m + 1
        <5>1. i \in 1..m
          BY <3>3, <4>2
        <5> QED
          BY <2>7, <3>2, <3>3, <5>1
      <4> QED
        BY <4>1, <4>2
    <3> QED
      BY <2>3, <3>1, <3>3, <3>5, <3>6 DEF b, Good
  <2> QED
    BY <2>8, <2>9
<1>5. L \in 0..L /\ L \notin Bad
  BY <1>2, <1>4
<1>6. Good(L)
  BY <1>5
<1> QED
  BY <1>1, <1>6

LEMMA NothingIsFiltered == ASSUME NEW k PROVE FilterSamples(<<>>, k) = <<>>
<1>1. PICK g : g = [n \in 0..0 |-> <<>>]
  OBVIOUS
<1> DEFINE Made(h) == h = [n \in 0..Len(<<>>) |->
                             IF n = 0 THEN <<>>
                             ELSE IF (n - 1) % k = 0 THEN h[n - 1] \o Points(Chunk(<<>>, n, k))
                             ELSE h[n - 1]]
           made == CHOOSE h : Made(h)
<1>2. Len(<<>>) = 0 /\ \A n \in 0..0 : n = 0
  OBVIOUS
<1>3. Made(g)
  BY <1>1, <1>2
<1>4. Made(made)
  BY <1>3
<1>5. FilterSamples(<<>>, k) = made[0]
  BY <1>2 DEF FilterSamples
<1> HIDE DEF made
<1> QED
  BY <1>2, <1>4, <1>5

LEMMA AskedSamples ==
    ASSUME NEW a \in Ask, a.kind \in {"samples", "hashrates"}
    PROVE  LET S == {a.samples[i] : i \in DOMAIN a.samples} IN
           /\ AreScored(S) /\ a.samples \in Seq(S) /\ Falling(a.samples)
<1>1. \A i \in DOMAIN a.samples :
         /\ a.samples[i].blue_score \in Int
         /\ \A j \in 1..i - 1 : a.samples[i].blue_score < a.samples[j].blue_score
  BY SamplesAssumption
<1>2. a.samples \in Seq({a.samples[i] : i \in DOMAIN a.samples})
  BY SamplesAssumption
<1> QED
  BY <1>1, <1>2 DEF AreScored, Falling

LEMMA IntervalIsNatural ==
    ASSUME NEW r PROVE SampleInterval(r, TRUE) \in Nat /\ SampleInterval(r, FALSE) \in Nat
BY DEF SampleInterval

LEMMA NoPointIsMixed ==
    ASSUME AskKept, GetHashrateHistory \/ GetHashrateHistoryForDayOrMonth, answer'.code = 200
    PROVE  Honest(answer'.points)
<1> DEFINE S == {ask'.samples[i] : i \in DOMAIN ask'.samples}
           samples == ask'.samples
<1>1. ask' = ask /\ ask' \in Ask
  BY DEF AskKept, GetHashrateHistory, GetHashrateHistoryForDayOrMonth, Reply
<1>2. ask'.kind \in {"samples", "hashrates"}
  BY <1>1 DEF GetHashrateHistory, GetHashrateHistoryForDayOrMonth, Reply
<1>3. AreScored(S) /\ samples \in Seq(S) /\ Falling(samples)
  BY <1>1, <1>2, AskedSamples
<1> HIDE DEF S
<1>4. CASE GetHashrateHistory
  <2> DEFINE k == SampleInterval(ask'.resolution, FALSE)
  <2>1. k \in Nat
    BY ONLY IntervalIsNatural
  <2> DEFINE points == FilterSamples(samples, k)
  <2>2. answer' = IF ~ask'.enabled THEN Failure(503) ELSE IF k = 0 THEN Failure(400)
                  ELSE [code |-> 200, max_age |-> 3600, points |-> points]
    BY <1>1, <1>4 DEF GetHashrateHistory, Reply
  <2> HIDE DEF k, points
  <2>3. k \in Nat \ {0} /\ answer'.points = points
    BY <2>1, <2>2 DEF Failure
  <2> HIDE DEF samples
  <2>4. Honest(FilterSamples(samples, k))
    BY ONLY <1>3, <2>3, FilteredIsHonest
  <2> QED
    BY <2>3, <2>4 DEF points
<1>5. CASE GetHashrateHistoryForDayOrMonth
  <2> DEFINE k == SampleInterval(ask'.resolution, TRUE)
             rows == PeriodRows(ask'.period, ask'.now, ask'.table)
             chosen == Selected(samples, rows)
  <2>1. k \in Nat
    BY ONLY IntervalIsNatural
  <2> DEFINE points == FilterSamples(chosen, k)
             wrong == k = 0 /\ ~OutOfRange(ask'.period, ask'.now)
             age == PeriodMaxAge(ask'.period, ask'.now)
  <2>2. answer' = IF ~ask'.enabled THEN Failure(503) ELSE IF ~ask'.exists THEN Failure(500)
                  ELSE IF wrong THEN Failure(400)
                  ELSE [code |-> 200, max_age |-> age, rows |-> rows, points |-> points]
    BY <1>1, <1>5 DEF GetHashrateHistoryForDayOrMonth, Reply, PeriodAnswer,
        PointsOfPeriod, RowsOfPeriod
  <2>3. ~wrong /\ answer'.points = points
    <3> HIDE DEF wrong, points, age, rows
    <3> QED
      BY <2>2 DEF Failure
  <2>4. k = 0 => rows = {}
    BY <2>3 DEF PeriodRows
  <2> HIDE DEF k, rows, samples, wrong, age
  <2>5. chosen \in Seq(S) /\ Falling(chosen) /\ (rows = {} => chosen = <<>>)
    BY <1>3, SelectedFalls
  <2> HIDE DEF chosen
  <2>6. CASE k = 0
    <3>1. answer'.points = <<>>
      BY <2>3, <2>4, <2>5, <2>6, NothingIsFiltered
    <3> QED
      BY <3>1 DEF Honest
  <2>7. CASE k # 0
    <3>1. k \in Nat \ {0}
      BY <2>1, <2>7
    <3>2. Honest(FilterSamples(chosen, k))
      BY ONLY <1>3, <2>5, <3>1, FilteredIsHonest
    <3> QED
      BY <2>3, <3>2
  <2> QED
    BY <2>6, <2>7
<1> QED
  BY <1>4, <1>5

(* What the hashrate history tells is what the headers had, each point at  *)
(* the block rate of its own side of Crescendo                             *)
(* (difficulty_calculation.py:1-21, get_hashrate_history.py:134-154).      *)
THEOREM HistoryIsAlwaysHonest == Spec => []HistoryIsHonest
<1>1. Init => HistoryIsHonest
  BY DEF Init, HistoryIsHonest, BitsRoundTrip, NoMixedPoint, Told, Waiting
<1>2. AskKept /\ HistoryIsHonest /\ [Next]_vars => HistoryIsHonest'
  <2> SUFFICES ASSUME AskKept, HistoryIsHonest, [Next]_vars PROVE HistoryIsHonest'
    OBVIOUS
  <2>1. CASE UNCHANGED vars
    BY <2>1 DEF vars, HistoryIsHonest, BitsRoundTrip, NoMixedPoint, Told
  <2>2. CASE Next
    <3>1. BitsRoundTrip'
      <4>1. CASE ask.kind = "bits"
        BY <2>2, <4>1, OwnEndpoint, BitsAreRead
      <4>2. CASE ask.kind # "bits"
        BY <2>2, <4>2, OwnEndpoint DEF BitsRoundTrip, Told
      <4> QED
        BY <4>1, <4>2
    <3>2. NoMixedPoint'
      <4> SUFFICES ASSUME Told({"samples", "hashrates"})'
                   PROVE  NoMixedPoint'
        BY DEF NoMixedPoint
      <4>1. ask'.kind \in {"samples", "hashrates"} /\ answer'.code = 200
        BY DEF Told
      <4>2. GetHashrateHistory \/ GetHashrateHistoryForDayOrMonth
        BY <2>2, <4>1, OwnEndpoint
      <4>3. Honest(answer'.points)
        BY <4>1, <4>2, NoPointIsMixed
      <4> QED
        BY <4>3 DEF NoMixedPoint, Honest, Unmixed, Older
    <3> QED
      BY <3>1, <3>2 DEF HistoryIsHonest
  <2> QED
    BY <2>1, <2>2
<1> QED
  BY <1>1, <1>2, AskStays, PTL DEF Spec
=============================================================================
