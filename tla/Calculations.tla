---------------------------- MODULE Calculations ----------------------------
(***************************************************************************)
(* The endpoints whose answer is a computation over one read of the node   *)
(* or the database: `ask` is the request together with what it reads, and  *)
(* one step answers it.                                                    *)
(***************************************************************************)
EXTENDS BlockReward, CacheControl, Masses, HashrateHistory, Periods, SingleReads, NodeReads

CONSTANT Ask   \* the requests: records with a kind and what that kind needs

OfPeriod == {"counts", "actives", "balances", "hashrates"}
OfRanking == {"top", "tiers"}
OfNode == {"balance", "several", "blockdag", "hashrate", "kaspad", "fees", "vspc",
           "supply", "coins", "score", "blocks"}

\* Scores are natural numbers, and no block or stored score is ahead of the
\* node's `sink`; periods begin at midnight, as the genesis day does; a row is
\* seen when it is there, and none is before the genesis; tables are finite.
ASSUME AskAssumption ==
    \A a \in Ask :
        /\ a.kind = "cache" => /\ {a.score, a.known, a.sink, a.time, a.now} \subseteq Nat
                              /\ a.score <= a.sink /\ a.known <= a.sink
        /\ a.kind \in OfPeriod =>
              /\ a.period \in [month : BOOLEAN, start : Int, days : Nat]
              /\ (a.period.start - GenesisDay) % Day = 0
        /\ a.kind \in OfPeriod \cup {"totals"} =>
              /\ a.now \in Int
              /\ \A r \in a.table : /\ r.at \in Int /\ r.seen \in Int
                                    /\ GenesisDay <= r.at /\ r.at <= r.seen
        /\ a.kind = "totals" => IsFiniteSet(a.table) /\ \A r \in a.table : r.count \in Nat
        /\ a.kind = "offset" => /\ a.offset \in Nat /\ a.limit \in Nat
                               /\ IsFiniteSet(a.table) /\ \A r \in a.table : r.at \in Int
        /\ a.kind = "hashrates" => a.table = {a.samples[i] : i \in DOMAIN a.samples}
        /\ a.kind \in OfRanking =>
              /\ a.before \subseteq Int /\ \A b, c \in a.before : b = c
              /\ a.now \in Int
              /\ \A r \in a.table : r.at \in Int /\ r.seen \in Int

\* A chain block is blue, another is what the one that merged it says, and the
\* node tells a colour only then, if any; an output is spent once and has an amount,
\* and the indexer stores amounts of the chain; a byte has two digits.
ASSUME ReadsAssumption ==
    \A a \in Ask :
        /\ a.kind \in {"blockreward", "halving"} => a.daa \in Nat
        /\ a.kind = "color" => /\ a.isChainBlock => a.truth = "blue"
                              /\ a.told \in {"refuses", "silent", a.truth}
                              /\ a.truth \in {"none", "blue", "red"}
                              /\ a.children \subseteq {"no", a.truth} \cap Merges
        /\ a.kind = "inputs" =>
              /\ a.db \subseteq a.chain /\ \A d \in a.chain : d.amount \in Nat \ {0}
              /\ \A i \in DOMAIN a.inputs :
                    a.inputs[i].amount \in IF a.prepared
                                          THEN {d.amount : d \in SpentBy(a.inputs[i], a.chain)}
                                          ELSE {0}
        /\ a.kind = "script" => /\ a.version \in Seq({0, 1}) /\ a.script \in Seq({0, 1})
                               /\ Len(a.script) % 2 = 0
        /\ a.kind \in OfNode => a.transport \in Transport /\ a.outcome \in Outcome

\* Outputs of the chain have a plurality and an amount, neither of them 0, and
\* a coin is spent to split another; a body has sizes and counts, which are
\* natural numbers, and amounts, which are any.
ASSUME MassAssumption ==
    /\ C \in Nat /\ SearchLimit \in Nat
    /\ \A a \in Ask :
          /\ a.kind = "storage" =>
                /\ {a.ins, a.outs} \subseteq Seq([p : Nat \ {0}, v : Nat \ {0}])
                /\ a.ins # <<>>
          /\ a.kind = "mass" =>
                /\ \A d \in a.db : d.amount \in Nat \ {0}
                /\ a.tx.payload \in Nat
                /\ a.tx.ins \in Seq({a.tx.ins[i] : i \in DOMAIN a.tx.ins})
                /\ \A i \in DOMAIN a.tx.ins :
                      {a.tx.ins[i].signature, a.tx.ins[i].ops, a.tx.ins[i].budget} \subseteq Nat
                /\ \A i \in DOMAIN a.tx.outs :
                      a.tx.outs[i].script \in Nat /\ a.tx.outs[i].amount \in Int

\* Samples are of chain blocks, whose scores grow together; the bits of a header
\* are the first bytes of its target, as many as fit, and how many there are.
ASSUME SamplesAssumption ==
    \A a \in Ask :
        /\ a.kind \in {"samples", "hashrates"} =>
              /\ a.samples \in Seq({a.samples[i] : i \in DOMAIN a.samples})
              /\ \A i \in DOMAIN a.samples :
                    /\ a.samples[i].blue_score \in Int
                    /\ \A j \in 1..i - 1 : a.samples[i].blue_score < a.samples[j].blue_score
        /\ a.kind = "bits" =>
              LET bytes == a.bits \div Shift[3]
                  first == a.bits % Shift[3]
              IN /\ a.bits \in Nat /\ a.target \in Nat /\ 2 * first < Shift[3]
                 /\ IF bytes <= 3 THEN a.unit = 1 /\ first = a.target * Shift[3 - bytes]
                    ELSE a.unit = Shift[bytes - 3] /\ first = a.target \div a.unit

VARIABLES ask, answer
vars == <<ask, answer>>

Waiting == [code |-> 0]
Failure(code) == [code |-> code]

Init == ask \in Ask /\ answer = Waiting

Reply(kind, told) ==
    ask.kind = kind /\ answer = Waiting /\ answer' = told /\ UNCHANGED ask
-----------------------------------------------------------------------------
GetBlockreward ==
    Reply("blockreward", IF HasReward(ask.daa)
                         THEN [code |-> 200, reward |-> CalcBlockReward(ask.daa).current]
                         ELSE Failure(500))

GetHalving ==
    Reply("halving", IF HasReward(ask.daa)
                     THEN [code |-> 200, seconds |-> SecondsToHalving(ask.daa),
                           next |-> CalcBlockReward(ask.daa).next]
                     ELSE Failure(500))

CalcStorageMass ==
    Reply("storage", [code |-> 200, storage |-> StorageMass(ask.ins, ask.outs)])

GetTransactionMass ==
    Reply("mass", CalculateTransactionMass(ask.db, ask.tx))

GetDifficulty ==
    Reply("bits", [code |-> 200, target |-> FromCompactTargetBits(ask.bits),
                   difficulty |-> BitsToDifficulty(ask.bits)])

CacheHeader ==
    Reply("cache", [code |-> 200,
                    max_age |-> AddCacheControl(ask.score, ask.time, ask.known, ask.now)])

GetAddressesActive ==
    Reply("active", [code |-> 200, last |-> AddressesActive(ask.useScript, ask.asked, ask.tables)])

GetBlockColor ==
    \E color \in IF ask.kind = "color"
                 THEN Color(ask.transport, ask.isChainBlock, ask.told, ask.children) ELSE {} :
        Reply("color", IF color = "unavailable" THEN Failure(503)
                       ELSE [code |-> 200, color |-> color])

ResolveInputsFromDb ==
    Reply("inputs", [code |-> 200,
                     inputs |-> ResolveInputs(ask.inputs, ask.mode, ask.prepared, ask.db)])

ConvertScript ==
    Reply("script", [code |-> 200, script |-> LegacyScript(ask.version \o ask.script)])
-----------------------------------------------------------------------------
\* A setting that is off is 503; `wrong` is the answer to a day that is none.
PeriodAnswer(wrong, told) ==
    IF ~ask.enabled THEN Failure(503) ELSE IF ~ask.exists THEN Failure(wrong) ELSE told

RowsOfPeriod ==
    [code |-> 200, max_age |-> PeriodMaxAge(ask.period, ask.now),
     rows |-> PeriodRows(ask.period, ask.now, ask.table)]

GetTransactionCountForDay ==
    Reply("counts", PeriodAnswer(500, RowsOfPeriod))

GetAddressesActiveCountForDay ==
    Reply("actives", PeriodAnswer(500, RowsOfPeriod))

GetBalanceHistory ==
    Reply("balances", IF ask.enabled /\ ~ask.valid THEN Failure(400)
                      ELSE PeriodAnswer(400, RowsOfPeriod))

PointsOfPeriod(k) ==
    FilterSamples(Selected(ask.samples, RowsOfPeriod.rows), k)

GetHashrateHistoryForDayOrMonth ==
    LET k == SampleInterval(ask.resolution, TRUE)
        told == [code |-> 200, max_age |-> RowsOfPeriod.max_age, rows |-> RowsOfPeriod.rows,
                 points |-> PointsOfPeriod(k)]
    IN Reply("hashrates",
             PeriodAnswer(500, IF k = 0 /\ ~OutOfRange(ask.period, ask.now)
                               THEN Failure(400) ELSE told))

GetHashrateHistory ==
    LET k == SampleInterval(ask.resolution, FALSE)
    IN Reply("samples", IF ~ask.enabled THEN Failure(503)
                        ELSE IF k = 0 THEN Failure(400)
                        ELSE [code |-> 200, max_age |-> 3600,
                              points |-> FilterSamples(ask.samples, k)])

GetTransactionCountTotals ==
    LET rows == Seen(ask.table, ask.now)
    IN Reply("totals", IF ~ask.enabled THEN Failure(503)
                       ELSE IF rows = {} THEN Failure(404)
                       ELSE [code |-> 200, max_age |-> 300, count |-> CountOf(rows)])

Ranking(limits, aligned, default) ==
    IF ~ask.enabled THEN Failure(503)
    ELSE IF ask.limit \notin limits \/ ~aligned THEN Failure(400)
    ELSE [code |-> 200, max_age |-> BeforeMaxAge(ask.before, ask.now, default),
          rows |-> RankingRows(ask.before, ask.limit, ask.now, ask.table)]

GetAddressesTop ==
    Reply("top", Ranking({1}, ~Misaligned(ask.before, Hour), 60))

GetDistributionTiers ==
    Reply("tiers", Ranking({1, 24}, /\ ~Misaligned(ask.before, Hour)
                                    /\ ask.limit = 24 => ~Misaligned(ask.before, Day), 180))

\* The ids of a page, and then those of them that the search finds among the
\* transactions, `stored`: the mapping may be ahead of that table.
GetFullTransactions ==
    \E page \in IF ask.kind = "offset"
                THEN OffsetPages(ask.offset, ask.limit, Seen(ask.table, ask.now)) ELSE {} :
        Reply("offset", IF ~ask.valid THEN Failure(400)
                        ELSE IF Cardinality(page) > SearchLimit THEN Failure(422)
                        ELSE [code |-> 200, body |-> page \cap ask.stored,
                              max_age |-> OffsetMaxAge(ask.offset, page, ask.now)])
-----------------------------------------------------------------------------
GetBalance == Reply("balance", Balance(ask.transport, ask.outcome, ask.valid))
GetBalances == Reply("several", Balances(ask.transport, ask.outcome, ask.valid, ask.asked))
GetBlockdag == Reply("blockdag", Blockdag(ask.transport, ask.outcome))
GetHashrate == Reply("hashrate", Hashrate(ask.transport, ask.outcome))
GetKaspadInfo == Reply("kaspad", KaspadInfo(ask.transport, ask.outcome))
GetFeeEstimate == Reply("fees", FeeEstimate(ask.transport, ask.outcome))
GetVspc == Reply("vspc", VirtualChainFromBlock(ask.transport, ask.outcome))
GetCoinsupply == Reply("supply", Coinsupply(ask.transport, ask.outcome))
GetCirculating == Reply("coins", CirculatingCoins(ask.transport, ask.outcome))
GetSinkBlueScore == Reply("score", SinkBlueScore(ask.transport, ask.outcome))
GetBlocks == Reply("blocks", Blocks(ask.transport, ask.outcome))

Compute == \/ GetBlockreward \/ GetHalving \/ CalcStorageMass \/ GetTransactionMass
           \/ GetDifficulty \/ CacheHeader \/ GetAddressesActive \/ GetBlockColor
           \/ ResolveInputsFromDb \/ ConvertScript

History == \/ GetTransactionCountForDay \/ GetAddressesActiveCountForDay
           \/ GetBalanceHistory \/ GetHashrateHistoryForDayOrMonth \/ GetHashrateHistory
           \/ GetTransactionCountTotals \/ GetAddressesTop \/ GetDistributionTiers
           \/ GetFullTransactions

ReadNode == \/ GetBalance \/ GetBalances \/ GetBlockdag \/ GetHashrate \/ GetKaspadInfo
            \/ GetFeeEstimate \/ GetVspc \/ GetCoinsupply \/ GetCirculating
            \/ GetSinkBlueScore \/ GetBlocks

Next == Compute \/ History \/ ReadNode

Spec == Init /\ [][Next]_vars

Told(kinds) == ask.kind \in kinds /\ answer.code = 200
-----------------------------------------------------------------------------
(* daa_from_month "reverts" subsidy_month (deflationary_table.py:446-448): *)
(* the halving announced is the score, up to the second, at which the      *)
(* month changes to the one whose reward is announced, at most a month     *)
(* ahead.                                                                  *)
HalvingTold ==
    Told({"halving"}) =>
        LET next == DaaFromMonth(SubsidyMonth(ask.daa) + 1)
            early == next - (ask.daa + BPS * answer.seconds)
        IN /\ ask.daa < next /\ next <= ask.daa + PerMonth
           /\ SubsidyMonth(next) = SubsidyMonth(ask.daa) + 1
           /\ SubsidyMonth(next - 1) = SubsidyMonth(ask.daa)
           /\ 0 <= early /\ early < BPS
           /\ HasReward(next) => CalcBlockReward(next).current = answer.next

(* The reward never grows, and a year later it is the half, up to rounding *)
(* (deflationary_table.py:5-432, 451-456).                                 *)
RewardHalves ==
    Told({"blockreward"}) =>
        /\ CalcBlockReward(ask.daa).next <= answer.reward
        /\ LET year == ask.daa + 12 * PerMonth IN
           HasReward(year) => 2 * CalcBlockReward(year).current - answer.reward \in {-1, 0, 1}
-----------------------------------------------------------------------------
\* Output i in two, of which one has `part` of the amount.
Split(outs, i, part) ==
    Append([outs EXCEPT ![i].v = part], [outs[i] EXCEPT !.v = @ - part])

(* To split an output in two never makes a transaction lighter, whichever  *)
(* mean is taken before and after, if it makes no money and no whole input *)
(* is its fee (mass_calculation_storage.py:11-22).                         *)
SplittingCosts ==
    LET fee == Amounts(ask.ins) - Amounts(ask.outs) IN
    Told({"storage"}) /\ 0 <= fee /\ (\A i \in DOMAIN ask.ins : fee < ask.ins[i].v) =>
        \A i \in DOMAIN ask.outs : \A part \in 1..ask.outs[i].v - 1 :
            StorageMass(ask.ins, Split(ask.outs, i, part)) >= answer.storage

(* A mass is told exactly when every spent output is known, every new one  *)
(* has an amount, and the inputs, also those of one transaction, are no    *)
(* more than one search takes; it is computed on the outputs that the      *)
(* indexes name (get_transaction_mass.py:17-22, 41-68).                    *)
MassOfTheSpent ==
    ask.kind = "mass" /\ ~ask.tx.coinbase /\ answer # Waiting =>
        LET spent(i) == {d \in ask.db : d.transaction = ask.tx.ins[i].transaction
                                        /\ d.index = ask.tx.ins[i].index}
            known == \A i \in DOMAIN ask.tx.ins : spent(i) # {}
            made == \A i \in DOMAIN ask.tx.outs : ask.tx.outs[i].amount # 0
        IN /\ answer.code = 200 <=> known /\ made /\ Len(ask.tx.ins) <= SearchLimit
           /\ answer.code = 200 =>
                \E cells \in [DOMAIN ask.tx.ins -> {[p |-> UtxoPlurality(d.script, d.covenant),
                                                     v |-> d.amount] : d \in ask.db}] :
                   /\ \A i \in DOMAIN ask.tx.ins : \E d \in spent(i) : cells[i].v = d.amount
                   /\ answer.storage = StorageMass(cells, OutputCells(ask.tx))

(* The masses told are those of the transaction that is sent: of what it   *)
(* spends, and without gain from splitting.                                *)
MassesAgree == MassOfTheSpent /\ SplittingCosts
-----------------------------------------------------------------------------
(* The target read from the bits is the one they were made of, cut to its  *)
(* two or three leading bytes (difficulty_calculation.py:1-13).            *)
BitsRoundTrip ==
    Told({"bits"}) =>
        /\ answer.target = (ask.target \div ask.unit) * ask.unit
        /\ answer.target \in 1..MaxTarget => answer.difficulty >= 1

(* No point of the hashrate history mixes samples from before and after    *)
(* Crescendo, and none is computed at the other side's rate; newest first, *)
(* but for the pair at the crossing (get_hashrate_history.py:140-153).     *)
NoMixedPoint ==
    Told({"samples", "hashrates"}) =>
        LET points == answer.points IN
        /\ \A n \in DOMAIN points : \A i \in DOMAIN points[n].of :
              Rate(points[n].of[i]) = points[n].rate
        /\ \A n \in DOMAIN points \ {1} :
              \/ points[n].at.blue_score < points[n - 1].at.blue_score
              \/ points[n].rate = 10 /\ points[n - 1].rate = 1

(* A point of the hashrate history is the mean of difficulties that the    *)
(* headers had, at the block rate of their time ("Otherwise there will be  *)
(* artifacts produced in the graph", get_hashrate_history.py:141).         *)
HistoryIsHonest == BitsRoundTrip /\ NoMixedPoint
-----------------------------------------------------------------------------
(* What is kept for an hour, or ten minutes, no longer changes when rows   *)
(* come in at most two days, or two hours, after the fact                  *)
(* (get_transactions_count.py:96-99 and the same in three other files).    *)
CachedPeriodIsComplete ==
    Told(OfPeriod) =>
        LET late(d) == \A r \in ask.table : r.seen <= r.at + d
            final == answer.rows = {r \in ask.table : ask.period.start <= r.at
                                                      /\ r.at < End(ask.period)}
        IN /\ answer.max_age = 3600 /\ late(2 * Day) => final
           /\ answer.max_age = 600 /\ late(2 * Hour) => final

(* A ranking that is kept for a day is that of the last times before the   *)
(* one asked for, and stays it when rows are hourly and seen at most two   *)
(* hours later (get_address_top.py:46-58, get_address_distribution.py).    *)
CachedRankingIsFinal ==
    Told(OfRanking) /\ answer.max_age = 86400
        /\ (\A r \in ask.table : r.at % Hour = 0 /\ r.seen <= r.at + 2 * Hour) =>
        answer.rows = Newest(ask.limit, {r \in ask.table : \A b \in ask.before : r.at < b})

(* An answer about a block is kept no longer than its age, or the age of   *)
(* the blue score that its age is taken from, allows                       *)
(* (helper/utils.py:8-31).                                                 *)
KeptByAge ==
    Told({"cache"}) /\ ask.score > 0 /\ ask.known > 0 =>
        \/ answer.max_age <= Ttl(ask.sink - ask.score, BPS)
        \/ answer.max_age <= Ttl(ask.sink - ask.known, BPS)

(* No cache is told to keep for long what may still change: a day or month *)
(* that rows are missing from, a ranking before its hour was taken, or an  *)
(* answer about a block that is young by the clock used.                   *)
CachesAreSafe == CachedPeriodIsComplete /\ CachedRankingIsFinal /\ KeptByAge
-----------------------------------------------------------------------------
(* A month has the rows of its days, each once, and nothing else           *)
(* (get_transactions_count.py:82-94).                                      *)
MonthIsItsDays ==
    Told(OfPeriod) /\ ask.period.month /\ ask.period.start >= GenesisMonth =>
        LET day(d) == [month |-> FALSE, start |-> ask.period.start + d * Day, days |-> 1]
            rows(d) == PeriodRows(day(d), ask.now, ask.table)
            days == 0..ask.period.days - 1
        IN /\ answer.rows = UNION {rows(d) : d \in days}
           /\ \A d, e \in days : d # e => rows(d) \cap rows(e) = {}

(* The sum of all counts is that of the days since the genesis             *)
(* (get_transactions_count.py:47-64, 101-118).                             *)
TotalIsItsDays ==
    Told({"totals"}) =>
        LET day(d) == [month |-> FALSE, start |-> GenesisDay + d * Day, days |-> 1]
        IN answer.count = Total([d \in 0..(ask.now - GenesisDay) \div Day |->
                                    CountOf(PeriodRows(day(d), ask.now, ask.table))])

(* When no two transactions have the same block time, the pages at offsets *)
(* 0, limit, 2 limit, ... have every transaction of the address once, those *)
(* left out that are not in the table of transactions yet: a page does not *)
(* fill up from the next one (get_address_transactions.py:70-111).         *)
PagesPartition ==
    Told({"offset"}) /\ (\A r, s \in ask.table : r.at = s.at => r = s) =>
        LET newer(r) == Cardinality({s \in ask.table : s.seen <= ask.now /\ s.at > r.at})
        IN answer.body = {r \in ask.table \cap ask.stored : r.seen <= ask.now
                             /\ newer(r) \in ask.offset..ask.offset + ask.limit - 1}

(* What is answered in parts is the whole: the days of a month, those of   *)
(* all time, and the pages of an address.                                  *)
PagesAddUp == MonthIsItsDays /\ TotalIsItsDays /\ PagesPartition
-----------------------------------------------------------------------------
(* get_address_active.py:38, "checks if addresses have had any transaction *)
(* activity in the past": an address is active exactly when the mapping    *)
(* has a row of it, and its last block time is that of its newest row.     *)
ActiveIsUsed ==
    Told({"active"}) =>
        \A a \in ask.asked :
            answer.last[a] = Latest(RowsOf(a, Mapping(ask.useScript, ask.tables)))

(* A colour is the one that the network gave the block: that of a chain    *)
(* block, or of its place in the merge set of the one that merged it.  It  *)
(* is told whenever it is known, unless the node is the source and does    *)
(* not say blue (get_blocks.py:305-310, 325-363).                          *)
ColorIsTrue ==
    Told({"color"}) =>
        /\ answer.color \in {"none", ask.truth}
        /\ answer.color = "none" =>
              /\ ~ask.isChainBlock
              /\ IF ask.transport = "database" THEN ask.truth \notin ask.children
                 ELSE ask.told # "blue"

(* An input is told the amount of the output it spends, or none, and of a  *)
(* stored one the amount unless the request says "no"                      *)
(* (get_transactions.py:409-498).                                          *)
InputsAreThoseSpent ==
    Told({"inputs"}) =>
        \A i \in DOMAIN ask.inputs :
            LET told == answer.inputs[i]
                true == {d.amount : d \in SpentBy(ask.inputs[i], ask.chain)}
            IN /\ told.amount # 0 => told.amount \in true
               /\ told.amount # 0 <=> /\ ask.mode # "no"
                                      /\ ask.prepared \/ SpentBy(ask.inputs[i], ask.db) # {}
               /\ told.record <=> told.amount # 0 /\ ask.mode = "full"

(* A script of version 0 that does not begin with a zero byte, as none of  *)
(* the standard ones does, is answered unchanged (get_blocks.py:485-491).  *)
ScriptIsKept ==
    Told({"script"}) /\ (\A i \in DOMAIN ask.version : ask.version[i] = 0)
        /\ (ask.script = <<>> \/ ask.script[1] # 0 \/ ask.script[2] # 0) =>
        answer.script = ask.script

(* rpc.proto:14, "Receivers of any ResponseMessage are expected to check   *)
(* whether its error field is not null": a response over gRPC that has an  *)
(* error is not answered 200; without addresses there is no response.      *)
RefusalsAreTold ==
    Told(OfNode) /\ ask.transport = "grpc" /\ ask.outcome = "refuses" => answer.data = "empty"

(* Nor is silence, or any failure over wRPC, taken for an answer, but for  *)
(* the blocks from a hash over wRPC, answered to be none                   *)
(* (KaspadThread.py:65-66, get_blocks.py:191-198).                         *)
SilenceIsTold ==
    Told(OfNode) /\ ask.outcome # "answers" /\ (ask.outcome = "refuses" => ask.transport = "wrpc") =>
        \/ ask.kind = "blocks" /\ ask.transport = "wrpc" /\ answer.data = "empty"
        \/ ask.kind = "several" /\ ask.asked = {}

(* What one read is answered with is what was read: colours, rewards,      *)
(* spent outputs, scripts, the activity of scripts, and silence.           *)
ReadsAreTrue ==
    /\ ColorIsTrue /\ RewardHalves /\ InputsAreThoseSpent /\ ScriptIsKept /\ SilenceIsTold
    /\ Told({"active"}) /\ ask.useScript => ActiveIsUsed
=============================================================================
