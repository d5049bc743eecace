--------------------------- MODULE MCCalculations ---------------------------
(***************************************************************************)
(* The questions that TLC asks of Calculations.  The subsidy table is the  *)
(* real one from its 61st entry on: those before it do not fit into the    *)
(* integers of TLC, and the first twelve of the rest, halved, give the     *)
(* others again.                                                           *)
(***************************************************************************)
EXTENDS Calculations

MCYearOne == << 1375000000, 1297827179, 1224985737, 1156232570, 1091338223, 1030086115,
                972271824, 917702399, 866195721, 817579891, 771692658, 728380877 >>

RewardAsk == [kind : {"blockreward", "halving"}, daa : 0..2200]

\* Amounts from a few up to what adds nothing to a mass.
Cell == [p : {1, 2}, v : {2, 3, 8, C + 1}]
StorageAsk == [kind : {"storage"}, ins : UNION {[1..n -> Cell] : n \in 1..3},
               outs : UNION {[1..n -> [p : {1}, v : {2, 3, 8, C + 1}] \cup {[p |-> 2, v |-> 8]}] : n \in 1..2}]

\* Two transactions in the database, one of them with two outputs.
Known == {[transaction |-> "a", index |-> 0, script |-> 34, covenant |-> FALSE, amount |-> 8],
          [transaction |-> "a", index |-> 1, script |-> 35, covenant |-> TRUE, amount |-> 3],
          [transaction |-> "b", index |-> 1, script |-> 100, covenant |-> FALSE, amount |-> 5]}
Spends(t, n, ops, budget) ==
    [transaction |-> t, index |-> n, signature |-> 66, ops |-> ops, budget |-> budget]
Spent == {Spends(t, n, 1, b) : t \in {"a", "b"}, n \in {0, 1}, b \in {0, 10}}
Made == [script : {34, 100}, covenant : BOOLEAN, amount : {-7, 0, 8}]
Body(ins) == [version : {0, 1}, coinbase : BOOLEAN, payload : {0}, ins : ins, outs : [1..1 -> Made]]

\* Up to two inputs of any kind, and one more than the search takes, of one
\* transaction or of both.
TooMany == {<<i, j, i>> : i \in Spent, j \in Spent}
MassAsk == [kind : {"mass"}, db : SUBSET Known,
            tx : Body({<<>>} \cup [1..1 -> Spent] \cup [1..2 -> Spent])]
           \cup [kind : {"mass"}, db : {{}, Known}, tx : Body(TooMany)]

\* The compact form of a target: the fewest bytes, and one more if the first
\* is in the upper half of its range.
Bytes(t) == CHOOSE n \in 0..9 : t < Shift[n] /\ (n = 0 \/ t >= Shift[n - 1])
Compact(t) ==
    LET n == Bytes(t)
        top == IF n = 0 THEN 0 ELSE IF n <= 3 THEN t * Shift[3 - n] ELSE t \div Shift[n - 3]
        e == IF 2 * top >= Shift[3] THEN n + 1 ELSE n
        m == IF e = n THEN top ELSE top \div Byte
    IN [bits |-> e * Shift[3] + m, unit |-> IF e <= 3 THEN 1 ELSE Shift[e - 3]]
BitsAsk == {[kind |-> "bits", target |-> t, bits |-> Compact(t).bits, unit |-> Compact(t).unit]
               : t \in 0..2000}

\* Fourteen samples at the most, some of them across Crescendo.
Samples(n, b) == [i \in 1..n |-> [blue_score |-> b + 2 * (n - i),
                                  at |-> GenesisDay + n - i, seen |-> GenesisDay + n - i + 1]]
Resolutions == {"none", "15m", "1h", "3h", "1w"}
SamplesAsk ==
    {[kind |-> "samples", enabled |-> e, resolution |-> r, samples |-> Samples(n, b)]
        : e \in BOOLEAN, r \in Resolutions, n \in 0..14, b \in {0, 1, 20, 60}}

Times == GenesisDay..GenesisDay + 12
Row == [at : Times, seen : GenesisDay..GenesisDay + 20, count : {1}]
Late(r) == r.seen - r.at \in {0, Hour, 2 * Hour, 2 * Hour + 1, 2 * Day, 2 * Day + 1}
Tables == {{}} \cup {{r} : r \in {s \in Row : Late(s)}}
Period == [month : {FALSE}, days : {1}, start : {n * Day : n \in 0..7}]
          \cup [month : {TRUE}, days : {2, 3}, start : {GenesisMonth - Day, GenesisMonth, GenesisMonth + 2 * Day}]
Moments == {n * Hour : n \in 1..28}
PeriodAsk ==
    [kind : {"counts", "actives"}, enabled : {TRUE}, exists : {TRUE},
     period : Period, now : Moments, table : Tables]
    \cup [kind : {"counts", "actives", "balances", "hashrates"}, enabled : BOOLEAN, exists : BOOLEAN,
          valid : BOOLEAN, resolution : {"none"}, samples : {<<>>},
          period : Period, now : {4 * Hour}, table : {{}}]
    \cup [kind : {"balances"}, enabled : {TRUE}, exists : {TRUE}, valid : {TRUE},
          period : Period, now : {n * Day : n \in 1..9}, table : Tables]
    \cup {[kind |-> "hashrates", enabled |-> TRUE, exists |-> TRUE, resolution |-> r, period |-> p,
           now |-> t, samples |-> Samples(n, b), table |-> {Samples(n, b)[i] : i \in 1..n}]
             : r \in Resolutions, p \in Period, t \in {n * Day : n \in 1..9},
               n \in {0, 1, 4, 14}, b \in {0, 1, 20}}

Counted == {[at |-> GenesisDay + n, seen |-> GenesisDay + n + d, count |-> n] : n \in {1, 5, 6, 11}, d \in {0, 3}}
TotalsAsk == [kind : {"totals"}, enabled : BOOLEAN, now : GenesisDay..GenesisDay + 12, table : SUBSET Counted]

Snapshot == {[at |-> n * Hour, seen |-> n * Hour + d] : n \in 1..5, d \in {0, Hour, 2 * Hour, 2 * Hour + 1}}
RankingAsk == [kind : {"top", "tiers"}, enabled : {TRUE}, before : {{}} \cup {{b} : b \in 0..16},
               limit : {1, 24}, now : 0..16,
               table : {T \in SUBSET Snapshot : Cardinality(T) <= 2
                           /\ \A r, s \in T : r.at = s.at => r = s}]
              \cup [kind : {"top", "tiers"}, enabled : BOOLEAN, before : {{}, {Hour}},
                    limit : {1, 2}, now : {4}, table : {{}}]

\* Four transactions of an address, two of which may have the same time, and
\* the three oldest of which may be missing from the table of transactions.
Received == {[at |-> n, seen |-> n] : n \in {1, 4, 5}} \cup {[at |-> 4, seen |-> 9]}
OffsetAsk == [kind : {"offset"}, valid : BOOLEAN, offset : 0..3, limit : 1..3,
              now : {0, 4, 5, 6, 9, 11}, table : SUBSET Received,
              stored : {S \in SUBSET Received : [at |-> 5, seen |-> 5] \in S}]

Sink == 2000000
Ages == {0, 39, 40, 119, 120, 1199, 1200, 7199, 7200, 21600, 72000, 172800, 345600, 400000}
CacheAsk == {[kind |-> "cache", sink |-> Sink, score |-> s, known |-> k, time |-> t, now |-> 900000]
               : s \in {0} \cup {Sink - a : a \in Ages}, k \in {0} \cup {Sink - a : a \in Ages},
                 t \in {0, 1, 880001, 880000}}

Mappings == [of : {"a", "b"}, time : {1, 2}]
ActiveAsk(useScript) ==
    [kind : {"active"}, useScript : {useScript}, asked : SUBSET {"a", "b", "c"},
     tables : [addr : SUBSET Mappings, script : SUBSET Mappings]]
MCActiveAsk == ActiveAsk(FALSE)

\* At most one chain block merges a block, and the node knows its colour if
\* one did.
ColorAsk ==
    {a \in [kind : {"color"}, truth : {"none", "blue", "red"}, transport : Transport \cup {"database"},
             isChainBlock : BOOLEAN, told : {"none", "blue", "red", "refuses", "silent"},
             children : SUBSET Merges] :
        /\ a.isChainBlock => a.truth = "blue"
        /\ a.told \in {"refuses", "silent", a.truth}
        /\ a.children \subseteq {"no", a.truth}}

\* The chain has two outputs of one transaction, and one of another; the
\* database some of them.  An indexer that prepares the inputs knows each.
Chain == {[transaction |-> t, index |-> n, amount |-> IF t = "a" THEN n + 1 ELSE 3]
             : t \in {"a", "b"}, n \in {0, 1}}
Input == [transaction : {"a", "b"}, index : {0, 1}]
Of(i, prepared) ==
    [transaction |-> i.transaction, index |-> i.index,
     amount |-> IF prepared THEN (CHOOSE d \in SpentBy(i, Chain) : TRUE).amount ELSE 0]
InputsAsk ==
    {[kind |-> "inputs", mode |-> m, prepared |-> p, chain |-> Chain, db |-> d,
      inputs |-> <<Of(i, p), Of(j, p)>>]
        : m \in {"no", "light", "full"}, p \in BOOLEAN, d \in SUBSET Chain, i \in Input, j \in Input}

Digits(n) == [1..n -> {0, 1}]
ScriptAsk == [kind : {"script"}, version : {<<0, 0, 0, 0>>, <<0, 0, 0, 1>>},
              script : Digits(0) \cup Digits(2) \cup Digits(4) \cup Digits(6)]

NodeAsk == [kind : OfNode, transport : Transport, outcome : Outcome, valid : BOOLEAN]
SeveralAsk == [kind : {"several"}, transport : Transport, outcome : Outcome,
               valid : {{"a"}}, asked : SUBSET {"a", "b"}]

MCNodeAsk == {a \in NodeAsk : a.kind # "several"} \cup SeveralAsk

MCAsk == RewardAsk \cup StorageAsk \cup MassAsk \cup BitsAsk \cup SamplesAsk
         \cup PeriodAsk \cup TotalsAsk \cup RankingAsk \cup OffsetAsk \cup CacheAsk
         \cup ActiveAsk(TRUE) \cup ColorAsk \cup InputsAsk \cup ScriptAsk
         \cup MCNodeAsk
=============================================================================
