------------------------------ MODULE Periods -------------------------------
(***************************************************************************)
(* Answers about the past and how long caches may keep them: the four      *)
(* endpoints that take a day or a month (counts, active addresses, balance *)
(* and hashrate history), the two rankings that take `before`, and the     *)
(* transactions of an address by offset.  A row has a timestamp, and is    *)
(* seen from some later moment on.                                         *)
(***************************************************************************)
EXTENDS Sums, FiniteSets, FiniteSetsExt

CONSTANTS Hour, Day,
          Soon,          \* ten minutes
          GenesisDay,    \* GENESIS_START_OF_DAY_MS
          GenesisMonth   \* GENESIS_START_OF_MONTH_MS

ASSUME PeriodsAssumption ==
    Hour \in Nat \ {0} /\ Day \in Nat \ {0} /\ Soon \in Nat
    /\ GenesisDay \in Int /\ GenesisMonth \in Int

Seen(table, now) == {r \in table : r.seen <= now}
-----------------------------------------------------------------------------
\* A period: the moment it starts, its days, and whether it is a month.
End(p) == p.start + p.days * Day
OutOfRange(p, now) ==
    \/ p.start < (IF p.month THEN GenesisMonth ELSE GenesisDay)
    \/ p.start > now

\* The start is compared, as for the refusal (mutant of PeriodMaxAge).
PeriodMaxAgeByStart(p, now) ==
    IF OutOfRange(p, now) THEN 300
    ELSE IF p.start < now - 2 * Day  THEN 3600
    ELSE IF p.start < now - 2 * Hour THEN 600 ELSE 300

PeriodMaxAge(p, now) ==
    IF OutOfRange(p, now) THEN 300
    ELSE IF End(p) < now - 2 * Day  THEN 3600
    ELSE IF End(p) < now - 2 * Hour THEN 600
    ELSE 300

\* Both ends belong to the period (mutant of PeriodRows).
PeriodRowsClosed(p, now, table) ==
    IF OutOfRange(p, now) THEN {}
    ELSE {r \in Seen(table, now) : p.start <= r.at /\ r.at <= End(p)}

PeriodRows(p, now, table) ==
    IF OutOfRange(p, now) THEN {}
    ELSE {r \in Seen(table, now) : p.start <= r.at /\ r.at < End(p)}

\* get_transaction_count_totals: over all rows there are.
CountOf(rows) == Total([r \in rows |-> r.count])
-----------------------------------------------------------------------------
\* before: {}, or the moment asked for.
Misaligned(before, grid) == \E b \in before : b % grid # 0

BeforeMaxAge(before, now, default) ==
    IF \E b \in before : b < now - Hour THEN 86400 ELSE default

Ahead(before, now) == \E b \in before : b >= now - Hour /\ b > now + Soon

\* The rows of the `limit` newest timestamps.
Newest(limit, rows) ==
    {r \in rows : Cardinality({s.at : s \in {t \in rows : t.at > r.at}}) < limit}

RankingRows(before, limit, now, table) ==
    IF Ahead(before, now) THEN {}
    ELSE Newest(limit, {r \in Seen(table, now) : \A b \in before : r.at < b})
-----------------------------------------------------------------------------
\* LIMIT and OFFSET over rows by descending time; ties come in any order.
OffsetPages(offset, limit, rows) ==
    {P \in SUBSET rows : \E skipped \in SUBSET (rows \ P) :
        /\ Cardinality(skipped) = Min({offset, Cardinality(rows)})
        /\ Cardinality(P) = Min({limit, Cardinality(rows \ skipped)})
        /\ \A s \in skipped, r \in rows \ skipped : s.at >= r.at
        /\ \A p \in P, r \in rows \ (skipped \cup P) : p.at >= r.at}

\* The first page changes with every transaction, the others seldom.
OffsetMaxAge(offset, page, now) ==
    LET newest == Max({r.at : r \in page} \cup {0}) IN
    IF offset = 0 \/ newest = 0 THEN 8
    ELSE IF now - newest < Soon THEN 8
    ELSE IF now - newest < Day THEN 60
    ELSE 600
=============================================================================
