--------------------------- MODULE HashrateHistory --------------------------
(***************************************************************************)
(* Difficulty from the compact bits of a header, and the thinning of the   *)
(* hashrate samples, which must not mix the difficulties from before and   *)
(* after Crescendo.                                                        *)
(***************************************************************************)
EXTENDS Integers, Sequences

CONSTANTS Byte,        \* 2^8: the base of the compact format
          MaxTarget,   \* 2^255 - 1
          CrescendoBs

ASSUME HistoryAssumption ==
    Byte \in Nat \ {0} /\ MaxTarget \in Nat /\ CrescendoBs \in Int

\* A shift by n bytes.
Shift[n \in Nat] == IF n = 0 THEN 1 ELSE Byte * Shift[n - 1]

\* The mantissa has three bytes, the upper half of its range means 0.
FromCompactTargetBits(bits) ==
    LET expt == bits \div Shift[3]
        mant == bits % Shift[3]
        m == IF expt <= 3 THEN mant \div Shift[3 - expt] ELSE mant
    IN IF 2 * m >= Shift[3] THEN 0
       ELSE IF expt <= 3 THEN m ELSE m * Shift[expt - 3]

\* -1 for an infinite difficulty, of which no integer can be made.
BitsToDifficulty(bits) ==
    LET target == FromCompactTargetBits(bits)
    IN IF target = 0 THEN -1 ELSE MaxTarget \div target

\* samples: by decreasing DAA score.
Chunk(samples, i, k) ==
    SubSeq(samples, i, IF i + k - 1 <= Len(samples) THEN i + k - 1 ELSE Len(samples))
Rate(s) == IF s.blue_score < CrescendoBs THEN 1 ELSE 10

\* One point of the answer: the sample it is dated to, the samples whose
\* difficulty it averages, and the blocks per second of its hashrate.
Point(s, of, rate) == [at |-> s, of |-> of, rate |-> rate]

\* Every chunk gives one average (mutant).
PointsAveraged(chunk) == <<Point(Head(chunk), chunk, Rate(Head(chunk)))>>

Points(chunk) ==
    LET first == chunk[Len(chunk)]
        last == chunk[1]
    IN IF first.blue_score < CrescendoBs /\ CrescendoBs <= last.blue_score
       THEN <<Point(first, <<first>>, 1), Point(last, <<last>>, 10)>>
       ELSE <<Point(last, chunk, Rate(last))>>

FilterSamples(samples, k) ==
    LET upto[n \in 0..Len(samples)] ==
            IF n = 0 THEN <<>>
            ELSE IF (n - 1) % k = 0 THEN upto[n - 1] \o Points(Chunk(samples, n, k))
            ELSE upto[n - 1]
    IN upto[Len(samples)]

\* The samples that a query for `rows` returns.
Selected(samples, rows) ==
    LET upto[n \in 0..Len(samples)] ==
            IF n = 0 THEN <<>>
            ELSE IF samples[n] \in rows THEN Append(upto[n - 1], samples[n])
            ELSE upto[n - 1]
    IN upto[Len(samples)]

\* resolution_map over samples of 15 minutes; 0: refused with 400.
SampleInterval(resolution, ofPeriod) ==
    CASE resolution = "none"                -> IF ofPeriod THEN 1 ELSE 4
      [] resolution = "15m"                 -> 1
      [] resolution = "1h"                  -> 4
      [] resolution = "3h" /\ ~ofPeriod     -> 12
      [] resolution = "1d" /\ ~ofPeriod     -> 96
      [] resolution = "7d" /\ ~ofPeriod     -> 672
      [] OTHER                              -> 0
=============================================================================
