----------------------------- MODULE BlockReward ----------------------------
(***************************************************************************)
(* Block reward and halving: the subsidy table of                          *)
(* helper/deflationary_table.py, its month as a function of the DAA score, *)
(* and the way back.  The 426 entries of the table are its first twelve,   *)
(* each halved twelve entries later and rounded down.                      *)
(***************************************************************************)
EXTENDS Constants

CONSTANTS YearOne,         \* the first twelve entries, in sompi per second
          Months,          \* the length of the table
          SecondsPerMonth,
          Crescendo,       \* DAA_CRESCENDO
          Deflationary     \* DAA_DEFLATIONARY_PHASE - 259200

\* The entries of the first year do not grow, nor is the next year's first
\* one more than its last (deflationary_table.py:6-17).
ASSUME TableAssumption ==
    /\ Months \in Nat \ {0} /\ YearOne \in [1..12 -> Nat]
    /\ \A m \in 1..11 : YearOne[m + 1] <= YearOne[m]
    /\ YearOne[1] \div 2 <= YearOne[12]
ASSUME TimeAssumption ==
    /\ SecondsPerMonth \in Nat \ {0}
    /\ Crescendo \in Nat /\ Deflationary \in Nat
    /\ Crescendo <= (Crescendo - Deflationary) * BPS   \* no month is negative

Subsidy[m \in 0..Months - 1] ==
    IF m < 12 THEN YearOne[m + 1] ELSE Subsidy[m - 12] \div 2

Ceiling(x) == (x + BPS - 1) \div BPS

PerMonth == SecondsPerMonth * BPS
AtCrescendo == (Crescendo - Deflationary) * BPS   \* had all of it been at BPS

SubsidyMonth(daa) == (AtCrescendo + daa - Crescendo) \div PerMonth

\* The rate before Crescendo is used after it (mutant of DaaFromMonth).
DaaFromMonthOldRate(month) == month * SecondsPerMonth + Deflationary

DaaFromMonth(month) == month * PerMonth - AtCrescendo + Crescendo

\* In sompi; an index past the table is an exception.
HasReward(daa) == SubsidyMonth(daa) + 1 \in DOMAIN Subsidy

CalcBlockReward(daa) ==
    LET month == SubsidyMonth(daa) IN
    [current |-> Ceiling(Subsidy[month]),
     next |-> Ceiling(Subsidy[month + 1]),
     daa_next_halving |-> DaaFromMonth(month + 1)]

\* get_halving: in how many seconds the next month begins.
SecondsToHalving(daa) == (CalcBlockReward(daa).daa_next_halving - daa) \div BPS
=============================================================================
