-------------------------- MODULE MCAddressTables ---------------------------
(* Instances of AddressTables for TLC.                                     *)
EXTENDS AddressTables

CONSTANTS a, b, r1, r2

\* Both requests are in one worker.
MCAt == [r \in Request |-> CHOOSE w \in Worker : TRUE]

Asking(op1, A, op2, B) ==
    [r \in Request |-> IF r = r1 THEN [op |-> op1, addrs |-> A] ELSE [op |-> op2, addrs |-> B]]

\* Those that meet in a global or only in the pool, and two addresses in one.
MCAsks == {Asking("utxos", {a, b}, "utxos", {a}), Asking("utxos", {a, b}, "count", {a}),
           Asking("utxos", {a}, "transactions", {a}),
           Asking("transactions", {a}, "transactions", {a}),
           Asking("transactions", {a}, "total", {a})}
=============================================================================
