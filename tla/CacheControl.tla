---------------------------- MODULE CacheControl ----------------------------
(***************************************************************************)
(* How long the caches in front of the server may keep an answer: the      *)
(* ladder of helper/utils.py over the age of a block or transaction, and   *)
(* the one of get_address_transactions_count over the size of a count.     *)
(***************************************************************************)
EXTENDS Constants

Dist(x, y) == IF x <= y THEN y - x ELSE x - y

\* The seconds to keep what is x old, of which there are `unit` to a second.
Ttl(x, unit) ==
    IF      x < 20 * unit     THEN 4
    ELSE IF x < 60 * unit     THEN 20
    ELSE IF x < 600 * unit    THEN 60
    ELSE IF x < 3600 * unit   THEN 600
    ELSE IF x < 10800 * unit  THEN 1200
    ELSE IF x < 36000 * unit  THEN 3600
    ELSE IF x < 86400 * unit  THEN 10800
    ELSE IF x < 172800 * unit THEN 36000
    ELSE                           86400

NoHeader == 8   \* server.py: what CacheControlMiddleware adds to a GET without one

(* `known` is the blue score the loop last stored, times are milliseconds; *)
(* 0 stands for what is not given, as it does in the code.                 *)
AddCacheControl(score, time, known, now) ==
    IF score > 0 /\ known > 0 THEN Ttl(Dist(known, score), BPS)
    ELSE IF time > 0           THEN Ttl(Dist(now, time), 1000)
    ELSE                            NoHeader

\* get_transaction_count_for_address, without a helper table.
CountTtl(count) == IF      count >= 1000000 THEN 600
                   ELSE IF count >= 100000  THEN 60
                   ELSE IF count >= 10000   THEN 20
                   ELSE                          8
=============================================================================
