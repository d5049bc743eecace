----------------------------- MODULE MarketData -----------------------------
(***************************************************************************)
(* Price and market data in one worker: get_kas_price on top of            *)
(* get_kas_market_data, each behind a cache of aiocache, the two sources   *)
(* with their timeout, the last good answer and the pause after a 429.     *)
(* Data is its age, counted from the moment its query was sent; time is    *)
(* counted in units of the timeout.  What the event loop does between two  *)
(* waits takes no time.                                                    *)
(***************************************************************************)
EXTENDS Naturals

CONSTANTS Caller,   \* concurrent calls
          Startup,  \* the one that main.py:startup makes
          TTL,      \* of both caches
          CoolOff,  \* the pause after a 429
          Timeout,  \* of a query
          MaxAge,   \* ages above it are not told apart
          None

ASSUME CallerAssumption == Startup \in Caller
ASSUME NoneAssumption == None \notin Nat
ASSUME TimeAssumption ==
    /\ TTL \in Nat \ {0} /\ CoolOff \in Nat /\ Timeout \in Nat \ {0}
    /\ MaxAge \in Nat /\ MaxAge > 2 * TTL + Timeout /\ MaxAge > CoolOff
    /\ MaxAge >= 2 * Timeout

VARIABLES
    cache,   \* CACHE
    flood,   \* age of FLOOD_DETECTED, None for False
    market,  \* the cached result of get_kas_market_data, and how long it lives
    price,   \* the same of get_kas_price
    app,     \* "starting", "up" or "dead"
    pc, want,
    val,     \* the data the call is about to return
    sent,    \* age of its current query
    began,   \* history: age of its test of the pause
    had,     \* history: there was a good answer when it began
    trouble  \* history: age of the last call that got no new data

stores == <<cache, flood, market, price>>
call == <<pc, want, val, sent, began, had>>
vars == <<stores, app, call, trouble>>

Age == 0..MaxAge
Data == Age \cup {None}
Entry == [val : Data, left : 0..TTL]

PC == {"idle", "price", "market", "body", "mirror", "origin", "json", "store",
       "store_price", "supply", "answered", "failed"}
Settled == {"idle", "answered", "failed"}
Waiting == {"mirror", "origin", "json"}

Older(a) == IF a = None \/ a = MaxAge THEN a ELSE a + 1

\* The pause after a 429 is over, or there was none.
Lifted == IF flood = None THEN TRUE ELSE flood > CoolOff

\* aiocache takes a cached None for a miss.
Hit(e) == e.left > 0 /\ e.val # None
Live(v) == [val |-> v, left |-> TTL]
Expired == [val |-> None, left |-> 0]

Goto(c, p) == pc' = [pc EXCEPT ![c] = p]
Returns(c, v) == val' = [val EXCEPT ![c] = v]

\* Where a call goes on when it has its market data, or its price: the market
\* cap is computed from the price.
WithMarket(c, v) == IF want[c] = "market" THEN "answered"
                    ELSE IF v = None THEN "failed" ELSE "store_price"
WithPrice == {"answered", "supply"}
-----------------------------------------------------------------------------
Init ==
    /\ cache = None /\ flood = None /\ market = Expired /\ price = Expired
    /\ app = "starting"
    /\ pc = [c \in Caller |-> IF c = Startup THEN "market" ELSE "idle"]
    /\ want = [c \in Caller |-> "market"]
    /\ val = [c \in Caller |-> None]
    /\ sent = [c \in Caller |-> 0] /\ began = [c \in Caller |-> 0]
    /\ had = [c \in Caller |-> FALSE]
    /\ trouble = MaxAge

Ask(c) ==
    /\ app = "up" /\ pc[c] \in Settled
    /\ \E w \in {"market", "price"} :
          /\ want' = [want EXCEPT ![c] = w]
          /\ Goto(c, w)
    /\ Returns(c, None)
    /\ sent' = [sent EXCEPT ![c] = 0] /\ began' = [began EXCEPT ![c] = 0]
    /\ had' = [had EXCEPT ![c] = cache # None]
    /\ UNCHANGED <<stores, app, trouble>>

\* An exception at startup ends the worker.
Started ==
    /\ app = "starting"
    /\ \/ pc[Startup] = "answered" /\ app' = "up"
       \/ pc[Startup] = "failed" /\ app' = "dead"
    /\ UNCHANGED <<stores, call, trouble>>

\* A hit gives the entry another life (mutant).
LookupPriceRenews(c) ==
    /\ pc[c] = "price"
    /\ IF Hit(price)
       THEN /\ Returns(c, price.val) /\ \E p \in WithPrice : Goto(c, p)
            /\ price' = [price EXCEPT !.left = TTL]
       ELSE Goto(c, "market") /\ UNCHANGED <<val, price>>
    /\ UNCHANGED <<cache, flood, market, app, want, sent, began, had, trouble>>

LookupPrice(c) ==
    /\ pc[c] = "price"
    /\ IF Hit(price)
       THEN Returns(c, price.val) /\ \E p \in WithPrice : Goto(c, p)
       ELSE Goto(c, "market") /\ UNCHANGED val
    /\ UNCHANGED <<stores, app, want, sent, began, had, trouble>>

LookupMarket(c) ==
    /\ pc[c] = "market"
    /\ IF Hit(market)
       THEN Returns(c, market.val) /\ Goto(c, WithMarket(c, market.val))
       ELSE Goto(c, "body") /\ UNCHANGED val
    /\ UNCHANGED <<stores, app, want, sent, began, had, trouble>>

\* The pause is not tested (mutant).
BodyWithoutPause(c) ==
    /\ pc[c] = "body"
    /\ Goto(c, "mirror")
    /\ sent' = [sent EXCEPT ![c] = 0] /\ began' = [began EXCEPT ![c] = 0]
    /\ UNCHANGED <<stores, app, want, val, had, trouble>>

Body(c) ==
    /\ pc[c] = "body"
    /\ IF Lifted
       THEN /\ Goto(c, "mirror")
            /\ sent' = [sent EXCEPT ![c] = 0] /\ began' = [began EXCEPT ![c] = 0]
            /\ UNCHANGED <<val, trouble>>
       ELSE /\ Goto(c, "store")
            /\ Returns(c, cache)
            /\ trouble' = 0
            /\ UNCHANGED <<sent, began>>
    /\ UNCHANGED <<stores, app, want, had>>

\* New data, from either source.
Fetched(c) ==
    /\ cache' = sent[c]
    /\ Returns(c, sent[c])
    /\ Goto(c, "store")
    /\ UNCHANGED trouble

\* No new data: the last good answer, as it is now.
NotFetched(c) ==
    /\ Returns(c, cache)
    /\ Goto(c, "store")
    /\ trouble' = 0
    /\ UNCHANGED cache

Mirror(c) ==
    /\ pc[c] = "mirror"
    /\ \/ Fetched(c) /\ flood' = None /\ UNCHANGED sent
       \/ /\ Goto(c, "origin")          \* a status, an exception, or the timeout
          /\ sent' = [sent EXCEPT ![c] = 0]
          /\ UNCHANGED <<cache, flood, val, trouble>>
    /\ UNCHANGED <<market, price, app, want, began, had>>

\* A refusal also forgets the last good answer (mutant).
OriginForgets(c) ==
    /\ pc[c] = "origin"
    /\ \/ /\ cache' = None /\ flood' = 0 /\ trouble' = 0
          /\ Returns(c, None) /\ Goto(c, "store")
       \/ flood' = None /\ Goto(c, "json") /\ UNCHANGED <<cache, val, trouble>>
    /\ UNCHANGED <<market, price, app, want, sent, began, had>>

\* After a refusal the source is asked again at once (mutant).
OriginRetries(c) ==
    /\ pc[c] = "origin"
    /\ \/ Goto(c, "body") /\ UNCHANGED <<cache, flood, val, trouble>>
       \/ flood' = None /\ Goto(c, "json") /\ UNCHANGED <<cache, val, trouble>>
    /\ UNCHANGED <<market, price, app, want, sent, began, had>>

Origin(c) ==
    /\ pc[c] = "origin"
    /\ \/ NotFetched(c) /\ flood' = 0                 \* 429
       \/ NotFetched(c) /\ UNCHANGED flood            \* another status
       \/ /\ flood' = None /\ Goto(c, "json")         \* 200
          /\ UNCHANGED <<cache, val, trouble>>
       \/ Goto(c, "failed") /\ UNCHANGED <<cache, flood, val, trouble>>
    /\ UNCHANGED <<market, price, app, want, sent, began, had>>

\* The body of the second source, which may be late or not as expected.
Json(c) ==
    /\ pc[c] = "json"
    /\ \/ Fetched(c)
       \/ Goto(c, "failed") /\ UNCHANGED <<cache, val, trouble>>
    /\ UNCHANGED <<flood, market, price, app, want, sent, began, had>>

Store(c) ==
    /\ pc[c] = "store"
    /\ market' = Live(val[c])
    /\ Goto(c, WithMarket(c, val[c]))
    /\ UNCHANGED <<cache, flood, price, app, want, val, sent, began, had, trouble>>

StorePrice(c) ==
    /\ pc[c] = "store_price"
    /\ price' = Live(val[c])
    /\ \E p \in WithPrice : Goto(c, p)
    /\ UNCHANGED <<cache, flood, market, app, want, val, sent, began, had, trouble>>

\* The market cap also needs the supply, a question to the node.
Supply(c) ==
    /\ pc[c] = "supply"
    /\ Goto(c, "answered") \/ Goto(c, "failed")
    /\ UNCHANGED <<stores, app, want, val, sent, began, had, trouble>>

\* No query outlives its timeout, and what does not wait takes no time.
Passing(e) == IF e.left <= 1 THEN Expired ELSE [val |-> Older(e.val), left |-> e.left - 1]

MayPass == \A c \in Caller : /\ pc[c] \in Settled \cup Waiting \cup {"supply"}
                             /\ pc[c] \in Waiting => sent[c] < Timeout

Tick ==
    /\ MayPass
    /\ cache' = Older(cache)
    /\ flood' = IF Lifted THEN flood ELSE Older(flood)
    /\ market' = Passing(market) /\ price' = Passing(price)
    /\ val' = [c \in Caller |-> IF pc[c] \in Settled THEN None ELSE Older(val[c])]
    /\ sent' = [c \in Caller |-> IF pc[c] \in Waiting THEN Older(sent[c]) ELSE 0]
    /\ began' = [c \in Caller |-> IF pc[c] \in Waiting THEN Older(began[c]) ELSE 0]
    /\ trouble' = Older(trouble)
    /\ UNCHANGED <<app, pc, want, had>>

Step(c) == \/ LookupPrice(c) \/ LookupMarket(c) \/ Body(c) \/ Mirror(c)
           \/ Origin(c) \/ Json(c) \/ Store(c) \/ StorePrice(c) \/ Supply(c)

Next == Started \/ Tick \/ \E c \in Caller : Ask(c) \/ Step(c)

Spec == Init /\ [][Next]_vars

(* The event loop runs what is ready, and aiohttp ends a query in time; an *)
(* RPC has a deadline of its own.                                          *)
FairSpec == Spec /\ WF_vars(Started) /\ \A c \in Caller : WF_vars(Step(c))
-----------------------------------------------------------------------------
(* Every variable has its type, and the queries are within their timeout.  *)
TypeOK ==
    /\ cache \in Data /\ flood \in Data
    /\ market \in Entry /\ price \in Entry
    /\ app \in {"starting", "up", "dead"}
    /\ pc \in [Caller -> PC]
    /\ want \in [Caller -> {"market", "price"}]
    /\ val \in [Caller -> Data]
    /\ sent \in [Caller -> 0..Timeout] /\ began \in [Caller -> Age]
    /\ had \in [Caller -> BOOLEAN] /\ trouble \in Age

(* "Using cached value" (helper/__init__.py:46): a call that began when    *)
(* there had been a good answer does not end without data, nor fail for     *)
(* want of it, whatever the other calls do meanwhile.                      *)
LastGoodIsKept ==
    [][\A c \in Caller :
          had[c] /\ pc'[c] # pc[c] =>
             /\ pc'[c] = "answered" => val'[c] # None
             /\ pc'[c] = "failed" => pc[c] \in {"origin", "json", "supply"}]_vars

(* While the sources answer, market data is no older than one life in the  *)
(* cache, and the price, which is cached on top of it, no older than two   *)
(* (helper/__init__.py:17-24).                                             *)
Bound(w) == Timeout + (IF w = "market" THEN TTL ELSE 2 * TTL)

FreshUnlessTrouble ==
    [][\A c \in Caller :
          /\ pc'[c] \in {"answered", "supply"} /\ pc[c] \notin {"answered", "supply"}
          /\ val'[c] # None
          => val'[c] <= Bound(want[c]) \/ trouble <= Bound(want[c])]_vars

(* Within the pause after a 429, a source answers, is turned to, or lifts  *)
(* the pause only for a call that had tested it before (:27-50).           *)
PauseHolds ==
    [][\A c \in Caller :
          /\ flood # None /\ flood <= CoolOff
          /\ pc[c] \in {"mirror", "origin"} /\ pc'[c] # pc[c]
          => began[c] >= flood]_vars

(* An answer that overtakes another does not take the last good answer     *)
(* back by more than a query lasts.                                        *)
NearlyNewest ==
    [][cache # None /\ cache' # cache =>
          cache' <= cache + Timeout \/ cache' = MaxAge]_vars

(* Every call ends: with data, without, or with an exception.              *)
CallsSettle == \A c \in Caller : pc[c] \notin Settled ~> pc[c] \in Settled
=============================================================================
