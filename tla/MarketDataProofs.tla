-------------------------- MODULE MarketDataProofs --------------------------
(***************************************************************************)
(* For any number of concurrent calls and any durations: the types, the    *)
(* last good answer that is never lost, the pause after a 429, how far     *)
(* answers that overtake each other take the stored data back, and how old *)
(* the data of an answer can be while the sources answer.                  *)
(***************************************************************************)
EXTENDS MarketData, TLAPS

LEMMA OlderData ==
    ASSUME NEW a \in Data
    PROVE  /\ Older(a) \in Data
           /\ Older(a) = None <=> a = None
           /\ a # None => Older(a) >= a /\ Older(a) <= a + 1
BY NoneAssumption, TimeAssumption DEF Older, Data, Age

LEMMA OlderAge ==
    ASSUME NEW a \in Age
    PROVE  Older(a) \in Age /\ Older(a) <= a + 1 /\ (a < MaxAge => Older(a) = a + 1)
BY NoneAssumption, TimeAssumption DEF Older, Age

LEMMA PassingEntry == ASSUME NEW e \in Entry PROVE Passing(e) \in Entry
<1>1. e.val \in Data /\ e.left \in 0..TTL
  BY DEF Entry
<1>2. Older(e.val) \in Data /\ TTL \in Nat
  BY <1>1, OlderData, TimeAssumption
<1> QED
  BY <1>1, <1>2 DEF Passing, Expired, Entry, Data

LEMMA WithMarketPC ==
    ASSUME NEW c \in Caller, NEW v PROVE WithMarket(c, v) \in {"answered", "failed", "store_price"}
BY DEF WithMarket

LEMMA InitTypeOK == Init => TypeOK
BY CallerAssumption, TimeAssumption
   DEF Init, TypeOK, Expired, Entry, Data, Age, PC

LEMMA NextTypeOK == TypeOK /\ [Next]_vars => TypeOK'
<1> SUFFICES ASSUME TypeOK, [Next]_vars PROVE TypeOK'
  OBVIOUS
<1> USE DEF TypeOK, Goto, Returns
<1>a. 0 \in Age /\ Timeout \in Nat /\ MaxAge \in Nat /\ 0..Timeout \subseteq Age
  BY TimeAssumption DEF Age
<1>b. \A v \in Data : Live(v) \in Entry
  BY TimeAssumption DEF Live, Entry
<1>1. CASE Started
  BY <1>1 DEF Started, call, stores
<1>2. CASE Tick
  <2>1. cache' \in Data /\ flood' \in Data
    BY <1>2, OlderData DEF Tick
  <2>2. market' \in Entry /\ price' \in Entry
    BY <1>2, PassingEntry DEF Tick
  <2>3. val' \in [Caller -> Data]
    <3>1. \A c \in Caller : Older(val[c]) \in Data
      BY OlderData
    <3> QED BY <1>2, <3>1 DEF Tick, Data
  <2>4. sent' \in [Caller -> 0..Timeout]
    <3>1. ASSUME NEW c \in Caller, pc[c] \in Waiting PROVE Older(sent[c]) \in 0..Timeout
      <4>1. sent[c] < Timeout /\ sent[c] \in 0..Timeout
        BY <1>2, <3>1 DEF Tick, MayPass
      <4>2. sent[c] \in Age
        BY <4>1, <1>a
      <4>3. Older(sent[c]) \in Nat /\ Older(sent[c]) <= sent[c] + 1
        BY <4>2, OlderAge DEF Age
      <4> QED BY <4>1, <4>3, <1>a
    <3> QED BY <1>2, <1>a, <3>1 DEF Tick
  <2>5. began' \in [Caller -> Age]
    <3>1. \A c \in Caller : Older(began[c]) \in Age
      BY OlderAge
    <3> QED BY <1>2, <1>a, <3>1 DEF Tick
  <2>6. trouble' \in Age
    BY <1>2, OlderAge DEF Tick
  <2> QED BY <1>2, <2>1, <2>2, <2>3, <2>4, <2>5, <2>6 DEF Tick
<1>3. ASSUME NEW c \in Caller, Ask(c) PROVE TypeOK'
  BY <1>3, <1>a DEF Ask, stores, PC, Data
<1>4. ASSUME NEW c \in Caller, LookupPrice(c) PROVE TypeOK'
  BY <1>4 DEF LookupPrice, stores, PC, WithPrice, Entry
<1>5. ASSUME NEW c \in Caller, LookupMarket(c) PROVE TypeOK'
  BY <1>5, WithMarketPC DEF LookupMarket, stores, PC, Entry
<1>6. ASSUME NEW c \in Caller, Body(c) PROVE TypeOK'
  BY <1>6, <1>a DEF Body, stores, PC
<1>7. ASSUME NEW c \in Caller, Mirror(c) PROVE TypeOK'
  BY <1>7, <1>a DEF Mirror, Fetched, PC, Data
<1>8. ASSUME NEW c \in Caller, Origin(c) PROVE TypeOK'
  BY <1>8, <1>a DEF Origin, NotFetched, PC, Data
<1>9. ASSUME NEW c \in Caller, Json(c) PROVE TypeOK'
  BY <1>9, <1>a DEF Json, Fetched, PC, Data
<1>10. ASSUME NEW c \in Caller, Store(c) PROVE TypeOK'
  BY <1>10, <1>b, WithMarketPC DEF Store, PC
<1>11. ASSUME NEW c \in Caller, StorePrice(c) PROVE TypeOK'
  BY <1>11, <1>b DEF StorePrice, PC, WithPrice
<1>12. ASSUME NEW c \in Caller, Supply(c) PROVE TypeOK'
  BY <1>12 DEF Supply, stores, PC
<1>13. CASE UNCHANGED vars
  BY <1>13 DEF vars, stores, call
<1> QED
  BY <1>1, <1>2, <1>3, <1>4, <1>5, <1>6, <1>7, <1>8, <1>9, <1>10, <1>11, <1>12, <1>13
  DEF Next, Step

(* Type correctness: no query outlives its timeout.                        *)
THEOREM TypeCorrect == Spec => []TypeOK
<1>1. Init => TypeOK
  BY InitTypeOK
<1>2. TypeOK /\ [Next]_vars => TypeOK'
  BY NextTypeOK
<1> QED BY <1>1, <1>2, PTL DEF Spec
-----------------------------------------------------------------------------
(* A call that began when there was a good answer finds one at every       *)
(* moment, and returns one once it has its data.                           *)
KeptInv ==
    \A c \in Caller : had[c] =>
        /\ cache # None
        /\ pc[c] \in {"store", "store_price", "supply"} => val[c] # None

LEMMA NextKeptInv == TypeOK /\ KeptInv /\ [Next]_vars => KeptInv'
<1> SUFFICES ASSUME TypeOK, KeptInv, [Next]_vars, NEW q \in Caller, had'[q]
             PROVE  /\ cache' # None
                    /\ pc'[q] \in {"store", "store_price", "supply"} => val'[q] # None
  BY DEF KeptInv
<1> USE DEF TypeOK, Goto, Returns
<1>a. \A c \in Caller : sent[c] # None
  BY NoneAssumption, TimeAssumption
<1>b. had[q] => /\ cache # None
                /\ pc[q] \in {"store", "store_price", "supply"} => val[q] # None
  BY DEF KeptInv
<1>1. CASE Tick
  <2>1. had[q] /\ Older(cache) # None
    BY <1>1, <1>b, OlderData DEF Tick
  <2>2. val[q] # None => Older(val[q]) # None
    BY OlderData
  <2> QED BY <1>1, <1>b, <2>1, <2>2 DEF Tick, Settled
<1>2. ASSUME NEW c \in Caller, Ask(c)
      PROVE  /\ cache' # None
             /\ pc'[q] \in {"store", "store_price", "supply"} => val'[q] # None
  BY <1>2, <1>b DEF Ask, stores
<1>3. ASSUME NEW c \in Caller, Step(c)
      PROVE  /\ cache' # None
             /\ pc'[q] \in {"store", "store_price", "supply"} => val'[q] # None
  <2>1. had[q]
    BY <1>3 DEF Step, LookupPrice, LookupMarket, Body, Mirror, Origin, Json, Store, StorePrice,
       Supply
  <2> USE <2>1, <1>a, <1>b
  <2>2. CASE LookupPrice(c)
    BY <2>2 DEF LookupPrice, stores, Hit
  <2>3. CASE LookupMarket(c)
    BY <2>3 DEF LookupMarket, stores, Hit, WithMarket
  <2>4. CASE Body(c)
    BY <2>4 DEF Body, stores
  <2>5. CASE Mirror(c)
    BY <2>5 DEF Mirror, Fetched
  <2>6. CASE Origin(c)
    BY <2>6 DEF Origin, NotFetched
  <2>7. CASE Json(c)
    BY <2>7 DEF Json, Fetched
  <2>8. CASE Store(c)
    BY <2>8 DEF Store, WithMarket
  <2>9. CASE StorePrice(c)
    BY <2>9 DEF StorePrice
  <2>10. CASE Supply(c)
    BY <2>10 DEF Supply, stores
  <2> QED BY <1>3, <2>2, <2>3, <2>4, <2>5, <2>6, <2>7, <2>8, <2>9, <2>10 DEF Step
<1>4. CASE Started \/ UNCHANGED vars
  BY <1>4, <1>b DEF Started, vars, stores, call
<1> QED BY <1>1, <1>2, <1>3, <1>4 DEF Next

(* A good answer, once there, is what every later call returns at least,   *)
(* whatever the sources and the other calls do (helper/__init__.py:46-52). *)
THEOREM LastGoodKept == Spec => LastGoodIsKept
<1> DEFINE Step1 == \A c \in Caller :
              had[c] /\ pc'[c] # pc[c] =>
                 /\ pc'[c] = "answered" => val'[c] # None
                 /\ pc'[c] = "failed" => pc[c] \in {"origin", "json", "supply"}
<1>1. Init => TypeOK /\ KeptInv
  BY InitTypeOK DEF Init, KeptInv
<1>2. TypeOK /\ KeptInv /\ [Next]_vars => (TypeOK /\ KeptInv)'
  BY NextTypeOK, NextKeptInv
<1>3. TypeOK /\ KeptInv /\ [Next]_vars => [Step1]_vars
  <2> SUFFICES ASSUME TypeOK, KeptInv, Next, NEW q \in Caller, had[q], pc'[q] # pc[q]
               PROVE  /\ pc'[q] = "answered" => val'[q] # None
                      /\ pc'[q] = "failed" => pc[q] \in {"origin", "json", "supply"}
    OBVIOUS
  <2> USE DEF TypeOK, Goto, Returns
  <2>1. pc[q] \in {"store", "store_price", "supply"} => val[q] # None
    BY DEF KeptInv
  <2>2. ASSUME NEW c \in Caller, Ask(c) PROVE pc'[q] \notin {"answered", "failed"}
    BY <2>2 DEF Ask
  <2>3. ASSUME NEW c \in Caller, Step(c), c = q
        PROVE  /\ pc'[q] = "answered" => val'[q] # None
               /\ pc'[q] = "failed" => pc[q] \in {"origin", "json", "supply"}
    <3>1. CASE LookupPrice(q)
      BY <3>1 DEF LookupPrice, Hit, WithPrice
    <3>2. CASE LookupMarket(q)
      BY <3>2 DEF LookupMarket, Hit, WithMarket
    <3>3. CASE Body(q)
      BY <3>3 DEF Body
    <3>4. CASE Mirror(q)
      BY <3>4 DEF Mirror, Fetched
    <3>5. CASE Origin(q)
      BY <3>5 DEF Origin, NotFetched
    <3>6. CASE Json(q)
      BY <3>6 DEF Json, Fetched
    <3>7. CASE Store(q)
      BY <2>1, <3>7 DEF Store, WithMarket
    <3>8. CASE StorePrice(q)
      BY <2>1, <3>8 DEF StorePrice, WithPrice
    <3>9. CASE Supply(q)
      BY <2>1, <3>9 DEF Supply
    <3> QED BY <2>3, <3>1, <3>2, <3>3, <3>4, <3>5, <3>6, <3>7, <3>8, <3>9 DEF Step
  <2>4. ASSUME NEW c \in Caller, Step(c), c # q PROVE pc'[q] = pc[q]
    BY <2>4 DEF Step, LookupPrice, LookupMarket, Body, Mirror, Fetched, Origin, NotFetched,
       Json, Store, StorePrice, Supply
  <2>5. CASE Started \/ Tick
    BY <2>5 DEF Started, Tick, call
  <2> QED BY <2>2, <2>3, <2>4, <2>5 DEF Next
<1> QED BY <1>1, <1>2, <1>3, PTL DEF Spec, LastGoodIsKept
-----------------------------------------------------------------------------
(* While a pause lasts, who is past its test tested before it began.       *)
PauseInv ==
    \A c \in Caller :
        flood # None /\ flood <= CoolOff /\ pc[c] \in {"mirror", "origin"} => began[c] >= flood

LEMMA NextPauseInv == TypeOK /\ PauseInv /\ [Next]_vars => PauseInv'
<1> SUFFICES ASSUME TypeOK, PauseInv, [Next]_vars, NEW q \in Caller,
                    flood' # None, flood' <= CoolOff, pc'[q] \in {"mirror", "origin"}
             PROVE  began'[q] >= flood'
  BY DEF PauseInv
<1> USE DEF TypeOK, Goto, Returns
<1>a. /\ flood # None => flood \in Nat
      /\ \A c \in Caller : began[c] \in Nat
      /\ flood # None /\ flood <= CoolOff /\ pc[q] \in {"mirror", "origin"} => began[q] >= flood
  BY DEF PauseInv, Data, Age
<1>1. CASE Tick
  <2>1. pc[q] \in {"mirror", "origin"} /\ pc' = pc
    BY <1>1 DEF Tick
  <2>2. ~Lifted
    <3>1. SUFFICES ASSUME Lifted PROVE FALSE
      OBVIOUS
    <3>2. flood' = flood
      BY <1>1, <3>1 DEF Tick
    <3>3. flood \in Nat /\ flood <= CoolOff
      BY <1>a, <3>2
    <3> QED BY <3>1, <3>3, TimeAssumption, NoneAssumption DEF Lifted
  <2>3. flood # None /\ flood <= CoolOff /\ flood' = Older(flood)
    BY <1>1, <1>a, <2>2, TimeAssumption DEF Tick, Lifted
  <2>4. began'[q] = Older(began[q])
    BY <1>1, <2>1 DEF Tick, Waiting
  <2>5. flood \in Age /\ began[q] \in Age /\ began[q] >= flood /\ flood < MaxAge
    BY <1>a, <2>1, <2>3, TimeAssumption DEF Data, Age
  <2>6. flood' = flood + 1
    BY <2>3, <2>5, OlderAge
  <2>7. CASE began[q] < MaxAge
    BY <2>4, <2>5, <2>6, <2>7, OlderAge DEF Age
  <2>8. CASE began[q] = MaxAge
    BY <2>4, <2>5, <2>6, <2>8, TimeAssumption DEF Older, Age
  <2> QED BY <2>5, <2>7, <2>8, TimeAssumption DEF Age
<1>2. ASSUME NEW c \in Caller, Ask(c) \/ Step(c) PROVE began'[q] >= flood'
  <2>1. CASE Ask(c)
    BY <2>1, <1>a DEF Ask, stores
  <2>2. CASE LookupPrice(c)
    BY <2>2, <1>a DEF LookupPrice, stores, WithPrice
  <2>3. CASE LookupMarket(c)
    BY <2>3, <1>a DEF LookupMarket, stores, WithMarket
  <2>4. CASE Body(c)
    BY <2>4, <1>a, TimeAssumption DEF Body, stores, Lifted
  <2>5. CASE Mirror(c)
    BY <2>5, <1>a DEF Mirror, Fetched
  <2>6. CASE Origin(c)
    BY <2>6, <1>a DEF Origin, NotFetched
  <2>7. CASE Json(c)
    BY <2>7, <1>a DEF Json, Fetched
  <2>8. CASE Store(c)
    BY <2>8, <1>a DEF Store, WithMarket
  <2>9. CASE StorePrice(c)
    BY <2>9, <1>a DEF StorePrice, WithPrice
  <2>10. CASE Supply(c)
    BY <2>10, <1>a DEF Supply, stores
  <2> QED BY <1>2, <2>1, <2>2, <2>3, <2>4, <2>5, <2>6, <2>7, <2>8, <2>9, <2>10 DEF Step
<1>3. CASE Started \/ UNCHANGED vars
  BY <1>3, <1>a DEF Started, vars, stores, call
<1> QED BY <1>1, <1>2, <1>3 DEF Next

(* The pause after a 429 holds for every call that tests it, however many  *)
(* run at once and however slow the sources are (helper/__init__.py:27).   *)
THEOREM PauseIsKept == Spec => PauseHolds
<1> DEFINE Step1 == \A c \in Caller :
              /\ flood # None /\ flood <= CoolOff
              /\ pc[c] \in {"mirror", "origin"} /\ pc'[c] # pc[c]
              => began[c] >= flood
<1>1. Init => TypeOK /\ PauseInv
  BY InitTypeOK DEF Init, PauseInv
<1>2. TypeOK /\ PauseInv /\ [Next]_vars => (TypeOK /\ PauseInv)'
  BY NextTypeOK, NextPauseInv
<1>3. TypeOK /\ PauseInv /\ [Next]_vars => [Step1]_vars
  BY DEF PauseInv
<1> QED BY <1>1, <1>2, <1>3, PTL DEF Spec, PauseHolds

(* The stored data goes back by no more than a query lasts, although the   *)
(* calls overtake each other (helper/__init__.py:33, 42).                  *)
THEOREM StoredIsNearlyNewest == Spec => NearlyNewest
<1> DEFINE Step1 == cache # None /\ cache' # cache =>
              cache' <= cache + Timeout \/ cache' = MaxAge
<1>1. TypeOK /\ [Next]_vars => [Step1]_vars
  <2> SUFFICES ASSUME TypeOK, Next, cache # None, cache' # cache PROVE cache' <= cache + Timeout
    OBVIOUS
  <2> USE DEF TypeOK
  <2>1. cache \in Nat /\ Timeout \in Nat \ {0}
    BY TimeAssumption DEF Data, Age
  <2>2. CASE Tick
    BY <2>1, <2>2, OlderData DEF Tick, Data, Age
  <2>3. ASSUME NEW c \in Caller, Step(c) PROVE cache' <= cache + Timeout
    <3>1. cache' = sent[c]
      BY <2>3 DEF Step, LookupPrice, LookupMarket, Body, Mirror, Fetched, Origin, NotFetched,
         Json, Store, StorePrice, Supply, stores
    <3> QED BY <2>1, <3>1
  <2>4. ~Started /\ \A c \in Caller : ~Ask(c)
    BY DEF Started, Ask, stores
  <2> QED BY <2>2, <2>3, <2>4 DEF Next
<1> QED BY <1>1, TypeCorrect, PTL DEF Spec, NearlyNewest
-----------------------------------------------------------------------------
(* How old data can be: what a call is about to store was fetched, or is   *)
(* the last good answer after a failure just now; what is stored ages by   *)
(* its life in the cache, and the price by two lives.                      *)
Young(v, b) == v = None \/ v <= b \/ trouble <= b

CallFresh(c) == /\ pc[c] \in {"price", "store_price"} => want[c] = "price"
                /\ pc[c] = "store" => Young(val[c], Timeout)
                /\ pc[c] = "store_price" => Young(val[c], Timeout + TTL)
StoreFresh == /\ market.left > 0 => Young(market.val, Timeout + TTL - market.left)
              /\ price.left > 0 => Young(price.val, Timeout + 2 * TTL - price.left)
FreshInv == StoreFresh /\ \A c \in Caller : CallFresh(c)

LEMMA Types ==
    ASSUME TypeOK
    PROVE  /\ TTL \in Nat /\ TTL > 0 /\ Timeout \in Nat
           /\ trouble \in Age /\ trouble \in Nat
           /\ market.left \in 0..TTL /\ price.left \in 0..TTL
           /\ market.val \in Data /\ price.val \in Data
           /\ \A c \in Caller : val[c] \in Data /\ sent[c] \in Nat /\ sent[c] <= Timeout
           /\ \A v \in Data : v # None => v \in Nat
BY TimeAssumption DEF TypeOK, Entry, Data, Age

(* A cache entry that goes on living was younger by one when it lived one  *)
(* longer.                                                                 *)
LEMMA PassingFresh ==
    ASSUME NEW e \in Entry, NEW b \in Nat, trouble \in Age, trouble' = Older(trouble),
           e.left > 0 => Young(e.val, b - e.left), b >= TTL,
           Passing(e).left > 0
    PROVE  Passing(e).val = None \/ Passing(e).val <= b - Passing(e).left
                                 \/ trouble' <= b - Passing(e).left
<1>1. e.left \in 0..TTL /\ e.val \in Data /\ TTL \in Nat
  BY TimeAssumption DEF Entry
<1>2. e.left > 1
  BY <1>1 DEF Passing, Expired
<1>3. Passing(e).val = Older(e.val) /\ Passing(e).left = e.left - 1
  BY <1>1, <1>2 DEF Passing
<1>4. CASE e.val = None
  BY <1>3, <1>4, OlderData, <1>1
<1>5. CASE e.val # None /\ e.val <= b - e.left
  <2>1. e.val \in Nat /\ Older(e.val) <= e.val + 1 /\ Older(e.val) \in Nat
    BY <1>1, <1>5, OlderData, NoneAssumption DEF Data, Age
  <2> QED BY <1>1, <1>3, <1>5, <2>1
<1>6. CASE trouble <= b - e.left
  <2>1. trouble' \in Age /\ trouble' <= trouble + 1
    BY OlderAge
  <2> QED BY <1>1, <1>3, <1>6, <2>1 DEF Age
<1> QED BY <1>1, <1>2, <1>4, <1>5, <1>6 DEF Young

(* A step of one call leaves the call of another as fresh as it was.       *)
LEMMA OthersFresh ==
    ASSUME TypeOK, NEW c \in Caller, NEW q \in Caller \ {c}, CallFresh(q), Ask(c) \/ Step(c)
    PROVE  CallFresh(q)'
<1>1. pc'[q] = pc[q] /\ want'[q] = want[q] /\ val'[q] = val[q] /\ trouble' \in {0, trouble}
  BY DEF TypeOK, Ask, Step, LookupPrice, LookupMarket, Body, Mirror, Fetched, Origin, NotFetched,
     Json, Store, StorePrice, Supply, Goto, Returns
<1> QED BY <1>1, Types DEF CallFresh, Young

LEMMA NextFreshInv == TypeOK /\ FreshInv /\ [Next]_vars => FreshInv'
<1> SUFFICES ASSUME TypeOK, FreshInv, [Next]_vars PROVE FreshInv'
  OBVIOUS
<1>1. CASE Tick
  <2>1. StoreFresh'
    <3>1. market \in Entry /\ price \in Entry /\ Timeout + TTL \in Nat /\ Timeout + 2 * TTL \in Nat
          /\ Timeout + TTL >= TTL /\ Timeout + 2 * TTL >= TTL
      BY Types DEF TypeOK
    <3>2. market' = Passing(market) /\ price' = Passing(price) /\ trouble' = Older(trouble)
      BY <1>1 DEF Tick
    <3>3. trouble \in Age
      BY DEF TypeOK
    <3>4. ASSUME market'.left > 0 PROVE Young(market.val, Timeout + TTL - market.left)'
      <4> DEFINE b == Timeout + TTL
      <4>1. market.left > 0 => Young(market.val, b - market.left)
        BY Types DEF FreshInv, StoreFresh, Young
      <4>2. b \in Nat /\ b >= TTL /\ Passing(market).left > 0
        BY <3>1, <3>2, <3>4
      <4> HIDE DEF b
      <4>3. Passing(market).val = None \/ Passing(market).val <= b - Passing(market).left
                                       \/ trouble' <= b - Passing(market).left
        BY <3>1, <3>2, <3>3, <4>1, <4>2, PassingFresh
      <4>4. market'.val = None \/ market'.val <= b - market'.left \/ trouble' <= b - market'.left
        BY <3>2, <4>3
      <4>5. market'.left \in 0..TTL
        BY <3>1, <3>2, PassingEntry DEF Entry
      <4> QED BY <3>1, <4>4, <4>5, Types DEF b, Young
    <3>5. ASSUME price'.left > 0 PROVE Young(price.val, Timeout + 2 * TTL - price.left)'
      <4> DEFINE b == Timeout + 2 * TTL
      <4>1. price.left > 0 => Young(price.val, b - price.left)
        BY Types DEF FreshInv, StoreFresh, Young
      <4>2. b \in Nat /\ b >= TTL /\ Passing(price).left > 0
        BY <3>1, <3>2, <3>5
      <4> HIDE DEF b
      <4>3. Passing(price).val = None \/ Passing(price).val <= b - Passing(price).left
                                      \/ trouble' <= b - Passing(price).left
        BY <3>1, <3>2, <3>3, <4>1, <4>2, PassingFresh
      <4>4. price'.val = None \/ price'.val <= b - price'.left \/ trouble' <= b - price'.left
        BY <3>2, <4>3
      <4>5. price'.left \in 0..TTL
        BY <3>1, <3>2, PassingEntry DEF Entry
      <4> QED BY <3>1, <4>4, <4>5, Types DEF b, Young
    <3> QED BY <3>4, <3>5 DEF StoreFresh
  <2>2. ASSUME NEW c \in Caller PROVE CallFresh(c)'
    BY <1>1 DEF Tick, MayPass, Settled, Waiting, CallFresh
  <2> QED BY <2>1, <2>2 DEF FreshInv
<1>2. ASSUME NEW c \in Caller, Ask(c) \/ Step(c) PROVE FreshInv'
  <2> USE DEF TypeOK, FreshInv, Goto, Returns
  <2>a. CallFresh(c) /\ StoreFresh
    OBVIOUS
  <2>1. ASSUME Ask(c) PROVE StoreFresh' /\ CallFresh(c)'
    BY <2>1, <2>a, Types DEF Ask, stores, StoreFresh, CallFresh, Young
  <2>2. ASSUME LookupPrice(c) PROVE StoreFresh' /\ CallFresh(c)'
    BY <2>2, <2>a, Types DEF LookupPrice, stores, WithPrice, StoreFresh, CallFresh, Young
  <2>3. ASSUME LookupMarket(c) PROVE StoreFresh' /\ CallFresh(c)'
    BY <2>3, <2>a, Types DEF LookupMarket, Hit, WithMarket, stores, StoreFresh, CallFresh, Young
  <2>4. ASSUME Body(c) PROVE StoreFresh' /\ CallFresh(c)'
    BY <2>4, <2>a, Types DEF Body, stores, StoreFresh, CallFresh, Young
  <2>5. ASSUME Mirror(c) PROVE StoreFresh' /\ CallFresh(c)'
    BY <2>5, <2>a, Types DEF Mirror, Fetched, StoreFresh, CallFresh, Young
  <2>6. ASSUME Origin(c) PROVE StoreFresh' /\ CallFresh(c)'
    BY <2>6, <2>a, Types DEF Origin, NotFetched, StoreFresh, CallFresh, Young
  <2>7. ASSUME Json(c) PROVE StoreFresh' /\ CallFresh(c)'
    BY <2>7, <2>a, Types DEF Json, Fetched, StoreFresh, CallFresh, Young
  <2>8. ASSUME Store(c) PROVE StoreFresh' /\ CallFresh(c)'
    BY <2>8, <2>a, Types DEF Store, Live, WithMarket, StoreFresh, CallFresh, Young
  <2>9. ASSUME StorePrice(c) PROVE StoreFresh' /\ CallFresh(c)'
    BY <2>9, <2>a, Types DEF StorePrice, Live, WithPrice, StoreFresh, CallFresh, Young
  <2>10. ASSUME Supply(c) PROVE StoreFresh' /\ CallFresh(c)'
    BY <2>10, <2>a, Types DEF Supply, stores, StoreFresh, CallFresh, Young
  <2>11. StoreFresh' /\ CallFresh(c)'
    BY <1>2, <2>1, <2>2, <2>3, <2>4, <2>5, <2>6, <2>7, <2>8, <2>9, <2>10 DEF Step
  <2> QED BY <1>2, <2>11, OthersFresh
<1>3. CASE Started \/ UNCHANGED vars
  BY <1>3 DEF Started, vars, stores, call, FreshInv, StoreFresh, CallFresh, Young
<1> QED BY <1>1, <1>2, <1>3 DEF Next

(* While the sources answer, market data is no older than one life in the  *)
(* cache and a price no older than two, for any number of calls that fill  *)
(* both caches side by side (helper/__init__.py:17-24).                    *)
THEOREM DataIsFresh == Spec => FreshUnlessTrouble
<1> DEFINE Step1 == \A c \in Caller :
              /\ pc'[c] \in {"answered", "supply"} /\ pc[c] \notin {"answered", "supply"}
              /\ val'[c] # None
              => val'[c] <= Bound(want[c]) \/ trouble <= Bound(want[c])
<1>1. Init => TypeOK /\ FreshInv
  BY InitTypeOK DEF Init, FreshInv, StoreFresh, CallFresh, Expired
<1>2. TypeOK /\ FreshInv /\ [Next]_vars => (TypeOK /\ FreshInv)'
  BY NextTypeOK, NextFreshInv
<1>3. TypeOK /\ FreshInv /\ [Next]_vars => [Step1]_vars
  <2> SUFFICES ASSUME TypeOK, FreshInv, Next, NEW q \in Caller,
                      pc'[q] \in {"answered", "supply"}, pc[q] \notin {"answered", "supply"},
                      val'[q] # None
               PROVE  val'[q] <= Bound(want[q]) \/ trouble <= Bound(want[q])
    OBVIOUS
  <2>1. Step(q)
    BY DEF TypeOK, Next, Started, Tick, Ask, Step, LookupPrice, LookupMarket, Body, Mirror,
       Fetched, Origin, NotFetched, Json, Store, StorePrice, Supply, Goto, call
  <2>2. CallFresh(q) /\ StoreFresh
    BY DEF FreshInv
  <2> USE DEF TypeOK, Goto, Returns, Bound
  <2>3. CASE LookupPrice(q)
    BY <2>2, <2>3, Types DEF LookupPrice, Hit, WithPrice, StoreFresh, CallFresh, Young
  <2>4. CASE LookupMarket(q)
    BY <2>2, <2>4, Types DEF LookupMarket, Hit, WithMarket, StoreFresh, CallFresh, Young
  <2>5. CASE Store(q)
    BY <2>2, <2>5, Types DEF Store, WithMarket, StoreFresh, CallFresh, Young
  <2>6. CASE StorePrice(q)
    BY <2>2, <2>6, Types DEF StorePrice, WithPrice, StoreFresh, CallFresh, Young
  <2>7. ~ (Body(q) \/ Mirror(q) \/ Origin(q) \/ Json(q) \/ Supply(q))
    BY DEF Body, Mirror, Fetched, Origin, NotFetched, Json, Supply
  <2> QED BY <2>1, <2>3, <2>4, <2>5, <2>6, <2>7 DEF Step
<1> QED BY <1>1, <1>2, <1>3, PTL DEF Spec, FreshUnlessTrouble
=============================================================================
