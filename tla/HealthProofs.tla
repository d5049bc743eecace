---------------------------- MODULE HealthProofs ----------------------------
(***************************************************************************)
(* For any number of hosts: the type invariant of Health, and that a       *)
(* monitor is told 200 only if what it is told was so while it waited, or  *)
(* a ping that it found under way had heard so.                            *)
(***************************************************************************)
EXTENDS Health, TLAPS

(* What each place of the request has learned.  A field that a place does  *)
(* not read any more is not spoken of.                                     *)
AtHealth == req.pc \in {"block", "tx", "pings", "flags", "sink"}
AtPing == req.pc = "select"
KindInv == /\ AtHealth => req.kind = "health"
           /\ AtPing => req.kind = "ping"
           /\ req.pc = "block" => ~req.db

(* Whatever is true while there is hope has been noted.                    *)
NotedInv == Hopeful => Facts \subseteq was

(* get_health.py:60-90: the row of the newest block was compared with the  *)
(* score of the node, and the newest acceptance with the clock.            *)
DbInv == Hopeful /\ req.db =>
            /\ req.score = "current" => "blocks" \in was
            /\ req.pc # "tx" => "txs" \in was

(* An answer still to be recorded, whoever pinged, was given while the     *)
(* request ran or had been given when it began.                            *)
Told == "synced" \in was \/ "heard" \in was
AnswersInv == Hopeful => \A h \in hosts :
                /\ \A st \in others[h] : Synced(st) => Told
                /\ \A p \in Pinger : Synced(asked[p][h]) => Told

(* So was every flag that the request finds when its own pings have ended. *)
FlagInv == Hopeful /\ req.pc = "flags" /\ ~wrpc =>
             \A h \in hosts : asked["request"][h] = "none" /\ known[h] # None
                                /\ Synced(known[h]) => Told
NodeInv == Hopeful /\ req.node => "synced" \in was

HealthInv == /\ TypeOK /\ KindInv
             /\ NotedInv /\ DbInv /\ AnswersInv /\ FlagInv /\ NodeInv
-----------------------------------------------------------------------------
(* A request that asks for a connection waits for it or goes on.           *)
LEMMA ConnectOrPlaces ==
    ASSUME NEW next, NEW another
    PROVE  ConnectOr(next, another) \subseteq {"connect", next}
BY DEF ConnectOr

LEMMA FactsAreFacts == Facts \subseteq Fact /\ Facts' \subseteq Fact /\ Heard \subseteq Fact
BY DEF Facts, Heard, Fact

(* The type invariant in three parts: what is shared, the request, and who *)
(* awaits pings.                                                           *)
SharedTypes ==
    /\ wrpc \in BOOLEAN /\ hosts \in Setups /\ node \in [Host -> Status] /\ db \in DB
    /\ known \in [Host -> Status \cup {None}] /\ others \in [Host -> SUBSET Status]
    /\ link \in Host \cup {None} /\ asked \in [Pinger -> [Host -> Answer]]
    /\ score \in Score /\ blue \in Blue
    /\ was \subseteq Fact
ReqType == [pc : ReqPC, kind : {"health", "ping"}, score : Score,
            db : BOOLEAN, node : BOOLEAN, code : {0, 200, 500, 503}]
Awaited == /\ Done("request") \/ req.pc \in {"flags", "handler"}
           /\ Done("blue") \/ blue = "pings"

LEMMA TypeParts == /\ TypeOK <=> SharedTypes /\ req \in ReqType /\ Awaited
                   /\ TypeOK' <=> SharedTypes' /\ req' \in ReqType /\ Awaited'
BY DEF TypeOK, SharedTypes, ReqType, Awaited

(* The request at place p, with what the database and the node have said.  *)
At(p, d, n) == [pc |-> p, kind |-> req.kind, score |-> req.score,
                db |-> d, node |-> n, code |-> req.code]

LEMMA AtTyped ==
    ASSUME req \in ReqType, NEW p \in ReqPC, NEW d \in BOOLEAN, NEW n \in BOOLEAN
    PROVE  At(p, d, n) \in ReqType
BY DEF At, ReqType

(* The updates of the endpoints, spelt out.                                *)
LEMMA Updates ==
    ASSUME req \in ReqType, NEW p, NEW b
    PROVE  /\ [req EXCEPT !.pc = p] = At(p, req.db, req.node)
           /\ [req EXCEPT !.pc = p, !.db = b] = At(p, b, req.node)
           /\ [req EXCEPT !.node = b, !.pc = p] = At(p, req.db, b)
<1>1. ASSUME NEW r, r = [req EXCEPT !.pc = p] PROVE r = At(p, req.db, req.node)
  BY ZenonT(40), <1>1 DEF At, ReqType
<1>2. ASSUME NEW r, r = [req EXCEPT !.pc = p, !.db = b] PROVE r = At(p, b, req.node)
  BY ZenonT(40), <1>2 DEF At, ReqType
<1>3. ASSUME NEW r, r = [req EXCEPT !.node = b, !.pc = p] PROVE r = At(p, req.db, b)
  BY ZenonT(40), <1>3 DEF At, ReqType
<1> QED BY <1>1, <1>2, <1>3

(* An answer ends the request.                                             *)
LEMMA AnswerEnds ==
    ASSUME NEW code \in {200, 500, 503}, Answered(code)
    PROVE  req' \in ReqType /\ req'.pc = "answered" /\ req'.code = code
<1>1. req' = [pc |-> "answered", kind |-> "health", score |-> "none",
              db |-> FALSE, node |-> FALSE, code |-> code]
  BY ZenonT(40) DEF Answered, Idle
<1> QED BY <1>1 DEF ReqType, ReqPC, Score

(* The pings of a caller are sent to the configured hosts, if any.         *)
LEMMA PingSends ==
    ASSUME SharedTypes, NEW p \in Pinger, Ping(p)
    PROVE  /\ asked' \in [Pinger -> [Host -> Answer]]
           /\ \A q \in Pinger \ {p} : asked'[q] = asked[q]
           /\ \A h \in Host : asked'[p][h] = IF ~wrpc /\ h \in hosts THEN "sent" ELSE "none"
<1> DEFINE sent == [h \in Host |-> IF ~wrpc /\ h \in hosts THEN "sent" ELSE "none"]
<1>1. asked' = [asked EXCEPT ![p] = sent]
  BY DEF Ping
<1>2. sent \in [Host -> Answer] /\ \A h \in Host : sent[h] = IF ~wrpc /\ h \in hosts THEN "sent" ELSE "none"
  BY DEF Answer
<1> HIDE DEF sent
<1> QED BY <1>1, <1>2 DEF SharedTypes

(* A request begins, and has learned nothing yet.                          *)
LEMMA AskedNow ==
    ASSUME SharedTypes, Asks
    PROVE  /\ req' \in ReqType /\ ~req'.db /\ ~req'.node /\ was' = Facts \cup Heard
           /\ \/ req'.pc = "block" /\ req'.kind = "health"
              \/ req'.pc \in {"connect", "info"} /\ req'.kind = "ping"
<1>1. CASE req' = [Idle EXCEPT !.pc = "block", !.score = Current(score)]
  <2>1. Current(score) \in Score
    BY DEF Current, SharedTypes, Score
  <2>2. req' = [pc |-> "block", kind |-> "health", score |-> Current(score),
                db |-> FALSE, node |-> FALSE, code |-> 0]
    BY ZenonT(40), <1>1 DEF Idle
  <2> QED BY <2>1, <2>2 DEF Asks, ReqType, ReqPC
<1>2. ASSUME NEW p \in ConnectOr("info", blue = "connect"),
             req' = [Idle EXCEPT !.pc = p, !.kind = "ping"]
      PROVE  /\ req' \in ReqType /\ ~req'.db /\ ~req'.node
             /\ req'.pc \in {"connect", "info"} /\ req'.kind = "ping"
  <2>1. p \in {"connect", "info"}
    BY <1>2, ConnectOrPlaces
  <2>2. req' = [pc |-> p, kind |-> "ping", score |-> "none",
                db |-> FALSE, node |-> FALSE, code |-> 0]
    BY <1>2 DEF Idle
  <2> QED BY <2>1, <2>2 DEF ReqType, ReqPC, Score
<1> QED BY <1>1, <1>2 DEF Asks
-----------------------------------------------------------------------------
(* What each step of the request does to the request.                      *)
Keeps == req'.kind = req.kind /\ req'.score = req.score

LEMMA ReadBlockStep ==
    ASSUME req \in ReqType, ReadBlock
    PROVE  /\ req' \in ReqType /\ Keeps /\ UNCHANGED asked
           /\ req.pc = "block" /\ req'.pc \in {"tx", "pings"} /\ req'.node = req.node
           /\ \/ req'.db = req.db
              \/ /\ req'.pc = "tx"
                 /\ db \in DB /\ req.score = "current" /\ req'.db => db \in Filled \ BlocksLate
<1> USE DEF Keeps
<1>1. req.pc = "block" /\ UNCHANGED asked /\ {"tx", "pings"} \subseteq ReqPC
  BY DEF ReadBlock, ReqPC
<1>2. CASE \E p \in {"tx", "pings"} : req' = [req EXCEPT !.pc = p]
  <2>1. PICK p \in {"tx", "pings"} : req' = At(p, req.db, req.node)
    BY <1>2, Updates
  <2> QED BY <1>1, <2>1, AtTyped DEF ReqType, At
<1>3. CASE db \notin {"down", "empty"}
  <2>1. PICK near \in Near(req.score) : req' = At("tx", near, req.node)
    BY <1>3, Updates DEF ReadBlock
  <2>2. near \in BOOLEAN /\ (req.score = "current" => near = (db \notin BlocksLate))
    BY DEF Near
  <2> QED BY <1>1, <1>3, <2>1, <2>2, AtTyped DEF ReqType, At, Filled
<1> QED BY <1>2, <1>3 DEF ReadBlock, ReqTo

LEMMA ReadTxStep ==
    ASSUME req \in ReqType, ReadTx
    PROVE  /\ req' \in ReqType /\ Keeps /\ UNCHANGED asked
           /\ req.pc = "tx" /\ req'.pc = "pings" /\ req'.node = req.node
           /\ req'.db => req.db /\ db \in Filled \ TxsLate
<1> DEFINE recent == req.db /\ db \in Filled \ TxsLate
<1>1. req' = At("pings", recent, req.node)
  BY Updates DEF ReadTx
<1>2. "pings" \in ReqPC /\ recent \in BOOLEAN /\ (recent => req.db /\ db \in Filled \ TxsLate)
  BY Updates DEF ReqPC
<1> HIDE DEF recent
<1>3. req.pc = "tx" /\ UNCHANGED asked
  BY DEF ReadTx
<1> QED BY <1>1, <1>2, <1>3, AtTyped DEF ReqType, At, Keeps

LEMMA InitializeAllStep ==
    ASSUME req \in ReqType, InitializeAll
    PROVE  /\ req' \in ReqType /\ Keeps /\ Ping("request")
           /\ req.pc = "pings" /\ req'.pc = "flags" /\ req'.node = req.node /\ req'.db = req.db
<1>1. req' = At("flags", req.db, req.node) /\ req.pc = "pings" /\ Ping("request")
  BY Updates DEF InitializeAll, ReqTo
<1>2. "flags" \in ReqPC
  BY DEF ReqPC
<1> QED BY <1>1, <1>2, AtTyped DEF ReqType, At, Keeps

LEMMA FlagsStep ==
    ASSUME req \in ReqType, Flags
    PROVE  /\ req' \in ReqType /\ req.pc = "flags" /\ Done("request")
           /\ \/ /\ wrpc /\ req'.pc \in {"connect", "info"} /\ Keeps /\ UNCHANGED asked
                 /\ req'.node = req.node /\ req'.db = req.db
              \/ /\ req'.pc = "handler" /\ Keeps /\ Ping("request")
                 /\ req'.node = req.node /\ req'.db = req.db
              \/ /\ ~wrpc /\ req'.pc = "answered" /\ UNCHANGED asked
                 /\ req'.code = 200 => req.db /\ \E h \in hosts : known[h] # None /\ Synced(known[h])
<1>1. req.pc = "flags" /\ Done("request")
  BY DEF Flags
<1>2. CASE wrpc
  <2>1. PICK p \in ConnectOr("info", blue = "connect") : req' = At(p, req.db, req.node)
    BY <1>2, Updates DEF Flags, ReqTo
  <2>2. p \in {"connect", "info"} /\ p \in ReqPC
    BY ConnectOrPlaces DEF ReqPC
  <2>3. UNCHANGED asked
    BY <1>2 DEF Flags
  <2> QED BY <1>1, <1>2, <2>1, <2>2, <2>3, AtTyped DEF ReqType, At, Keeps
<1>3. CASE ~wrpc /\ ReqTo("handler") /\ Ping("request")
  <2>1. req' = At("handler", req.db, req.node) /\ "handler" \in ReqPC
    BY <1>3, Updates DEF ReqTo, ReqPC
  <2> QED BY <1>1, <1>3, <2>1, AtTyped DEF ReqType, At, Keeps
<1>4. CASE ~wrpc /\ Answered(503) /\ UNCHANGED asked
  BY <1>1, <1>4, AnswerEnds
<1>5. CASE /\ ~wrpc /\ Answered(200) /\ UNCHANGED asked
           /\ req.db /\ \E h \in hosts : known[h] # None /\ Synced(known[h])
  <2>1. req' \in ReqType /\ req'.pc = "answered" /\ req'.code = 200
    BY <1>5, AnswerEnds
  <2> QED BY <1>1, <1>5, <2>1
<1> QED BY <1>2, <1>3, <1>4, <1>5 DEF Flags

LEMMA HandlerStep ==
    ASSUME Handler
    PROVE  /\ req' \in ReqType /\ UNCHANGED asked /\ Done("request")
           /\ req.pc = "handler" /\ req'.pc = "answered" /\ req'.code = 500
BY AnswerEnds DEF Handler

LEMMA ConnectStep ==
    ASSUME req \in ReqType, Connect
    PROVE  /\ req' \in ReqType /\ Keeps /\ UNCHANGED asked
           /\ req.pc = "connect" /\ req'.pc = "info" /\ req'.node = req.node /\ req'.db = req.db
<1>1. req' = At("info", req.db, req.node) /\ "info" \in ReqPC
  BY Updates DEF Connect, ReqTo, ReqPC
<1>2. req.pc = "connect" /\ UNCHANGED asked
  BY DEF Connect
<1> QED BY <1>1, <1>2, AtTyped DEF ReqType, At, Keeps

LEMMA GetInfoStep ==
    ASSUME req \in ReqType, GetInfo
    PROVE  /\ req' \in ReqType /\ req.pc = "info" /\ UNCHANGED asked
           /\ \/ req'.pc = "answered" /\ req'.code # 200
              \/ /\ Keeps /\ req'.db = req.db
                 /\ req'.pc = IF req.kind = "ping" THEN "select" ELSE "sink"
                 /\ req'.node => \E h \in hosts : Synced(node[h])
<1> DEFINE h == IF wrpc THEN link ELSE First[hosts]
           ok == IF h \in Up THEN Synced(node[h]) ELSE FALSE
           p == IF req.kind = "ping" THEN "select" ELSE "sink"
<1>1. req.pc = "info" /\ UNCHANGED asked /\ p \in ReqPC
  BY DEF GetInfo, ReqPC
<1>2. ok \in BOOLEAN
  <2>1. CASE h \in Up
    BY <2>1 DEF Synced
  <2> QED BY <2>1
<1>3. ok => \E g \in hosts : Synced(node[g])
  BY DEF Up
<1>4. Answered(503) \/ req' = At(p, req.db, ok)
  BY Updates DEF GetInfo
<1> HIDE DEF ok, p
<1>5. CASE Answered(503)
  BY <1>1, <1>5, AnswerEnds
<1>6. CASE req' = At(p, req.db, ok)
  <2>1. req' \in ReqType
    BY <1>1, <1>2, <1>6, AtTyped DEF ReqType
  <2> QED BY <1>1, <1>3, <1>6, <2>1 DEF At, p, Keeps
<1> QED BY <1>4, <1>5, <1>6

LEMMA LastStep ==
    ASSUME req \in ReqType, SinkBlueScore \/ Select
    PROVE  /\ req' \in ReqType /\ req.pc \in {"sink", "select"} /\ UNCHANGED asked
           /\ req'.pc = "answered"
           /\ req'.code = 200 => req.node /\ (req.pc = "sink" => req.db)
<1>1. ASSUME NEW ok \in BOOLEAN, Answers(ok)
      PROVE  req' \in ReqType /\ req'.pc = "answered" /\ (req'.code = 200 => ok)
  <2>1. (Answered(200) /\ ok) \/ Answered(503)
    BY <1>1 DEF Answers
  <2> QED BY <2>1, AnswerEnds
<1>2. CASE SinkBlueScore
  <2>1. (req.node /\ req.db) \in BOOLEAN
    BY DEF ReqType
  <2> QED BY <1>1, <1>2, <2>1 DEF SinkBlueScore
<1>3. CASE Select
  <2>1. (req.node /\ db # "down") \in BOOLEAN
    BY DEF ReqType
  <2> QED BY <1>1, <1>3, <2>1 DEF Select
<1> QED BY <1>2, <1>3

(* Steps of a ping.                                                        *)
LEMMA AnsweredStep ==
    ASSUME SharedTypes, NEW p \in Pinger, NEW h \in hosts, PingAnswered(p, h)
    PROVE  /\ asked' \in [Pinger -> [Host -> Answer]] /\ ~Done(p)
           /\ UNCHANGED <<env, known, others, link, score, blue, req>>
           /\ \A q \in Pinger \ {p} : asked'[q] = asked[q]
           /\ \A g \in Host : asked'[p][g] = IF g = h THEN node[h] ELSE asked[p][g]
<1>1. h \in Host /\ node[h] \in Answer /\ asked[p][h] = "sent"
  BY SetupsAssumption DEF SharedTypes, PingAnswered, Answer
<1>2. asked' = [asked EXCEPT ![p][h] = node[h]]
  BY DEF PingAnswered
<1>3. UNCHANGED <<env, known, others, link, score, blue, req>>
  BY DEF PingAnswered
<1> QED BY <1>1, <1>2, <1>3 DEF SharedTypes, Done

LEMMA EndsStep ==
    ASSUME SharedTypes, NEW p \in Pinger, NEW h \in hosts, PingEnds(p, h)
    PROVE  /\ asked' \in [Pinger -> [Host -> Answer]] /\ ~Done(p)
           /\ known' \in [Host -> Status \cup {None}]
           /\ UNCHANGED <<env, others, link, score, blue, req>>
           /\ \A q \in Pinger \ {p} : asked'[q] = asked[q]
           /\ \A g \in Host : asked'[p][g] = IF g = h THEN "none" ELSE asked[p][g]
           /\ \A g \in Host \ {h} : known'[g] = known[g]
           /\ known'[h] # None /\ Synced(known'[h]) => Synced(asked[p][h])
<1>1. h \in Host /\ "none" \in Answer /\ asked[p][h] # "none"
  BY SetupsAssumption DEF SharedTypes, PingEnds, Answer
<1>2. PICK st \in ({asked[p][h]} \cap Status) \cup (IF h \in Up THEN {} ELSE {"down"}) :
          known' = [known EXCEPT ![h] = Recorded(known[h], st)]
  BY DEF PingEnds
<1>3. st \in Status /\ (st = asked[p][h] \/ st = "down")
  BY <1>2 DEF Status
<1>4. Recorded(known[h], st) \in Status \cup {None} /\ Recorded(known[h], st) \in {st, None}
  BY <1>3 DEF Recorded
<1>5. asked' = [asked EXCEPT ![p][h] = "none"]
  BY DEF PingEnds
<1>6. UNCHANGED <<env, others, link, score, blue, req>>
  BY DEF PingEnds
<1>7. /\ asked' \in [Pinger -> [Host -> Answer]] /\ ~Done(p)
      /\ \A q \in Pinger \ {p} : asked'[q] = asked[q]
      /\ \A g \in Host : asked'[p][g] = IF g = h THEN "none" ELSE asked[p][g]
  BY <1>1, <1>5 DEF SharedTypes, Done
<1>8. /\ known' \in [Host -> Status \cup {None}] /\ known'[h] \in {st, None}
      /\ \A g \in Host \ {h} : known'[g] = known[g]
  BY <1>1, <1>2, <1>4 DEF SharedTypes
<1>9. known'[h] # None /\ Synced(known'[h]) => Synced(asked[p][h])
  BY <1>3, <1>8 DEF Synced
<1> QED BY <1>6, <1>7, <1>8, <1>9

LEMMA OtherStep ==
    ASSUME SharedTypes, NEW h \in hosts, OtherRecords(h)
    PROVE  /\ known' \in [Host -> Status \cup {None}]
           /\ UNCHANGED <<env, others, link, asked, score, blue, req>>
           /\ \A g \in Host \ {h} : known'[g] = known[g]
           /\ known'[h] # None /\ Synced(known'[h]) => \E st \in others[h] : Synced(st)
<1>1. PICK st \in others[h] : known' = [known EXCEPT ![h] = Recorded(known[h], st)]
  BY DEF OtherRecords
<1>2. h \in Host /\ st \in Status
  BY SetupsAssumption DEF SharedTypes
<1>3. Recorded(known[h], st) \in Status \cup {None} /\ Recorded(known[h], st) \in {st, None}
  BY <1>2 DEF Recorded
<1>4. UNCHANGED <<env, others, link, asked, score, blue, req>>
  BY DEF OtherRecords
<1> QED BY <1>1, <1>2, <1>3, <1>4 DEF SharedTypes
-----------------------------------------------------------------------------
LEMMA InitTyped == Init => TypeOK
<1> SUFFICES ASSUME Init PROVE TypeOK
  OBVIOUS
<1>1. others \in [Host -> SUBSET Status] /\ known \in [Host -> Status \cup {None}]
  BY DEF Init
<1>2. asked \in [Pinger -> [Host -> Answer]] /\ Awaited
  BY DEF Init, Answer, Pinger, Awaited, Done
<1>3. SharedTypes
  BY <1>1, <1>2, ReportsAssumption DEF Init, SharedTypes, Blue, Fact, Score
<1>4. req \in ReqType
  BY DEF Init, Idle, ReqType, ReqPC, Score
<1> QED BY <1>2, <1>3, <1>4, TypeParts

LEMMA EnvironmentTyped ==
    ASSUME SharedTypes, Environment
    PROVE  SharedTypes' /\ UNCHANGED <<wrpc, hosts, known, asked, blue, req>>
<1>1. UNCHANGED <<wrpc, hosts, known, asked, blue, req>>
  BY DEF Environment, NodeChanges, DbChanges, LinkLost, ScoreAges, env
<1>2. node' \in [Host -> Status] /\ others' \in [Host -> SUBSET Status]
  <2>1. CASE NodeChanges
    <3>1. PICK h \in hosts : \E st \in Reports[h] : node' = [node EXCEPT ![h] = st]
      BY <2>1 DEF NodeChanges
    <3>2. h \in Host /\ Reports[h] \subseteq Status
      BY SetupsAssumption, ReportsAssumption DEF SharedTypes
    <3>3. node' \in [Host -> Status]
      BY <3>1, <3>2 DEF SharedTypes
    <3>4. others' = [g \in Host |-> IF wrpc THEN {} ELSE others[g] \cup {node'[g]}]
      BY <2>1 DEF NodeChanges
    <3>5. \A g \in Host : (IF wrpc THEN {} ELSE others[g] \cup {node'[g]}) \in SUBSET Status
      BY <3>3 DEF SharedTypes
    <3> QED BY <3>3, <3>4, <3>5
  <2> QED BY <2>1 DEF Environment, DbChanges, LinkLost, ScoreAges, env, SharedTypes
<1>3. db' \in DB /\ link' \in Host \cup {None} /\ score' \in Score
  BY ReportsAssumption
     DEF Environment, NodeChanges, DbChanges, LinkLost, ScoreAges, env, SharedTypes, Score
<1>4. was' \subseteq Fact
  BY FactsAreFacts DEF Environment, SharedTypes
<1> QED BY <1>1, <1>2, <1>3, <1>4 DEF SharedTypes

LEMMA RequestTyped ==
    ASSUME SharedTypes, req \in ReqType, Awaited, Request
    PROVE  /\ SharedTypes' /\ req' \in ReqType /\ Awaited'
           /\ UNCHANGED <<env, known, others, score, blue>>
<1>1. UNCHANGED <<env, known, others, score, blue>>
  BY DEF Request, ReadBlock, ReadTx, InitializeAll, Flags, Handler, Connect, GetInfo,
         SinkBlueScore, Select, Quiet
<1>2. link' \in Host \cup {None}
  <2>1. CASE Connect
    BY <2>1, SetupsAssumption DEF Connect, Connects, Up, SharedTypes
  <2> QED BY <2>1 DEF Request, ReadBlock, ReadTx, InitializeAll, Flags, Handler, GetInfo,
                      SinkBlueScore, Select, SharedTypes
<1>3. was' \subseteq Fact
  BY DEF Request, SharedTypes
<1>4. /\ req' \in ReqType /\ asked' \in [Pinger -> [Host -> Answer]]
      /\ asked'["blue"] = asked["blue"]
      /\ \/ Done("request") /\ UNCHANGED asked
         \/ req'.pc \in {"flags", "handler"}
  <2> USE DEF Pinger
  <2>1. CASE ReadBlock
    BY <2>1, ReadBlockStep DEF SharedTypes, Awaited
  <2>2. CASE ReadTx
    BY <2>2, ReadTxStep DEF SharedTypes, Awaited
  <2>3. CASE InitializeAll
    BY <2>3, InitializeAllStep, PingSends
  <2>4. CASE Flags
    BY <2>4, FlagsStep, PingSends DEF SharedTypes
  <2>5. CASE Handler
    BY <2>5, HandlerStep DEF SharedTypes
  <2>6. CASE Connect
    BY <2>6, ConnectStep DEF SharedTypes, Awaited
  <2>7. CASE GetInfo
    BY <2>7, GetInfoStep DEF SharedTypes, Awaited
  <2>8. CASE SinkBlueScore \/ Select
    BY <2>8, LastStep DEF SharedTypes, Awaited
  <2> QED BY <2>1, <2>2, <2>3, <2>4, <2>5, <2>6, <2>7, <2>8 DEF Request
<1>5. Awaited'
  BY <1>1, <1>4 DEF Awaited, Done
<1> QED BY <1>1, <1>2, <1>3, <1>4, <1>5 DEF SharedTypes, env

LEMMA BluesTyped ==
    ASSUME SharedTypes, Awaited, Blues
    PROVE  /\ SharedTypes' /\ Awaited' /\ UNCHANGED <<env, known, others, req, was>>
           /\ asked'["request"] = asked["request"]
           /\ \A h \in Host : asked'["blue"][h] \in {asked["blue"][h], "none", "sent"}
<1>1. UNCHANGED <<env, known, others, req, was>>
  BY DEF Blues, BlueWakes, BlueConnects, BlueAsks, BlueAsksAgain, BlueEnds
<1> USE DEF Pinger
<1>2. CASE BlueWakes
  BY <1>1, <1>2, ConnectOrPlaces
     DEF BlueWakes, BlueTo, env, SharedTypes, Awaited, Blue, Done
<1>3. CASE BlueConnects
  BY <1>1, <1>3, SetupsAssumption
     DEF BlueConnects, Connects, Up, BlueTo, env, SharedTypes, Awaited, Blue, Done
<1>4. CASE BlueAsks
  <2>1. \/ blue' = "pings" /\ Ping("blue")
        \/ blue' = "sleep" /\ UNCHANGED asked
    BY <1>4 DEF BlueAsks, BlueTo, Scored, Missed
  <2>2. blue = "first" /\ Done("blue")
    BY <1>4 DEF BlueAsks, Awaited
  <2>3. /\ asked' \in [Pinger -> [Host -> Answer]]
        /\ asked'["request"] = asked["request"]
        /\ \A h \in Host : asked'["blue"][h] \in {asked["blue"][h], "none", "sent"}
    BY <2>1, PingSends DEF SharedTypes
  <2>4. score' \in Score /\ UNCHANGED link
    BY <1>4 DEF BlueAsks, BlueTo, Scored, Missed, Fails, SharedTypes, Score
  <2>5. Awaited'
    BY <1>1, <2>1, <2>2, <2>3 DEF Awaited, Done
  <2> QED BY <1>1, <2>1, <2>3, <2>4, <2>5 DEF SharedTypes, env, Blue
<1>5. CASE BlueAsksAgain
  BY <1>1, <1>5 DEF BlueAsksAgain, BlueTo, env, SharedTypes, Awaited, Blue, Done
<1>6. CASE BlueEnds
  BY <1>1, <1>6
     DEF BlueEnds, Scored, Missed, Fails, env, SharedTypes, Awaited, Blue, Done, Score
<1> QED BY <1>2, <1>3, <1>4, <1>5, <1>6 DEF Blues

(* Pings that are under way are those of the callers that await them.      *)
LEMMA Typed == TypeOK /\ [Next]_vars => TypeOK'
<1> SUFFICES ASSUME TypeOK, [Next]_vars PROVE TypeOK'
  OBVIOUS
<1> USE TypeParts
<1>1. SharedTypes /\ req \in ReqType /\ Awaited
  OBVIOUS
<1>2. CASE Environment
  BY <1>1, <1>2, EnvironmentTyped DEF Awaited, Done
<1>3. CASE Asks
  <2>1. SharedTypes'
    BY <1>1, <1>3, FactsAreFacts DEF Asks, env, SharedTypes
  <2>2. Awaited'
    BY <1>1, <1>3 DEF Asks, Running, Awaited, Done
  <2> QED BY <1>1, <1>3, <2>1, <2>2, AskedNow
<1>4. CASE Request
  BY <1>1, <1>4, RequestTyped
<1>5. CASE Blues
  BY <1>1, <1>5, BluesTyped
<1>6. ASSUME NEW p \in Pinger, NEW h \in hosts, Pings(p, h) PROVE TypeOK'
  <2>1. /\ SharedTypes' /\ UNCHANGED <<req, blue>> /\ ~Done(p)
        /\ \A q \in Pinger \ {p} : asked'[q] = asked[q]
    <3>1. CASE PingAnswered(p, h)
      BY <1>1, <1>6, <3>1, AnsweredStep DEF Pings, SharedTypes, env
    <3>2. CASE PingEnds(p, h)
      BY <1>1, <1>6, <3>2, EndsStep DEF Pings, SharedTypes, env
    <3> QED BY <1>6, <3>1, <3>2 DEF Pings
  <2>2. Awaited'
    BY <1>1, <2>1 DEF Awaited, Done, Pinger
  <2> QED BY <1>1, <2>1, <2>2
<1>7. ASSUME NEW h \in hosts, Others(h) PROVE TypeOK'
  <2>1. CASE OtherRecords(h)
    BY <1>1, <1>7, <2>1, OtherStep DEF Others, SharedTypes, env, Awaited, Done
  <2>2. CASE DeadlinePasses(h)
    <3>1. h \in Host /\ node[h] \in Status
      BY <1>1, SetupsAssumption DEF SharedTypes
    <3>2. others' \in [Host -> SUBSET Status]
      BY <1>1, <2>2, <3>1 DEF DeadlinePasses, SharedTypes
    <3> QED BY <1>1, <1>7, <2>2, <3>2 DEF DeadlinePasses, Others, SharedTypes, env, Awaited, Done
  <2> QED BY <1>7, <2>1, <2>2 DEF Others
<1>8. CASE UNCHANGED vars
  BY <1>1, <1>8 DEF vars, env, SharedTypes, Awaited, Done
<1> QED BY <1>2, <1>3, <1>4, <1>5, <1>6, <1>7, <1>8 DEF Next
-----------------------------------------------------------------------------
LEMMA Initially == Init => HealthInv
<1> SUFFICES ASSUME Init PROVE HealthInv
  OBVIOUS
<1>1. req = Idle
  BY DEF Init
<1>2. ~Hopeful /\ KindInv
  BY <1>1 DEF Idle, Hopeful, Running, KindInv, AtHealth, AtPing
<1> QED BY <1>2, InitTyped
        DEF HealthInv, NotedInv, DbInv, AnswersInv, FlagInv, NodeInv

(* The world changes, and what becomes true is noted; what a node has      *)
(* become may now be the answer of a ping of another caller.               *)
LEMMA EnvironmentKeeps ==
    ASSUME HealthInv, TypeOK', Environment
    PROVE  HealthInv'
<1>1. UNCHANGED <<wrpc, hosts, known, asked, req>> /\ SharedTypes
  BY EnvironmentTyped, TypeParts DEF HealthInv
<1>2. Hopeful' <=> Hopeful
  BY <1>1 DEF Hopeful, Running
<1>3. Hopeful => was \subseteq was' /\ Facts' \subseteq was'
  BY DEF Environment
<1>4. NotedInv' /\ KindInv'
  BY <1>1, <1>2, <1>3 DEF HealthInv, NotedInv, KindInv, AtHealth, AtPing
<1>5. Hopeful /\ Told => Told'
  BY <1>3 DEF Told
<1>6. DbInv' /\ FlagInv' /\ NodeInv'
  BY <1>1, <1>2, <1>3, <1>5 DEF HealthInv, DbInv, FlagInv, NodeInv
<1>7. ASSUME NEW h \in hosts, NEW st \in others'[h], Synced(st), Hopeful PROVE Told'
  <2>1. CASE st \in others[h]
    BY <1>5, <1>7, <2>1 DEF HealthInv, AnswersInv
  <2>2. CASE st \notin others[h]
    <3>1. h \in Host
      BY <1>1, SetupsAssumption DEF SharedTypes
    <3>2. st = node'[h]
      BY <1>1, <1>7, <2>2, <3>1
         DEF Environment, NodeChanges, DbChanges, LinkLost, ScoreAges, env, SharedTypes
    <3>3. "synced" \in Facts'
      BY <1>1, <1>7, <3>2 DEF Facts
    <3> QED BY <1>3, <1>7, <3>3 DEF Told
  <2> QED BY <2>1, <2>2
<1>8. AnswersInv'
  BY <1>1, <1>2, <1>5, <1>7 DEF HealthInv, AnswersInv
<1> QED BY <1>4, <1>6, <1>8 DEF HealthInv

(* A new request notes what is true now, and what pings have heard.        *)
LEMMA AsksKeeps ==
    ASSUME HealthInv, TypeOK', Asks
    PROVE  HealthInv'
<1>1. /\ ~req'.db /\ ~req'.node /\ was' = Facts \cup Heard
      /\ \/ req'.pc = "block" /\ req'.kind = "health"
         \/ req'.pc \in {"connect", "info"} /\ req'.kind = "ping"
  BY AskedNow, TypeParts DEF HealthInv
<1>2. Facts' = Facts /\ UNCHANGED <<hosts, others, asked>>
  BY DEF Asks, Facts, env
<1>3. \A h \in Host : asked["request"][h] = "none"
  BY TypeParts DEF HealthInv, Asks, Running, Awaited, Done
<1>4. AnswersInv'
  <2>1. ASSUME NEW h \in hosts, NEW st \in others[h], Synced(st) PROVE Told'
    BY <1>1, <2>1 DEF Heard, Told
  <2>2. ASSUME NEW h \in hosts, NEW p \in Pinger, Synced(asked[p][h]) PROVE Told'
    <3>1. h \in Host
      BY SetupsAssumption DEF HealthInv, TypeOK
    <3>2. p = "blue"
      BY <1>3, <2>2, <3>1 DEF Pinger, Synced
    <3> QED BY <1>1, <2>2, <3>2 DEF Heard, Told
  <2> QED BY <1>2, <2>1, <2>2 DEF AnswersInv
<1> QED BY <1>1, <1>2, <1>4 DEF HealthInv, KindInv, AtHealth, AtPing, NotedInv, DbInv, FlagInv, NodeInv

(* Steps of others that change no flag, no node and no history, and give   *)
(* no new answer, leave the request's own pings alone.                     *)
LEMMA OthersKeep ==
    ASSUME HealthInv, TypeOK', UNCHANGED <<env, known, req, was>>,
           asked'["request"] = asked["request"],
           \A h \in Host : asked'["blue"][h] \in {asked["blue"][h], "none", "sent"},
           \A h \in hosts : \A st \in others'[h] : st \in others[h] \/ st = node[h]
    PROVE  HealthInv'
<1>1. UNCHANGED <<wrpc, hosts, node, db, known, req, was>>
  BY DEF env
<1>2. (Hopeful' <=> Hopeful) /\ (Told' <=> Told) /\ Facts' = Facts
  BY <1>1 DEF Hopeful, Running, Told, Facts
<1>3. NotedInv' /\ KindInv' /\ DbInv' /\ FlagInv' /\ NodeInv'
  BY <1>1, <1>2 DEF HealthInv, NotedInv, KindInv, AtHealth, AtPing, DbInv, FlagInv, NodeInv
<1>4. ASSUME NEW h \in hosts, NEW st \in others'[h], Synced(st), Hopeful PROVE Told
  <2>1. CASE st = node[h]
    <3>1. "synced" \in Facts
      BY <1>4, <2>1 DEF Facts
    <3> QED BY <1>4, <3>1 DEF HealthInv, NotedInv, Told
  <2> QED BY <1>4, <2>1 DEF HealthInv, AnswersInv
<1>5. ASSUME NEW h \in hosts, NEW p \in Pinger, Synced(asked'[p][h]), Hopeful PROVE Told
  <2>1. h \in Host
    BY SetupsAssumption DEF HealthInv, TypeOK
  <2>2. Synced(asked[p][h])
    BY <1>5, <2>1 DEF Pinger, Synced
  <2> QED BY <1>5, <2>2 DEF HealthInv, AnswersInv
<1>6. AnswersInv'
  BY <1>1, <1>2, <1>4, <1>5 DEF AnswersInv
<1> QED BY <1>3, <1>6 DEF HealthInv

(* An answer is given, and noted if it is that of a synced node.           *)
LEMMA AnsweredKeeps ==
    ASSUME HealthInv, TypeOK', NEW p \in Pinger, NEW h \in hosts,
           PingAnswered(p, h), UNCHANGED was
    PROVE  HealthInv'
<1> USE TypeParts
<1>1. /\ UNCHANGED <<wrpc, hosts, node, db, known, others, req, was>>
      /\ \A q \in Pinger \ {p} : asked'[q] = asked[q]
      /\ \A g \in Host : asked'[p][g] = IF g = h THEN node[h] ELSE asked[p][g]
  BY AnsweredStep DEF HealthInv, env
<1>2. hosts \subseteq Host /\ node[h] \in Status
  BY SetupsAssumption DEF HealthInv, SharedTypes
<1>3. (Hopeful' <=> Hopeful) /\ (Told' <=> Told) /\ Facts' = Facts
  BY <1>1 DEF Hopeful, Running, Told, Facts
<1>4. NotedInv' /\ KindInv' /\ DbInv' /\ NodeInv'
  BY <1>1, <1>3 DEF HealthInv, NotedInv, KindInv, AtHealth, AtPing, DbInv, NodeInv
<1>5. FlagInv'
  <2>1. \A g \in hosts : asked'["request"][g] = "none" => asked["request"][g] = "none"
    BY <1>1, <1>2 DEF Pinger, Status
  <2> QED BY <1>1, <1>3, <2>1 DEF HealthInv, FlagInv
<1>6. ASSUME NEW g \in hosts, NEW q \in Pinger, Synced(asked'[q][g]), Hopeful PROVE Told
  <2>1. CASE q = p /\ g = h
    <3>1. "synced" \in Facts
      BY <1>1, <1>2, <1>6, <2>1 DEF Facts
    <3> QED BY <1>6, <3>1 DEF HealthInv, NotedInv, Told
  <2>2. CASE ~(q = p /\ g = h)
    <3>1. asked'[q][g] = asked[q][g]
      BY <1>1, <1>2, <2>2
    <3> QED BY <1>6, <3>1 DEF HealthInv, AnswersInv
  <2> QED BY <2>1, <2>2
<1>7. AnswersInv'
  BY <1>1, <1>3, <1>6 DEF HealthInv, AnswersInv
<1> QED BY <1>4, <1>5, <1>7 DEF HealthInv

(* A flag that says synced is an answer that was waiting to be recorded.   *)
LEMMA EndsKeeps ==
    ASSUME HealthInv, TypeOK', NEW p \in Pinger, NEW h \in hosts,
           PingEnds(p, h), UNCHANGED was
    PROVE  HealthInv'
<1> USE TypeParts
<1>1. /\ UNCHANGED <<wrpc, hosts, node, db, others, req, was>>
      /\ \A q \in Pinger \ {p} : asked'[q] = asked[q]
      /\ \A g \in Host : asked'[p][g] = IF g = h THEN "none" ELSE asked[p][g]
      /\ \A g \in Host \ {h} : known'[g] = known[g]
      /\ known'[h] # None /\ Synced(known'[h]) => Synced(asked[p][h])
  BY EndsStep DEF HealthInv, env
<1>2. hosts \subseteq Host
  BY SetupsAssumption DEF HealthInv, SharedTypes
<1>3. (Hopeful' <=> Hopeful) /\ (Told' <=> Told) /\ Facts' = Facts
  BY <1>1 DEF Hopeful, Running, Told, Facts
<1>4. NotedInv' /\ KindInv' /\ DbInv' /\ NodeInv'
  BY <1>1, <1>3 DEF HealthInv, NotedInv, KindInv, AtHealth, AtPing, DbInv, NodeInv
<1>5. ASSUME NEW g \in hosts, Hopeful, req.pc = "flags", ~wrpc,
             asked'["request"][g] = "none", known'[g] # None, Synced(known'[g])
      PROVE  Told
  <2>1. CASE g = h
    BY <1>1, <1>5, <2>1 DEF HealthInv, AnswersInv
  <2>2. CASE g # h
    <3>1. asked["request"][g] = "none" /\ known'[g] = known[g]
      BY <1>1, <1>2, <1>5, <2>2 DEF Pinger
    <3> QED BY <1>5, <3>1 DEF HealthInv, FlagInv
  <2> QED BY <2>1, <2>2
<1>6. FlagInv'
  BY <1>1, <1>3, <1>5 DEF FlagInv
<1>7. \A g \in hosts, q \in Pinger : Synced(asked'[q][g]) => Synced(asked[q][g])
  BY <1>1, <1>2 DEF Synced
<1>8. AnswersInv'
  BY <1>1, <1>3, <1>7 DEF HealthInv, AnswersInv
<1> QED BY <1>4, <1>6, <1>8 DEF HealthInv

LEMMA OtherRecordsKeeps ==
    ASSUME HealthInv, TypeOK', NEW h \in hosts, OtherRecords(h), UNCHANGED was
    PROVE  HealthInv'
<1> USE TypeParts
<1>1. /\ UNCHANGED <<wrpc, hosts, node, db, others, asked, req, was>>
      /\ \A g \in Host \ {h} : known'[g] = known[g]
      /\ known'[h] # None /\ Synced(known'[h]) => \E st \in others[h] : Synced(st)
  BY OtherStep DEF HealthInv, env
<1>2. hosts \subseteq Host
  BY SetupsAssumption DEF HealthInv, SharedTypes
<1>3. (Hopeful' <=> Hopeful) /\ (Told' <=> Told) /\ Facts' = Facts
  BY <1>1 DEF Hopeful, Running, Told, Facts
<1>4. NotedInv' /\ KindInv' /\ DbInv' /\ NodeInv' /\ AnswersInv'
  BY <1>1, <1>3 DEF HealthInv, NotedInv, KindInv, AtHealth, AtPing, DbInv, NodeInv, AnswersInv
<1>5. ASSUME NEW g \in hosts, Hopeful, req.pc = "flags", ~wrpc,
             asked["request"][g] = "none", known'[g] # None, Synced(known'[g])
      PROVE  Told
  <2>1. CASE g = h
    BY <1>1, <1>5, <2>1 DEF HealthInv, AnswersInv
  <2>2. CASE g # h
    BY <1>1, <1>2, <1>5, <2>2 DEF HealthInv, FlagInv
  <2> QED BY <2>1, <2>2
<1>6. FlagInv'
  BY <1>1, <1>3, <1>5 DEF FlagInv
<1> QED BY <1>4, <1>6 DEF HealthInv

(* Every place of the request keeps what it has learned with its history,  *)
(* and begins to await pings that nobody has answered yet.                 *)
LEMMA RequestKeeps ==
    ASSUME HealthInv, TypeOK', Request
    PROVE  HealthInv'
<1>1. req \in ReqType /\ SharedTypes /\ Awaited /\ TypeOK
  BY TypeParts DEF HealthInv
<1>2. UNCHANGED <<wrpc, hosts, node, db, known, others>>
  BY <1>1, RequestTyped DEF env
<1>3. Facts' = Facts
  BY <1>2 DEF Facts
<1>4. Hopeful' => was' = was
  BY DEF Request
<1>5. Hopeful' => Hopeful
  BY <1>1, ReadBlockStep, ReadTxStep, InitializeAllStep, FlagsStep, HandlerStep, ConnectStep,
     GetInfoStep, LastStep
     DEF Request, Keeps, Hopeful, Running, HealthInv, KindInv, AtHealth, AtPing
<1>6. NotedInv'
  BY <1>3, <1>4, <1>5 DEF HealthInv, NotedInv
<1>7. KindInv'
  <2> USE DEF KindInv, AtHealth, AtPing, Keeps, HealthInv
  <2>1. CASE ReadBlock \/ ReadTx \/ InitializeAll \/ Flags
    BY <1>1, <2>1, ReadBlockStep, ReadTxStep, InitializeAllStep, FlagsStep
  <2>2. CASE GetInfo
    <3>1. req.kind \in {"health", "ping"}
      BY <1>1 DEF ReqType
    <3> QED BY <1>1, <2>2, <3>1, GetInfoStep
  <2>3. CASE Handler \/ Connect \/ SinkBlueScore \/ Select
    BY <1>1, <2>3, HandlerStep, ConnectStep, LastStep
  <2> QED BY <2>1, <2>2, <2>3 DEF Request
<1>8. /\ db \in Filled \ BlocksLate => "blocks" \in Facts
      /\ db \in Filled \ TxsLate => "txs" \in Facts
      /\ (\E h \in hosts : Synced(node[h])) => "synced" \in Facts
  BY DEF Facts
<1>9. Hopeful' => Facts \subseteq was
  BY <1>5 DEF HealthInv, NotedInv
<1>10. DbInv'
  <2> USE DEF HealthInv, DbInv, KindInv, AtHealth, AtPing, Keeps
  <2>1. CASE ReadBlock
    BY <1>1, <1>4, <1>5, <1>8, <1>9, <2>1, ReadBlockStep DEF SharedTypes
  <2>2. CASE ReadTx
    BY <1>1, <1>4, <1>5, <1>8, <1>9, <2>2, ReadTxStep
  <2>3. CASE ~ReadBlock /\ ~ReadTx
    BY <1>1, <1>4, <1>5, <2>3, InitializeAllStep, FlagsStep, HandlerStep, ConnectStep,
       GetInfoStep, LastStep DEF Request, Hopeful, Running
  <2> QED BY <2>1, <2>2, <2>3
<1>11. NodeInv'
  BY <1>1, <1>4, <1>5, <1>8, <1>9, ReadBlockStep, ReadTxStep, InitializeAllStep, FlagsStep,
     HandlerStep, ConnectStep, GetInfoStep, LastStep
     DEF Request, Keeps, HealthInv, NodeInv, Hopeful, Running
<1>12. \A p \in Pinger, h \in hosts :
           asked'[p][h] = asked[p][h] \/ (p = "request" /\ asked'[p][h] \in {"none", "sent"})
  <2>1. UNCHANGED asked \/ Ping("request")
    BY <1>1, ReadBlockStep, ReadTxStep, InitializeAllStep, FlagsStep, HandlerStep, ConnectStep,
       GetInfoStep, LastStep DEF Request
  <2>2. hosts \subseteq Host
    BY <1>1, SetupsAssumption DEF SharedTypes
  <2> QED BY <1>1, <2>1, <2>2, PingSends DEF Pinger
<1>13. AnswersInv'
  <2>1. Hopeful' => (Told' <=> Told)
    BY <1>4 DEF Told
  <2>2. \A p \in Pinger, h \in hosts : Synced(asked'[p][h]) => Synced(asked[p][h])
    BY <1>12 DEF Synced
  <2> QED BY <1>2, <1>5, <2>1, <2>2 DEF HealthInv, AnswersInv
<1>14. FlagInv'
  <2>1. CASE InitializeAll
    <3>1. \A h \in hosts : ~wrpc => asked'["request"][h] = "sent"
      BY <1>1, <2>1, InitializeAllStep, PingSends, SetupsAssumption DEF Pinger, SharedTypes
    <3> QED BY <1>2, <3>1 DEF FlagInv
  <2>2. CASE ~InitializeAll
    <3>1. req'.pc # "flags"
      BY <1>1, <2>2, ReadBlockStep, ReadTxStep, FlagsStep, HandlerStep, ConnectStep,
         GetInfoStep, LastStep DEF Request
    <3> QED BY <3>1 DEF FlagInv
  <2> QED BY <2>1, <2>2
<1> QED BY <1>6, <1>7, <1>10, <1>11, <1>13, <1>14 DEF HealthInv

LEMMA Kept == HealthInv /\ [Next]_vars => HealthInv'
<1> SUFFICES ASSUME HealthInv, [Next]_vars PROVE HealthInv'
  OBVIOUS
<1>1. TypeOK /\ TypeOK' /\ SharedTypes /\ Awaited
  BY Typed, TypeParts DEF HealthInv
<1>2. CASE Blues
  BY <1>1, <1>2, BluesTyped, OthersKeep
<1>3. ASSUME NEW h \in hosts, Others(h) PROVE HealthInv'
  <2>1. CASE OtherRecords(h)
    BY <1>1, <1>3, <2>1, OtherRecordsKeeps DEF Others
  <2>2. CASE DeadlinePasses(h)
    <3>1. \A g \in hosts : \A st \in others'[g] : st \in others[g] \/ st = node[g]
      BY <1>1, <2>2, SetupsAssumption DEF DeadlinePasses, SharedTypes
    <3> QED BY <1>1, <1>3, <2>2, <3>1, OthersKeep DEF DeadlinePasses, Others
  <2> QED BY <1>3, <2>1, <2>2 DEF Others
<1>4. ASSUME NEW p \in Pinger, NEW h \in hosts, Pings(p, h) PROVE HealthInv'
  BY <1>1, <1>4, AnsweredKeeps, EndsKeeps DEF Pings
<1>5. CASE UNCHANGED vars
  BY <1>1, <1>5, OthersKeep DEF vars
<1> QED BY <1>1, <1>2, <1>3, <1>4, <1>5, EnvironmentKeeps, AsksKeeps, RequestKeeps DEF Next

(* The step that answers 200 finds everything noted that it tells.         *)
LEMMA AnswerWas ==
    ASSUME HealthInv, [Next]_vars, Running, ~Running', req'.code = 200
    PROVE  /\ "synced" \in was \/ (req.kind = "health" /\ ~wrpc /\ "heard" \in was)
           /\ req.kind = "health" => "txs" \in was
           /\ req.kind = "health" /\ req.score = "current" => "blocks" \in was
<1>1. req \in ReqType /\ SharedTypes
  BY TypeParts DEF HealthInv
<1>2. Request
  BY DEF Next, Environment, NodeChanges, DbChanges, LinkLost, ScoreAges, Asks, Blues,
         BlueWakes, BlueConnects, BlueAsks, BlueAsksAgain, BlueEnds, Pings, PingAnswered,
         PingEnds, Others, OtherRecords, DeadlinePasses, vars, Running
<1>3. hosts \subseteq Host
  BY <1>1, SetupsAssumption DEF SharedTypes
<1> USE DEF HealthInv, KindInv, AtHealth, AtPing, DbInv, Running, Hopeful
<1>4. CASE Flags
  <2>1. Done("request") /\ req.pc = "flags" /\ ~wrpc /\ req.db
        /\ \E h \in hosts : known[h] # None /\ Synced(known[h])
    BY <1>1, <1>4, FlagsStep
  <2>2. Told
    BY <1>3, <2>1 DEF FlagInv, Done
  <2> QED BY <2>1, <2>2 DEF Told
<1>5. CASE SinkBlueScore \/ Select
  BY <1>1, <1>5, LastStep DEF NodeInv
<1>6. CASE GetInfo
  BY <1>1, <1>6, GetInfoStep
<1>7. CASE ReadBlock \/ ReadTx \/ InitializeAll \/ Handler \/ Connect
  BY <1>1, <1>7, ReadBlockStep, ReadTxStep, InitializeAllStep, HandlerStep, ConnectStep
<1> QED BY <1>2, <1>4, <1>5, <1>6, <1>7 DEF Request
-----------------------------------------------------------------------------
(* Every variable keeps its type, and only who has pings under way awaits  *)
(* them (Health.tla, TypeOK), for any number of hosts.                     *)
THEOREM HealthTypes == Spec => []TypeOK
<1>1. TypeOK /\ [Next]_vars => TypeOK'
  BY Typed
<1> QED BY InitTyped, <1>1, PTL DEF Spec

(* "503 if the database lags or no nodes are synced" (get_health.py:51):   *)
(* what a 200 tells was so while the request ran, or a ping that it found  *)
(* under way had been told so, although the flags, the rows and the node   *)
(* are read one after the other and pings of other callers are answered    *)
(* early and recorded late (KaspadClient.py:20-23).                        *)
THEOREM HealthyOnlyIfItWas == Spec => HealthyWas
<1>1. HealthInv /\ [Next]_vars => HealthInv'
  BY Kept
<1>2. HealthInv /\ [Next]_vars =>
        [Running /\ ~Running' /\ req'.code = 200 =>
            /\ "synced" \in was \/ (req.kind = "health" /\ ~wrpc /\ "heard" \in was)
            /\ req.kind = "health" => "txs" \in was
            /\ req.kind = "health" /\ req.score = "current" => "blocks" \in was]_vars
  BY AnswerWas
<1> QED BY Initially, <1>1, <1>2, PTL DEF Spec, HealthyWas
=============================================================================
