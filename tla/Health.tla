------------------------------- MODULE Health -------------------------------
(***************************************************************************)
(* What a monitor is told: /info/health and /ping, with all they rest on:  *)
(* the flags of the gRPC clients, the shared and lazily connected wRPC     *)
(* client, the blue score that a loop of the worker asks for, and the      *)
(* newest rows of the database.  KaspadMultiClient has the gRPC requests   *)
(* in detail; here any eligible host may be asked.                         *)
(***************************************************************************)
EXTENDS Naturals

CONSTANTS Host,     \* the nodes there are
          Setups,   \* those that a worker may be set up with
          First,    \* setup -> KASPAD_HOST_1
          Reports,  \* what each of the nodes may be found to be
          Data,     \* what the database may be found to be
          None

\* "full" is synced and utxo-indexed; "down" does not answer in time.
Status == {"full", "synced", "syncing", "down"}

\* Whether the newest block, and the newest accepted transaction, are recent.
DB == {"down", "empty", "current", "blocks_late", "txs_late", "late"}
Filled == DB \ {"down", "empty"}
BlocksLate == {"blocks_late", "late"}
TxsLate == {"txs_late", "late"}

ASSUME HostAssumption == None \notin Host
ASSUME SetupsAssumption == Setups \subseteq SUBSET Host /\ \A s \in Setups : First[s] \in s
ASSUME ReportsAssumption == Reports \in [Host -> SUBSET Status] /\ Data \subseteq DB

VARIABLES
    wrpc,     \* KASPAD_WRPC_URL is set: no gRPC hosts then
    hosts,    \* the gRPC hosts, or the nodes that the URL stands for
    node,     \* Host -> Status
    db,       \* state of the database, one of DB
    known,    \* KaspadClient: the status last recorded, None before the first answer
    link,     \* the node that the wRPC client is connected to, None for none
    others,   \* Host -> what pings of other callers found it to be, to record
    asked,    \* Pinger -> Host -> how far its ping of the host has come
    score,    \* current_blue_score_data, one of Score
    blue,     \* the loop of update_blue_score
    req,      \* the request of the monitor
    was       \* history: the facts that held at some moment of that request

env == <<wrpc, hosts, node, db>>
vars == <<env, known, others, link, asked, score, blue, req, was>>

Synced(st) == st \in {"full", "synced"}
Up == {h \in hosts : node[h] # "down"}

\* A ping is sent, the node answers or is not there, and the caller records
\* that: "none", "sent", and a status for an answer still to be recorded.
Answer == Status \cup {"none", "sent"}
Pinger == {"blue", "request"}
\* "missed": current, but the last attempt to renew it failed.
Score == {"none", "current", "missed", "stale"}
Blue == {"sleep", "connect", "first", "pings", "second"}
ReqPC == {"idle", "block", "tx", "pings", "flags", "connect", "info", "sink",
          "select", "handler", "answered"}
Idle == [pc |-> "idle", kind |-> "health", score |-> "none",
         db |-> FALSE, node |-> FALSE, code |-> 0]
-----------------------------------------------------------------------------
Init ==
    /\ wrpc \in BOOLEAN
    /\ hosts \in Setups
    /\ node \in [Host -> Status]
    /\ \A h \in Host : node[h] \in IF h \in hosts THEN Reports[h] ELSE {"down"}
    /\ db \in Data
    /\ others = [h \in Host |-> IF wrpc THEN {} ELSE {node[h]}]
    /\ known = [h \in Host |-> None] /\ link = None
    /\ asked = [p \in Pinger |-> [h \in Host |-> "none"]]
    /\ score = "none" /\ blue = "sleep"
    /\ req = Idle /\ was = {}

(* What a moment of the request can show: a node that is synced, recent    *)
(* rows, and, when it begins, a ping of another caller under way that a    *)
(* synced node has answered ("heard").                                     *)
Fact == {"synced", "heard", "blocks", "txs"}
Heard == IF \E h \in hosts : \/ \E st \in others[h] : Synced(st)
                            \/ Synced(asked["blue"][h])
         THEN {"heard"} ELSE {}
Facts == (IF \E h \in hosts : Synced(node[h]) THEN {"synced"} ELSE {})
         \cup (IF db \in Filled \ BlocksLate THEN {"blocks"} ELSE {})
         \cup (IF db \in Filled \ TxsLate THEN {"txs"} ELSE {})

Running == req.pc \notin {"idle", "answered"}
\* Only of a request that may still be answered 200 is the history kept.
Hopeful == Running /\ (req.kind = "ping" \/ req.pc = "block" \/ req.db)

(* Nodes and the database come, go and fall behind; time makes the blue    *)
(* score old only if attempts fail: one succeeds or fails within a minute, *)
(* and HEALTH_TOLERANCE_DOWN is five.                                      *)
NodeChanges == /\ \E h \in hosts : \E st \in Reports[h] \ {node[h]} :
                     node' = [node EXCEPT ![h] = st]
               /\ others' = [h \in Host |->
                                IF wrpc THEN {} ELSE others[h] \cup {node'[h]}]
               /\ UNCHANGED <<wrpc, hosts, db, known, link, asked, score, blue, req>>
DbChanges == /\ db' \in Data \ {db}
             /\ UNCHANGED <<wrpc, hosts, node, known, others, link, asked, score, blue, req>>
LinkLost == /\ link # None /\ link \notin Up /\ link' = None
            /\ UNCHANGED <<env, known, others, asked, score, blue, req>>
ScoreAges == /\ score = "missed" /\ score' = "stale"
             /\ UNCHANGED <<env, known, others, link, asked, blue, req>>

Environment == (NodeChanges \/ DbChanges \/ LinkLost \/ ScoreAges)
               /\ was' = IF Hopeful THEN was \cup Facts' ELSE {}
-----------------------------------------------------------------------------
(* KaspadMultiClient.initialize_all and KaspadClient.ping: an answer waits *)
(* for its coroutine while nodes change and others record theirs.  A ping  *)
(* that a node no longer answers fails, and then only clears is_synced: a  *)
(* host that never answered keeps None for all its fields.                 *)
Ping(p) == asked' = [asked EXCEPT ![p] =
                        [h \in Host |-> IF ~wrpc /\ h \in hosts THEN "sent" ELSE "none"]]
Done(p) == \A h \in Host : asked[p][h] = "none"

\* A ping that fails leaves the flags (mutant of Recorded).
RecordedIfAnswered(old, st) == IF st = "down" THEN old ELSE st

Recorded(old, st) == IF st = "down" /\ old = None THEN None ELSE st

PingAnswered(p, h) ==
    /\ asked[p][h] = "sent"
    /\ asked' = [asked EXCEPT ![p][h] = node[h]]
    /\ UNCHANGED <<env, known, others, link, score, blue, req>>

PingEnds(p, h) ==
    /\ asked[p][h] # "none"
    /\ \E st \in ({asked[p][h]} \cap Status) \cup (IF h \in Up THEN {} ELSE {"down"}) :
          known' = [known EXCEPT ![h] = Recorded(@, st)]
    /\ asked' = [asked EXCEPT ![p][h] = "none"]
    /\ UNCHANGED <<env, others, link, score, blue, req>>

(* The loop of server.py, the refreshes of other requests and the handler  *)
(* of their exceptions ping as well, any number of them: each may record   *)
(* what the node was within the deadline of the ping.                      *)
OtherRecords(h) ==
    /\ \E st \in others[h] : known' = [known EXCEPT ![h] = Recorded(@, st)]
    /\ UNCHANGED <<env, others, link, asked, score, blue, req>>

DeadlinePasses(h) ==
    /\ ~wrpc /\ others[h] # {node[h]} /\ others' = [others EXCEPT ![h] = {node[h]}]
    /\ UNCHANGED <<env, known, link, asked, score, blue, req>>

Eligible == {h \in hosts : known[h] = "full"}

(* kaspad_rpc_client, up to its first wait: `next` when connected, or when *)
(* the connect is refused because another one is under way on the same     *)
(* object.  The client is returned whether or not it is connected.         *)
ConnectOr(next, another) ==
    IF wrpc /\ link = None
    THEN {"connect"} \cup (IF another THEN {next} ELSE {})
    ELSE {next}

Connects == IF link = None /\ Up # {} THEN link' \in Up ELSE UNCHANGED link
-----------------------------------------------------------------------------
(* update_blue_score: one attempt and a pause of five seconds, for ever.   *)
BlueTo(b) == blue' = b /\ UNCHANGED score
Fails == score' = IF score = "current" THEN "missed" ELSE score
Scored == score' = "current" /\ blue' = "sleep"
Missed == Fails /\ blue' = "sleep"

BlueWakes ==
    /\ blue = "sleep"
    /\ \E b \in ConnectOr("first", req.pc = "connect") : BlueTo(b)
    /\ UNCHANGED <<env, known, others, link, asked, req>>

BlueConnects ==
    /\ blue = "connect" /\ Connects /\ BlueTo("first")
    /\ UNCHANGED <<env, known, others, asked, req>>

\* Over wRPC, an attempt that fails ends the loop (mutant of BlueAsks).
BlueAsksOnce ==
    /\ blue = "first"
    /\ IF wrpc
       THEN IF link \in Up THEN Scored ELSE blue' = "ended" /\ Fails
       ELSE \/ \E h \in Eligible : h \in Up /\ Scored
            \/ (Eligible = {} \/ Eligible \ Up # {}) /\ BlueTo("pings")
    /\ IF blue' = "pings" THEN Ping("blue") ELSE UNCHANGED asked
    /\ UNCHANGED <<env, known, others, link, req>>

BlueAsks ==
    /\ blue = "first"
    /\ IF wrpc
       THEN IF link \in Up THEN Scored ELSE Missed
       ELSE \/ \E h \in Eligible : h \in Up /\ Scored
            \/ (Eligible = {} \/ Eligible \ Up # {}) /\ BlueTo("pings")
    /\ IF blue' = "pings" THEN Ping("blue") ELSE UNCHANGED asked
    /\ UNCHANGED <<env, known, others, link, req>>

BlueAsksAgain ==
    /\ blue = "pings" /\ Done("blue")
    /\ BlueTo("second")
    /\ UNCHANGED <<env, known, others, link, asked, req>>

BlueEnds ==
    /\ blue = "second"
    /\ \/ \E h \in Eligible : h \in Up /\ Scored
       \/ (Eligible = {} \/ Eligible \ Up # {}) /\ Missed
    /\ UNCHANGED <<env, known, others, link, asked, req>>
-----------------------------------------------------------------------------
Current(s) == IF s = "missed" THEN "current" ELSE s

Asks ==
    /\ ~Running
    /\ \/ req' = [Idle EXCEPT !.pc = "block", !.score = Current(score)]
       \/ \E p \in ConnectOr("info", blue = "connect") :
             req' = [Idle EXCEPT !.pc = p, !.kind = "ping"]
    /\ was' = Facts \cup Heard
    /\ UNCHANGED <<env, known, others, link, asked, score, blue>>

Quiet == UNCHANGED <<env, known, others, score, blue>>
ReqTo(p) == req' = [req EXCEPT !.pc = p]
Answered(code) == req' = [Idle EXCEPT !.pc = "answered", !.code = code]
Answers(ok) == Answered(IF ok THEN 200 ELSE 503)

(* |score - newest block| < HEALTH_TOLERANCE_DOWN * BPS: of two old values *)
(* either may be said; the 0 from before the first score is near to the    *)
(* blocks of a young chain only.                                           *)
Near(s) == IF s = "current" THEN {db \notin BlocksLate}
           ELSE IF s = "stale" THEN IF db \in BlocksLate THEN BOOLEAN ELSE {FALSE}
           ELSE BOOLEAN

\* The newest block is not compared with the node (mutant of ReadBlock).
ReadBlockOnly ==
    /\ req.pc = "block"
    /\ req' = IF db = "down" THEN [req EXCEPT !.pc = "pings"]
              ELSE [req EXCEPT !.pc = "tx", !.db = (db # "empty")]
    /\ UNCHANGED <<link, asked>> /\ Quiet

ReadBlock ==
    /\ req.pc = "block"
    /\ CASE db = "down"  -> ReqTo("pings")
         [] db = "empty" -> ReqTo("tx")
         [] OTHER -> \E near \in Near(req.score) :
                        req' = [req EXCEPT !.pc = "tx", !.db = near]
    /\ UNCHANGED <<link, asked>> /\ Quiet

\* Without a row, int(None) is an exception like any other.
ReadTx ==
    /\ req.pc = "tx"
    /\ req' = [req EXCEPT !.pc = "pings", !.db = @ /\ db \in Filled \ TxsLate]
    /\ UNCHANGED <<link, asked>> /\ Quiet

InitializeAll ==
    /\ req.pc = "pings" /\ ReqTo("flags") /\ Ping("request")
    /\ UNCHANGED link /\ Quiet

\* The pings are not awaited (mutant of Flags).
FlagsAtOnce ==
    /\ req.pc = "flags"
    /\ IF wrpc
       THEN \E p \in ConnectOr("info", blue = "connect") : ReqTo(p) /\ UNCHANGED asked
       ELSE IF req.db /\ \E h \in hosts : known[h] # None /\ Synced(known[h])
            THEN IF \E h \in hosts : known[h] = None
                 THEN ReqTo("handler") /\ Ping("request")
                 ELSE Answered(200) /\ UNCHANGED asked
            ELSE Answered(503) /\ UNCHANGED asked
    /\ UNCHANGED link /\ Quiet

(* The decision is taken over all hosts, but a 200 has to pass the model   *)
(* of the response, which allows no None: the row of a host that never     *)
(* answered makes it a 500, whose handler refreshes the flags first.       *)
Flags ==
    /\ req.pc = "flags" /\ Done("request")
    /\ IF wrpc
       THEN \E p \in ConnectOr("info", blue = "connect") : ReqTo(p) /\ UNCHANGED asked
       ELSE IF req.db /\ \E h \in hosts : known[h] # None /\ Synced(known[h])
            THEN IF \E h \in hosts : known[h] = None
                 THEN ReqTo("handler") /\ Ping("request")
                 ELSE Answered(200) /\ UNCHANGED asked
            ELSE Answered(503) /\ UNCHANGED asked
    /\ UNCHANGED link /\ Quiet

\* unicorn_exception_handler
Handler ==
    /\ req.pc = "handler" /\ Done("request") /\ Answered(500)
    /\ UNCHANGED <<link, asked>> /\ Quiet

Connect ==
    /\ req.pc = "connect" /\ Connects /\ ReqTo("info")
    /\ UNCHANGED asked /\ Quiet

\* get_info, or getInfoRequest of the first host.
GetInfo ==
    /\ req.pc = "info"
    /\ LET h == IF wrpc THEN link ELSE First[hosts]
           ok == IF h \in Up THEN Synced(node[h]) ELSE FALSE
       IN IF req.kind = "health" /\ h \notin Up
          THEN Answered(503)
          ELSE req' = [req EXCEPT !.node = ok,
                          !.pc = IF req.kind = "ping" THEN "select" ELSE "sink"]
    /\ UNCHANGED <<link, asked>> /\ Quiet

\* A failure of get_sink_blue_score leaves isSynced as get_info set it.
SinkBlueScore ==
    /\ req.pc = "sink"
    /\ Answers(req.node /\ req.db)
    /\ UNCHANGED <<link, asked>> /\ Quiet

\* SELECT 1
Select ==
    /\ req.pc = "select"
    /\ Answers(req.node /\ db # "down")
    /\ UNCHANGED <<link, asked>> /\ Quiet

Request == /\ \/ ReadBlock \/ ReadTx \/ InitializeAll \/ Flags \/ Handler
              \/ Connect \/ GetInfo \/ SinkBlueScore \/ Select
           /\ was' = IF Hopeful' THEN was ELSE {}

Blues == /\ BlueWakes \/ BlueConnects \/ BlueAsks \/ BlueAsksAgain \/ BlueEnds
         /\ UNCHANGED was
Pings(p, h) == (PingAnswered(p, h) \/ PingEnds(p, h)) /\ UNCHANGED was
Others(h) == (OtherRecords(h) \/ DeadlinePasses(h)) /\ UNCHANGED was

Next == \/ Environment \/ Asks \/ Request \/ Blues
        \/ \E h \in hosts : Others(h) \/ \E p \in Pinger : Pings(p, h)

Spec == Init /\ [][Next]_vars

(* Every RPC has a deadline, the loop of the blue score goes on after an   *)
(* exception, and monitors ask again and again.                            *)
FairSpec ==
    /\ Spec
    /\ WF_vars(Blues) /\ WF_vars(Request) /\ WF_vars(Asks)
    /\ WF_vars(\E h \in hosts : DeadlinePasses(h) /\ UNCHANGED was)
    /\ \A p \in Pinger : WF_vars(\E h \in hosts : Pings(p, h))
-----------------------------------------------------------------------------
(* Every variable has its type, and who has pings under way awaits them.   *)
TypeOK ==
    /\ wrpc \in BOOLEAN /\ hosts \in Setups /\ node \in [Host -> Status] /\ db \in DB
    /\ others \in [Host -> SUBSET Status]
    /\ known \in [Host -> Status \cup {None}] /\ link \in Host \cup {None}
    /\ asked \in [Pinger -> [Host -> Answer]]
    /\ score \in Score /\ blue \in Blue
    /\ req \in [pc : ReqPC, kind : {"health", "ping"},
                score : Score,
                db : BOOLEAN, node : BOOLEAN, code : {0, 200, 500, 503}]
    /\ was \subseteq Fact
    /\ Done("request") \/ req.pc \in {"flags", "handler"}
    /\ Done("blue") \/ blue = "pings"

(* "503 if the database lags or no nodes are synced" (get_health.py:51): a *)
(* 200 is only answered when at moments while the request ran a node was   *)
(* synced, the newest acceptance was recent and, if the blue score of the  *)
(* node was up to date when it began, so was the newest block.  Over gRPC  *)
(* the flags may instead tell of a node that was synced when it answered a *)
(* ping of another caller that the request found under way.                *)
HealthyWas ==
    [][Running /\ ~Running' /\ req'.code = 200 =>
          /\ "synced" \in was \/ (req.kind = "health" /\ ~wrpc /\ "heard" \in was)
          /\ req.kind = "health" => "txs" \in was
          /\ req.kind = "health" /\ req.score = "current" => "blocks" \in was]_vars

(* The monitor is not told for ever that a service is unwell that is well: *)
(* once the node, the database and the link stay good, so do the answers.  *)
Good == (\A h \in hosts : node[h] = "full") /\ db = "current"
HealthIsSeen == <>[]Good => <>[](req.pc = "answered" => req.code = 200)

(* Nor that it is well: when no node answers any more, the answers say so. *)
OutageIsSeen == <>[](Up = {}) => <>[](req.pc = "answered" => req.code = 503)
=============================================================================
