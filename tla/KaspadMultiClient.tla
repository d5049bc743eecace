------------------------- MODULE KaspadMultiClient -------------------------
(***************************************************************************)
(* One worker's gRPC client: KaspadMultiClient over one KaspadClient per   *)
(* configured host, every call a KaspadThread of its own.                  *)
(*                                                                         *)
(* A host serves requests while its last recorded status says that it is   *)
(* synced and utxo-indexed; the first such host in configuration order is  *)
(* used.  A request that fails pings every host and is repeated once.      *)
(* Coroutines interleave at every await: pings of one caller are recorded  *)
(* while another caller waits, and in any order.                           *)
(***************************************************************************)
EXTENDS Naturals, FiniteSets

CONSTANTS N,        \* number of KASPAD_HOST_i variables, tried in this order
          Request,  \* the HTTP requests that reach kaspad_client.request
          Info,     \* the statuses a running node can report
          Loop,     \* the periodic task of server.py
          Startup   \* the startup handler of main.py

Node == 1..N
Full == {"synced", "utxo_indexed"}    \* what __get_kaspad wants to see
Down == {"down"}
Caller == Request \cup {Loop, Startup}

\* server.py:127-134 accepts no host at all when a wRPC URL is configured.
ASSUME NAssumption == N \in Nat
ASSUME InfoAssumption == Info \subseteq SUBSET Full
ASSUME CallerAssumption == Loop # Startup /\ {Loop, Startup} \cap Request = {}

VARIABLES
    node,      \* the status node k would report now; Down while it does not
               \* answer its RPCs within their deadline
    known,     \* KaspadClient: the flags is_synced, is_utxo_indexed that are truthy
    phase,     \* the worker: "starting", "pinging" (main.startup), "serving"
    ping,      \* ping[c][k]: the ping task of host k created by caller c
    pc,        \* where the HTTP request is
    target,    \* the host its current or last attempt went to, 0 if none
    wire,      \* that attempt: "none", "sent", "executed" (by the node)
    late,      \* late[r][a]: the host that attempt a of r was given up on
               \* before it ran the command, and that may still run it, or 0
    executions,\* history: how many times a node ran the request's command
    seen       \* history: seen[c][k], what was last recorded for host k while
               \* caller c awaited initialize_all: "none", "good", "bad"

worker == <<known, phase, ping, pc, target, wire, late, executions, seen>>
vars == <<node, worker>>

Idle == [st |-> "idle", info |-> {}]
Asked == [st |-> "asked", info |-> {}]
Answered(i) == [st |-> "answered", info |-> i]
PingState == {Idle, Asked} \cup {Answered(i) : i \in Info}

PC == {"new", "first", "refresh", "second", "handler",
       "ok", "unavailable", "error"}
Final == {"ok", "unavailable", "error"}
Attempt == {"first", "second"}
-----------------------------------------------------------------------------
Up(k) == node[k] # Down
Eligible(k) == known[k] = Full

\* __get_kaspad takes the last eligible host (mutant).
GetKaspadLast ==
    IF \E k \in Node : Eligible(k)
    THEN CHOOSE k \in Node : Eligible(k) /\ \A j \in (k + 1)..N : ~Eligible(j)
    ELSE 0

\* __get_kaspad: the first host in configuration order; 0 is "No synced
\* kaspad available".
get_kaspad ==
    IF \E k \in Node : Eligible(k)
    THEN CHOOSE k \in Node : Eligible(k) /\ \A j \in 1..(k - 1) : ~Eligible(j)
    ELSE 0

\* initialize_all awaits its first task only (mutant).
AllPingsDoneFirstOnly(c) == N = 0 \/ ping[c][1] = Idle

\* The for loop over the tasks is over (KaspadMultiClient.py:23-24).
AllPingsDone(c) == \A k \in Node : ping[c][k] = Idle

\* The callers that are inside initialize_all and act on its result.
Awaiting(c) == \/ c \in Request /\ pc[c] = "refresh"
               \/ c = Startup /\ phase = "pinging"

\* initialize_all, up to its first await.
initialize_all(c) == ping' = [ping EXCEPT ![c] = [k \in Node |-> Asked]]

ForgetSeen(c) == seen' = [seen EXCEPT ![c] = [k \in Node |-> "none"]]

\* KaspadClient.request to host k on behalf of r.
Send(r, k, p) ==
    /\ pc' = [pc EXCEPT ![r] = p]
    /\ target' = [target EXCEPT ![r] = k]
    /\ wire' = [wire EXCEPT ![r] = "sent"]

\* The attempt of r is over and r is now at p.
Leave(r, p) ==
    /\ pc' = [pc EXCEPT ![r] = p]
    /\ wire' = [wire EXCEPT ![r] = "none"]

\* r stops waiting for its attempt.  The end of the client's side of the
\* stream does not take the command back: a node that did not run it yet may
\* have it, and may run it at any later time or never.
GiveUp(r) ==
    late' = IF wire[r] = "sent" THEN [late EXCEPT ![r][pc[r]] = target[r]] ELSE late

\* The status i is recorded for host k: is_utxo_indexed and is_synced are
\* assigned with no await in between (KaspadClient.py:21-24, 28-29).
Record(k, i) ==
    /\ known' = [known EXCEPT ![k] = i]
    /\ seen' = [c \in Caller |->
                  IF Awaiting(c)
                  THEN [seen[c] EXCEPT ![k] = IF i = Full THEN "good" ELSE "bad"]
                  ELSE seen[c]]
-----------------------------------------------------------------------------
Init ==
    /\ node \in [Node -> Info \cup {Down}]
    /\ known = [k \in Node |-> {}]
    /\ phase = "starting"
    /\ ping = [c \in Caller |-> [k \in Node |-> Idle]]
    /\ pc = [r \in Request |-> "new"]
    /\ target = [r \in Request |-> 0]
    /\ wire = [r \in Request |-> "none"]
    /\ late = [r \in Request |-> [a \in Attempt |-> 0]]
    /\ executions = [r \in Request |-> 0]
    /\ seen = [c \in Caller |-> [k \in Node |-> "none"]]

(* The environment: a node stops answering, comes back, loses or regains   *)
(* its sync, is restarted with another configuration.                      *)
NodeChanges(k) ==
    /\ \E i \in Info \cup {Down} : node' = [node EXCEPT ![k] = i]
    /\ UNCHANGED worker

(* Pings: KaspadClient.ping, created by any caller of initialize_all.      *)
PingSample(c, k) ==
    /\ ping[c][k] = Asked
    /\ Up(k)
    /\ ping' = [ping EXCEPT ![c][k] = Answered(node[k])]
    /\ UNCHANGED <<node, known, phase, pc, target, wire, late, executions, seen>>

PingRecord(c, k) ==
    /\ ping[c][k].st = "answered"
    /\ Record(k, ping[c][k].info)
    /\ ping' = [ping EXCEPT ![c][k] = Idle]
    /\ UNCHANGED <<node, phase, pc, target, wire, late, executions>>

\* A failed ping leaves the record as it was (mutant).
PingFailKeepsStatus(c, k) ==
    /\ ping[c][k] # Idle
    /\ ~Up(k)
    /\ ping' = [ping EXCEPT ![c][k] = Idle]
    /\ UNCHANGED <<node, known, phase, pc, target, wire, late, executions, seen>>

\* Any exception, the RPC's deadline included: is_synced = False, and
\* is_utxo_indexed keeps what an earlier ping recorded.
PingFail(c, k) ==
    /\ ping[c][k] # Idle
    /\ ~Up(k)
    /\ Record(k, known[k] \ {"synced"})
    /\ ping' = [ping EXCEPT ![c][k] = Idle]
    /\ UNCHANGED <<node, phase, pc, target, wire, late, executions>>

\* The loop ends after the rounds made before requests are served (mutant).
LoopPingStops ==
    /\ phase # "serving"
    /\ AllPingsDone(Loop)
    /\ initialize_all(Loop)
    /\ UNCHANGED <<node, known, phase, pc, target, wire, late, executions, seen>>

(* server.py:159-169: the loop starts with the application and sleeps 60   *)
(* seconds, abstracted to any time, between two rounds.                    *)
LoopPing ==
    /\ AllPingsDone(Loop)
    /\ initialize_all(Loop)
    /\ UNCHANGED <<node, known, phase, pc, target, wire, late, executions, seen>>

(* main.startup: market data first, then a round of pings; requests are    *)
(* served once it has returned.                                            *)
StartupPing ==
    /\ phase = "starting"
    /\ phase' = "pinging"
    /\ initialize_all(Startup)
    /\ ForgetSeen(Startup)
    /\ UNCHANGED <<node, known, pc, target, wire, late, executions>>

\* startup does not await the pings it created (mutant).
StartupDoneEarly ==
    /\ phase = "pinging"
    /\ phase' = "serving"
    /\ UNCHANGED <<node, known, ping, pc, target, wire, late, executions, seen>>

StartupDone ==
    /\ phase = "pinging"
    /\ AllPingsDone(Startup)
    /\ phase' = "serving"
    /\ UNCHANGED <<node, known, ping, pc, target, wire, late, executions, seen>>
-----------------------------------------------------------------------------
(* KaspadMultiClient.request, by the HTTP request r.                       *)

\* __get_kaspad raises inside the try block: r refreshes and tries again.
Refresh(r) ==
    /\ Leave(r, "refresh")
    /\ target' = [target EXCEPT ![r] = 0]
    /\ initialize_all(r)
    /\ ForgetSeen(r)

Start(r) ==
    /\ pc[r] = "new"
    /\ phase = "serving"
    /\ \/ /\ get_kaspad # 0
          /\ Send(r, get_kaspad, "first")
          /\ UNCHANGED <<ping, seen>>
       \/ /\ get_kaspad = 0
          /\ Refresh(r)
    /\ UNCHANGED <<node, known, phase, late, executions>>

\* The node runs the command; its answer is on the way.
Execute(r) ==
    /\ wire[r] = "sent"
    /\ Up(target[r])
    /\ wire' = [wire EXCEPT ![r] = "executed"]
    /\ executions' = [executions EXCEPT ![r] = @ + 1]
    /\ UNCHANGED <<node, known, phase, ping, pc, target, late, seen>>

\* A node runs the command of an attempt that r has given up: while r pings
\* the hosts, repeats the command, or was answered long ago.
ExecuteLate(r, a) ==
    /\ late[r][a] # 0
    /\ Up(late[r][a])
    /\ late' = [late EXCEPT ![r][a] = 0]
    /\ executions' = [executions EXCEPT ![r] = @ + 1]
    /\ UNCHANGED <<node, known, phase, ping, pc, target, wire, seen>>

\* The answer arrives and the endpoint makes a response of it.
Reply(r) ==
    /\ wire[r] = "executed"
    /\ Up(target[r])
    /\ Leave(r, "ok")
    /\ UNCHANGED <<node, known, phase, ping, target, late, executions, seen>>

\* The stream ends with no message (KaspadThread.request returns None) or
\* the endpoint cannot use the answer: the handler of server.py:147-156
\* pings every host before it answers 500.
EndpointRaises(r) ==
    /\ wire[r] # "none"
    /\ Up(target[r])
    /\ Leave(r, "handler")
    /\ GiveUp(r)
    /\ initialize_all(r)
    /\ UNCHANGED <<node, known, phase, target, executions, seen>>

\* The second attempt is itself retried (mutant).
RpcErrorRetriesForever(r) ==
    /\ wire[r] # "none"
    /\ ~Up(target[r])
    /\ GiveUp(r)
    /\ Refresh(r)
    /\ UNCHANGED <<node, known, phase, executions>>

\* AioRpcError, the deadline of KaspadThread.py:62 included, before or after
\* the node ran the command: the first attempt is repeated, the second one
\* becomes 503 (KaspadMultiClient.py:29-31, server.py:139-144).
RpcError(r) ==
    /\ wire[r] # "none"
    /\ ~Up(target[r])
    /\ GiveUp(r)
    /\ \/ /\ pc[r] = "first"
          /\ Refresh(r)
       \/ /\ pc[r] = "second"
          /\ Leave(r, "unavailable")
          /\ UNCHANGED <<ping, target, seen>>
    /\ UNCHANGED <<node, known, phase, executions>>

\* The pings of r are over: the repetition, or 503.
Refreshed(r) ==
    /\ pc[r] = "refresh"
    /\ AllPingsDone(r)
    /\ \/ /\ get_kaspad # 0
          /\ Send(r, get_kaspad, "second")
       \/ /\ get_kaspad = 0
          /\ Leave(r, "unavailable")
          /\ UNCHANGED target
    /\ UNCHANGED <<node, known, phase, ping, late, executions, seen>>

HandlerDone(r) ==
    /\ pc[r] = "handler"
    /\ AllPingsDone(r)
    /\ Leave(r, "error")
    /\ UNCHANGED <<node, known, phase, ping, target, late, executions, seen>>
-----------------------------------------------------------------------------
PingStep(c, k) == PingSample(c, k) \/ PingRecord(c, k) \/ PingFail(c, k)

RequestStep(r) ==
    \/ Start(r) \/ Execute(r) \/ Reply(r) \/ EndpointRaises(r)
    \/ RpcError(r) \/ Refreshed(r) \/ HandlerDone(r)

Next ==
    \/ \E k \in Node : NodeChanges(k)
    \/ \E c \in Caller, k \in Node : PingStep(c, k)
    \/ LoopPing \/ StartupPing \/ StartupDone
    \/ \E r \in Request : RequestStep(r)
    \/ \E r \in Request, a \in Attempt : ExecuteLate(r, a)

Spec == Init /\ [][Next]_vars

(* Fairness: every RPC ends, since KaspadThread passes a deadline to gRPC   *)
(* (10 s by default); every resumed coroutine runs, since the event loop    *)
(* is first come, first served; the sleep of the loop ends; startup runs    *)
(* (the market data request carries a 10 s timeout).  Nothing makes a node  *)
(* run a command that was given up.                                         *)
Fairness ==
    /\ \A c \in Caller, k \in Node : WF_vars(PingStep(c, k))
    /\ WF_vars(LoopPing) /\ WF_vars(StartupPing) /\ WF_vars(StartupDone)
    /\ \A r \in Request : WF_vars(RequestStep(r))

FairSpec == Spec /\ Fairness
-----------------------------------------------------------------------------
(* Every variable has its type; a request has an RPC under way exactly     *)
(* while it awaits one, to a host, and has ping tasks only while it awaits *)
(* initialize_all.                                                         *)
TypeOK ==
    /\ node \in [Node -> Info \cup {Down}]
    /\ known \in [Node -> SUBSET Full]
    /\ phase \in {"starting", "pinging", "serving"}
    /\ ping \in [Caller -> [Node -> PingState]]
    /\ pc \in [Request -> PC]
    /\ target \in [Request -> 0..N]
    /\ wire \in [Request -> {"none", "sent", "executed"}]
    /\ late \in [Request -> [Attempt -> 0..N]]
    /\ executions \in [Request -> Nat]
    /\ seen \in [Caller -> [Node -> {"none", "good", "bad"}]]
    /\ \A r \in Request :
          /\ wire[r] # "none" <=> pc[r] \in {"first", "second"}
          /\ wire[r] # "none" => target[r] # 0
          /\ pc[r] \notin {"refresh", "handler"} =>
                 \A k \in Node : ping[r][k] = Idle

(* The repetition goes to the first host whose status, as recorded last    *)
(* since the first attempt failed, is good: every host before it was       *)
(* recorded as bad in that time.  No record older than the failure decides *)
(* (KaspadMultiClient.py:29-31, against pings of other callers).           *)
RetryOnFreshStatus ==
    \A r \in Request : pc[r] = "second" =>
        /\ seen[r][target[r]] = "good"
        /\ \A j \in 1..(target[r] - 1) : seen[r][j] = "bad"

(* A request that never got its second attempt is answered 503 only after  *)
(* every single host was recorded as bad since its first attempt failed    *)
(* (KaspadMultiClient.py:20-24 and 31).                                    *)
UnavailableOnlyIfAllBad ==
    \A r \in Request : pc[r] = "unavailable" /\ target[r] = 0 =>
        \A k \in Node : seen[r][k] = "bad"

(* No request is served before every host has been pinged once: until then *)
(* a host not asked yet is indistinguishable from one that is down         *)
(* (main.py:68-73, KaspadClient.py:13-16).                                 *)
ServedOnlyAfterPings ==
    phase = "serving" => \A k \in Node : seen[Startup][k] # "none"

(* The contract of request: at most two executions, those of attempts that *)
(* were given up included and however late they run, none before the       *)
(* request, an answer only after one of them, each request settled exactly *)
(* once (KaspadMultiClient.py:26-31, KaspadThread.py:62).                  *)
Outcome(p) ==
    IF p \in Final THEN p ELSE IF p = "new" THEN "new" ELSE "pending"

Contract == INSTANCE KaspadRequest
    WITH outcome <- [r \in Request |-> Outcome(pc[r])], executions <- executions

ImplementsContract == Contract!Spec

(* The contract with its progress: a request that was started is answered, *)
(* whatever the nodes do meanwhile.                                        *)
ImplementsFairContract == Contract!FairSpec

(* A host that stays healthy is back in rotation for good, even if answers *)
(* and failures from before are still to be recorded (server.py:159-169).  *)
HealthyHostRejoins ==
    \A k \in Node : <>[](node[k] = Full) => <>[]Eligible(k)

(* A host that stays unreachable leaves the rotation for good, although a  *)
(* good answer it gave earlier may be recorded after the failure.          *)
DeadHostLeaves == \A k \in Node : <>[](~Up(k)) => <>[](~Eligible(k))
=============================================================================
