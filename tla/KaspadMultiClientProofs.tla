---------------------- MODULE KaspadMultiClientProofs ----------------------
(***************************************************************************)
(* For any number of hosts and requests: the type invariant, the safety    *)
(* invariants of KaspadMultiClient, and that it implements KaspadRequest;  *)
(* then what its composition SubmitTransaction says of the transaction.    *)
(***************************************************************************)
EXTENDS SubmitTransaction, WellFoundedInduction, TLAPS

-----------------------------------------------------------------------------
(* Every non-empty set of natural numbers has a least element: a host.       *)
LEMMA LeastNatural ==
    ASSUME NEW S \in SUBSET Nat, S # {}
    PROVE  \E m \in S : \A j \in S : m <= j
<1> DEFINE R == OpToRel(<, Nat)
<1>1. \A x, y \in Nat : ~ (<<y, x>> \in R) => x <= y
  BY DEF OpToRel
<1> HIDE DEF R
<1>2. \E m \in S : \A j \in S : ~ (<<j, m>> \in R)
  BY NatLessThanWellFounded, WFMin DEF R
<1> QED BY <1>1, <1>2

(* __get_kaspad returns the first host whose recorded status is good, or 0 *)
(* when there is none (KaspadMultiClient.py:14-18).                        *)
LEMMA GetKaspad ==
    /\ get_kaspad \in 0..N
    /\ get_kaspad # 0 => /\ Eligible(get_kaspad)
                         /\ \A j \in 1..(get_kaspad - 1) : ~Eligible(j)
    /\ get_kaspad = 0 => \A k \in Node : ~Eligible(k)
<1>1. CASE \A k \in Node : ~Eligible(k)
  BY <1>1, NAssumption DEF get_kaspad, Node
<1>2. CASE \E k \in Node : Eligible(k)
  <2> DEFINE S == {k \in Node : Eligible(k)}
  <2>1. S \in SUBSET Nat /\ S # {}
    BY <1>2, NAssumption DEF Node
  <2>2. PICK m \in S : \A j \in S : m <= j
    BY <2>1, LeastNatural
  <2>3. m \in Node /\ Eligible(m)
    OBVIOUS
  <2>4. \A j \in 1..(m - 1) : ~Eligible(j)
    <3> SUFFICES ASSUME NEW j \in 1..(m - 1), Eligible(j) PROVE FALSE
      OBVIOUS
    <3>1. j \in S
      BY <2>3, NAssumption DEF Node
    <3> QED BY <2>2, <2>3, <3>1, NAssumption DEF Node
  <2> HIDE DEF S
  <2>5. /\ get_kaspad \in Node
        /\ Eligible(get_kaspad)
        /\ \A j \in 1..(get_kaspad - 1) : ~Eligible(j)
    BY <1>2, <2>3, <2>4 DEF get_kaspad
  <2> QED BY <2>5, NAssumption DEF Node
<1> QED BY <1>1, <1>2
-----------------------------------------------------------------------------
(* TypeOK is inductive on its own (KaspadMultiClient.tla, TypeOK).         *)
LEMMA InitTypeOK == Init => TypeOK
BY NAssumption DEF Init, TypeOK, PC, PingState, Caller, Attempt

(* The states of a ping task are told apart by st, and an answer is one of *)
(* the statuses a node can report.                                         *)
LEMMA PingStates ==
    /\ Idle \in PingState /\ Asked \in PingState /\ Asked # Idle
    /\ \A p \in PingState : p.st = "answered" => p.info \in Info /\ p # Idle
    /\ \A p \in PingState : p.st = "answered" => p.info \in SUBSET Full
BY InfoAssumption DEF PingState, Idle, Asked, Answered

(* The host of an attempt that is given up is kept in late. *)
LEMMA GiveUpTypes ==
    ASSUME TypeOK, NEW r \in Request, GiveUp(r)
    PROVE  late' \in [Request -> [Attempt -> 0..N]]
<1>1. CASE wire[r] = "sent"
  <2>1. pc[r] \in Attempt /\ target[r] \in 0..N
    BY <1>1 DEF TypeOK, Attempt
  <2> QED BY <1>1, <2>1 DEF GiveUp, TypeOK
<1>2. CASE wire[r] # "sent"
  BY <1>2 DEF GiveUp, TypeOK
<1> QED BY <1>1, <1>2

(* Entering initialize_all on behalf of a request keeps the types. *)
LEMMA RefreshTypes ==
    ASSUME TypeOK, NEW r \in Request, Refresh(r),
           UNCHANGED <<node, known, phase, executions>>,
           late' \in [Request -> [Attempt -> 0..N]]
    PROVE  TypeOK'
<1> USE NAssumption DEF TypeOK, Caller
<1>1. ping' \in [Caller -> [Node -> PingState]]
  BY PingStates DEF Refresh, initialize_all
<1>2. seen' \in [Caller -> [Node -> {"none", "good", "bad"}]]
  BY DEF Refresh, ForgetSeen
<1>3. /\ pc' \in [Request -> PC]
      /\ target' \in [Request -> 0..N]
      /\ wire' \in [Request -> {"none", "sent", "executed"}]
  BY DEF Refresh, Leave, PC
<1>4. \A q \in Request \ {r} :
          pc'[q] = pc[q] /\ wire'[q] = wire[q] /\ target'[q] = target[q]
             /\ ping'[q] = ping[q]
  BY DEF Refresh, Leave, initialize_all
<1>5. pc'[r] = "refresh" /\ wire'[r] = "none"
  BY DEF Refresh, Leave
<1>6. \A q \in Request :
          /\ wire'[q] # "none" <=> pc'[q] \in {"first", "second"}
          /\ wire'[q] # "none" => target'[q] # 0
          /\ pc'[q] \notin {"refresh", "handler"} => \A k \in Node : ping'[q][k] = Idle
  <2>1. ASSUME NEW q \in Request \ {r}
        PROVE  /\ wire'[q] # "none" <=> pc'[q] \in {"first", "second"}
               /\ wire'[q] # "none" => target'[q] # 0
               /\ pc'[q] \notin {"refresh", "handler"} => \A k \in Node : ping'[q][k] = Idle
    BY <1>4
  <2> QED BY <1>5, <2>1
<1> QED BY <1>1, <1>2, <1>3, <1>6

(* Sending an attempt to a host keeps the types. *)
LEMMA SendTypes ==
    ASSUME TypeOK, NEW r \in Request, NEW k \in Node, NEW p \in {"first", "second"},
           Send(r, k, p), \A j \in Node : ping[r][j] = Idle,
           UNCHANGED <<node, known, phase, ping, late, executions, seen>>
    PROVE  TypeOK'
<1> USE NAssumption DEF TypeOK, Node
<1>1. /\ pc' \in [Request -> PC]
      /\ target' \in [Request -> 0..N]
      /\ wire' \in [Request -> {"none", "sent", "executed"}]
  BY DEF Send, PC
<1>2. \A q \in Request \ {r} :
          pc'[q] = pc[q] /\ wire'[q] = wire[q] /\ target'[q] = target[q]
  BY DEF Send
<1>3. pc'[r] = p /\ wire'[r] = "sent" /\ target'[r] # 0
  BY DEF Send
<1> QED BY ZenonT(40), <1>1, <1>2, <1>3

(* Ending an attempt with an answer keeps the types. *)
LEMMA LeaveTypes ==
    ASSUME TypeOK, NEW r \in Request, NEW p \in Final,
           Leave(r, p), \A j \in Node : ping[r][j] = Idle,
           UNCHANGED <<node, known, phase, ping, target, executions, seen>>,
           late' \in [Request -> [Attempt -> 0..N]]
    PROVE  TypeOK'
<1> USE DEF TypeOK, Final
<1>1. /\ pc' \in [Request -> PC]
      /\ wire' \in [Request -> {"none", "sent", "executed"}]
  BY DEF Leave, PC
<1>2. \A q \in Request \ {r} : pc'[q] = pc[q] /\ wire'[q] = wire[q]
  BY DEF Leave
<1>3. pc'[r] = p /\ wire'[r] = "none"
  BY DEF Leave
<1> QED BY <1>1, <1>2, <1>3

LEMMA NextTypeOK == TypeOK /\ [Next]_vars => TypeOK'
<1> SUFFICES ASSUME TypeOK, [Next]_vars PROVE TypeOK'
  OBVIOUS
<1> USE NAssumption, InfoAssumption, CallerAssumption DEF TypeOK, Caller
<1>1. ASSUME NEW k \in Node, NodeChanges(k) PROVE TypeOK'
  BY <1>1 DEF NodeChanges, worker
<1>2. ASSUME NEW c \in Caller, NEW k \in Node, PingSample(c, k) PROVE TypeOK'
  <2>1. node[k] \in Info
    BY <1>2 DEF PingSample, Up
  <2>2. Answered(node[k]) \in PingState
    BY <2>1 DEF PingState
  <2>3. ping' \in [Caller -> [Node -> PingState]]
    BY <1>2, <2>2 DEF PingSample
  <2>4. Asked # Idle
    BY DEF Asked, Idle
  <2>5. \A r \in Request : pc[r] \notin {"refresh", "handler"} =>
            \A j \in Node : ping'[r][j] = Idle
    BY <1>2, <2>4 DEF PingSample
  <2> QED BY <1>2, <2>3, <2>5 DEF PingSample
<1>3. ASSUME NEW c \in Caller, NEW k \in Node, PingRecord(c, k) PROVE TypeOK'
  <2>1. ping[c][k].info \in SUBSET Full
    BY <1>3, PingStates DEF PingRecord
  <2>2. Idle \in PingState
    BY DEF PingState
  <2> QED BY <1>3, <2>1, <2>2 DEF PingRecord, Record
<1>4. ASSUME NEW c \in Caller, NEW k \in Node, PingFail(c, k) PROVE TypeOK'
  BY <1>4 DEF PingFail, Record, PingState
<1>5. CASE LoopPing
  BY <1>5 DEF LoopPing, initialize_all, PingState
<1>6. CASE StartupPing
  BY <1>6 DEF StartupPing, initialize_all, ForgetSeen, PingState
<1>7. CASE StartupDone
  BY <1>7 DEF StartupDone
<1>8. ASSUME NEW r \in Request, Start(r) PROVE TypeOK'
  <2>1. CASE get_kaspad # 0
    <3>1. Send(r, get_kaspad, "first") /\ get_kaspad \in Node /\ pc[r] = "new"
      BY <1>8, <2>1, GetKaspad DEF Start, Node
    <3>2. UNCHANGED <<node, known, phase, ping, late, executions, seen>>
      BY <1>8, <2>1 DEF Start
    <3>3. \A j \in Node : ping[r][j] = Idle
      BY <3>1
    <3> QED BY <3>1, <3>2, <3>3, SendTypes
  <2>2. CASE get_kaspad = 0
    <3>1. Refresh(r)
      BY <1>8, <2>2 DEF Start
    <3>2. late' \in [Request -> [Attempt -> 0..N]]
      BY <1>8 DEF Start
    <3> QED BY <1>8, <3>1, <3>2, RefreshTypes DEF Start
  <2> QED BY <2>1, <2>2
<1>9. ASSUME NEW r \in Request, Execute(r) PROVE TypeOK'
  BY <1>9 DEF Execute
<1>16. ASSUME NEW r \in Request, NEW a \in Attempt, ExecuteLate(r, a) PROVE TypeOK'
  <2>1. late' \in [Request -> [Attempt -> 0..N]]
    BY <1>16 DEF ExecuteLate
  <2>2. executions' \in [Request -> Nat]
    BY <1>16 DEF ExecuteLate
  <2> QED BY <1>16, <2>1, <2>2 DEF ExecuteLate
<1>10. ASSUME NEW r \in Request, Reply(r) PROVE TypeOK'
  <2>1. \A j \in Node : ping[r][j] = Idle
    BY <1>10 DEF Reply
  <2> QED BY <1>10, <2>1, LeaveTypes DEF Reply, Final
<1>11. ASSUME NEW r \in Request, EndpointRaises(r) PROVE TypeOK'
  <2>1. late' \in [Request -> [Attempt -> 0..N]]
    BY <1>11, GiveUpTypes DEF EndpointRaises
  <2> QED BY <1>11, <2>1 DEF EndpointRaises, Leave, initialize_all, PingState, PC
<1>12. ASSUME NEW r \in Request, RpcError(r) PROVE TypeOK'
  <2>0. late' \in [Request -> [Attempt -> 0..N]]
    BY <1>12, GiveUpTypes DEF RpcError
  <2>1. CASE pc[r] = "first"
    <3>1. Refresh(r)
      BY <1>12, <2>1 DEF RpcError
    <3> QED BY <1>12, <2>0, <3>1, RefreshTypes DEF RpcError
  <2>2. CASE pc[r] = "second"
    <3>1. \A j \in Node : ping[r][j] = Idle
      BY <2>2
    <3> QED BY <1>12, <2>0, <2>2, <3>1, LeaveTypes DEF RpcError, Final
  <2> QED BY <1>12, <2>1, <2>2 DEF RpcError
<1>13. ASSUME NEW r \in Request, Refreshed(r) PROVE TypeOK'
  <2>1. CASE get_kaspad # 0
    <3>1. Send(r, get_kaspad, "second") /\ get_kaspad \in Node
      BY <1>13, <2>1, GetKaspad DEF Refreshed, Node
    <3> QED BY <1>13, <3>1, SendTypes DEF Refreshed, AllPingsDone
  <2>2. CASE get_kaspad = 0
    BY <1>13, <2>2, LeaveTypes DEF Refreshed, AllPingsDone, Final
  <2> QED BY <2>1, <2>2
<1>14. ASSUME NEW r \in Request, HandlerDone(r) PROVE TypeOK'
  BY <1>14, LeaveTypes DEF HandlerDone, AllPingsDone, Final
<1>15. CASE UNCHANGED vars
  BY <1>15 DEF vars, worker
<1> QED
  BY <1>1, <1>2, <1>3, <1>4, <1>5, <1>6, <1>7, <1>8, <1>9, <1>10, <1>11, <1>12,
     <1>13, <1>14, <1>15, <1>16 DEF Next, PingStep, RequestStep

(* Type correctness of every reachable state, for any number of hosts and  *)
(* requests (TypeOK of KaspadMultiClient).                                 *)
THEOREM TypeCorrect == Spec => []TypeOK
<1>1. Init => TypeOK
  BY InitTypeOK
<1>2. TypeOK /\ [Next]_vars => TypeOK'
  BY NextTypeOK
<1> QED BY <1>1, <1>2, PTL DEF Spec
-----------------------------------------------------------------------------
(* What makes the decisions after initialize_all sound.  While a caller    *)
(* waits, what it has seen of a host agrees with the record of that host,  *)
(* whoever made it, and a host it saw nothing of still has its ping under  *)
(* way.                                                                    *)
SeenAgrees ==
    \A c \in Caller : Awaiting(c) => \A k \in Node :
        /\ ping[c][k] = Idle => seen[c][k] # "none"
        /\ seen[c][k] = "good" => known[k] = Full
        /\ seen[c][k] = "bad" => known[k] # Full

(* The safety invariants, with what they need to be inductive. *)
SafetyInv ==
    /\ SeenAgrees
    /\ RetryOnFreshStatus
    /\ UnavailableOnlyIfAllBad
    /\ ServedOnlyAfterPings

LEMMA InitSafety == Init => SafetyInv
BY DEF Init, SafetyInv, SeenAgrees, RetryOnFreshStatus, UnavailableOnlyIfAllBad,
       ServedOnlyAfterPings, Awaiting, Caller

(* Recording a status keeps every waiting caller's view in agreement with  *)
(* it and leaves the callers that have decided alone.                      *)
LEMMA RecordSafety ==
    ASSUME TypeOK, SafetyInv, NEW c \in Caller, NEW k \in Node, NEW i \in SUBSET Full,
           Record(k, i), ping' = [ping EXCEPT ![c][k] = Idle],
           UNCHANGED <<phase, pc, target>>
    PROVE  SafetyInv'
<1> USE DEF TypeOK, SafetyInv
<1>1. ASSUME NEW d \in Caller, Awaiting(d), NEW j \in Node
      PROVE  /\ (ping[d][j] = Idle)' => seen'[d][j] # "none"
             /\ seen'[d][j] = "good" => known'[j] = Full
             /\ seen'[d][j] = "bad" => known'[j] # Full
  <2>1. seen'[d] = [seen[d] EXCEPT ![k] = IF i = Full THEN "good" ELSE "bad"]
    BY <1>1 DEF Record
  <2>2. seen[d] \in [Node -> {"none", "good", "bad"}] /\ known \in [Node -> SUBSET Full]
    OBVIOUS
  <2>3. CASE j = k
    BY <2>1, <2>2, <2>3 DEF Record
  <2>4. CASE j # k
    <3>1. seen'[d][j] = seen[d][j] /\ known'[j] = known[j] /\ ping'[d][j] = ping[d][j]
      BY <2>1, <2>2, <2>4 DEF Record
    <3>2. /\ ping[d][j] = Idle => seen[d][j] # "none"
          /\ seen[d][j] = "good" => known[j] = Full
          /\ seen[d][j] = "bad" => known[j] # Full
      BY <1>1 DEF SeenAgrees
    <3> QED BY <3>1, <3>2
  <2> QED BY <2>3, <2>4
<1>2. \A d \in Caller : Awaiting(d)' <=> Awaiting(d)
  BY DEF Awaiting
<1>3. \A d \in Caller : ~Awaiting(d) => seen'[d] = seen[d]
  BY DEF Record
<1>4. SeenAgrees'
  BY <1>1, <1>2 DEF SeenAgrees
<1>5. RetryOnFreshStatus' /\ UnavailableOnlyIfAllBad'
  <2>1. \A r \in Request : pc[r] \in {"second", "unavailable"} => seen'[r] = seen[r]
    BY <1>3, CallerAssumption DEF Awaiting, Caller
  <2>2. pc' = pc /\ target' = target
    OBVIOUS
  <2>3. RetryOnFreshStatus'
    BY <2>1, <2>2 DEF RetryOnFreshStatus
  <2>4. UnavailableOnlyIfAllBad'
    BY <2>1, <2>2 DEF UnavailableOnlyIfAllBad
  <2> QED BY <2>3, <2>4
<1>6. ServedOnlyAfterPings'
  <2>1. phase = "serving" => seen'[Startup] = seen[Startup]
    BY <1>3, CallerAssumption DEF Awaiting, Caller
  <2> QED BY <2>1 DEF ServedOnlyAfterPings
<1> QED BY <1>4, <1>5, <1>6

(* Entering initialize_all forgets what was seen before, for this caller.  *)
LEMMA RefreshSafety ==
    ASSUME TypeOK, SafetyInv, NEW r \in Request, Refresh(r),
           UNCHANGED <<known, phase>>
    PROVE  SafetyInv'
<1> USE CallerAssumption DEF TypeOK, SafetyInv, Refresh, Leave, initialize_all, ForgetSeen,
            Caller
<1>1. Asked # Idle
  BY PingStates
<1>2. /\ \A k \in Node : ping'[r][k] = Asked /\ seen'[r][k] = "none"
      /\ pc'[r] = "refresh"
  OBVIOUS
<1>3. \A c \in Caller \ {r} : ping'[c] = ping[c] /\ seen'[c] = seen[c]
  OBVIOUS
<1>4. \A q \in Request \ {r} : pc'[q] = pc[q] /\ target'[q] = target[q]
  OBVIOUS
<1>5. SeenAgrees'
  BY <1>1, <1>2, <1>3, <1>4 DEF SeenAgrees, Awaiting
<1>6. RetryOnFreshStatus' /\ UnavailableOnlyIfAllBad'
  BY <1>2, <1>3, <1>4 DEF RetryOnFreshStatus, UnavailableOnlyIfAllBad
<1>7. ServedOnlyAfterPings'
  BY <1>3 DEF ServedOnlyAfterPings
<1> QED BY <1>5, <1>6, <1>7

(* A step that records nothing, pings nobody and moves no caller in or out *)
(* of initialize_all changes what is claimed of r alone.                   *)
LEMMA FrameSafety ==
    ASSUME TypeOK, SafetyInv, UNCHANGED <<known, phase, seen>>,
           NEW r \in Request,
           \A q \in Request \ {r} : pc'[q] = pc[q] /\ target'[q] = target[q],
           pc'[r] # "refresh",
           \A c \in Caller \ {r} : \A k \in Node : ping'[c][k] = ping[c][k],
           pc'[r] = "second" =>
               /\ seen[r][target'[r]] = "good"
               /\ \A j \in 1..(target'[r] - 1) : seen[r][j] = "bad",
           pc'[r] = "unavailable" /\ target'[r] = 0 => \A k \in Node : seen[r][k] = "bad"
    PROVE  SafetyInv'
<1> USE CallerAssumption DEF SafetyInv, Caller
<1>1. SeenAgrees'
  BY DEF SeenAgrees, Awaiting
<1>2. RetryOnFreshStatus'
  BY DEF RetryOnFreshStatus
<1>3. UnavailableOnlyIfAllBad'
  BY DEF UnavailableOnlyIfAllBad
<1>4. ServedOnlyAfterPings'
  BY DEF ServedOnlyAfterPings
<1> QED BY <1>1, <1>2, <1>3, <1>4

(* The decision after initialize_all: every host has been seen, and what   *)
(* was seen is what is recorded.                                           *)
LEMMA SeenAtDecision ==
    ASSUME TypeOK, SafetyInv, NEW c \in Caller, Awaiting(c), AllPingsDone(c)
    PROVE  \A k \in Node : seen[c][k] = IF Eligible(k) THEN "good" ELSE "bad"
<1> SUFFICES ASSUME NEW k \in Node
             PROVE  seen[c][k] = IF Eligible(k) THEN "good" ELSE "bad"
  OBVIOUS
<1>1. ping[c][k] = Idle
  BY DEF AllPingsDone
<1>2. seen[c][k] \in {"none", "good", "bad"}
  BY DEF TypeOK
<1>3. /\ seen[c][k] # "none"
      /\ seen[c][k] = "good" => known[k] = Full
      /\ seen[c][k] = "bad" => known[k] # Full
  BY <1>1 DEF SafetyInv, SeenAgrees
<1> QED BY <1>2, <1>3 DEF Eligible

LEMMA NextSafety == TypeOK /\ SafetyInv /\ [Next]_vars => SafetyInv'
<1> SUFFICES ASSUME TypeOK, SafetyInv, [Next]_vars PROVE SafetyInv'
  OBVIOUS
<1> DEFINE Parts == <<known, phase, ping, pc, target, seen>>
<1>0. ASSUME UNCHANGED Parts PROVE SafetyInv'
  BY <1>0 DEF SafetyInv, SeenAgrees, RetryOnFreshStatus, UnavailableOnlyIfAllBad,
              ServedOnlyAfterPings, Awaiting
<1>1. ASSUME NEW k \in Node, NodeChanges(k) PROVE SafetyInv'
  BY <1>0, <1>1 DEF NodeChanges, worker
<1>2. ASSUME NEW c \in Caller, NEW k \in Node, PingSample(c, k) PROVE SafetyInv'
  <2>1. Answered(node[k]) # Idle
    BY DEF Answered, Idle
  <2>2. \A d \in Caller, j \in Node : ping'[d][j] = Idle <=> ping[d][j] = Idle
    BY <1>2, <2>1, PingStates DEF PingSample, TypeOK
  <2>3. UNCHANGED <<known, phase, pc, target, seen>>
    BY <1>2 DEF PingSample
  <2>4. SeenAgrees'
    BY <2>2, <2>3 DEF SafetyInv, SeenAgrees, Awaiting
  <2> QED BY <2>3, <2>4 DEF SafetyInv, RetryOnFreshStatus, UnavailableOnlyIfAllBad,
                            ServedOnlyAfterPings
<1>3. ASSUME NEW c \in Caller, NEW k \in Node, PingRecord(c, k) PROVE SafetyInv'
  <2>1. ping[c][k].info \in SUBSET Full
    BY <1>3, PingStates DEF PingRecord, TypeOK
  <2> QED BY <1>3, <2>1, RecordSafety DEF PingRecord
<1>4. ASSUME NEW c \in Caller, NEW k \in Node, PingFail(c, k) PROVE SafetyInv'
  <2>1. known[k] \ {"synced"} \in SUBSET Full
    BY DEF TypeOK
  <2> QED BY <1>4, <2>1, RecordSafety DEF PingFail
<1>5. CASE LoopPing
  <2>1. \A c \in Caller \ {Loop} : ping'[c] = ping[c]
    BY <1>5 DEF LoopPing, initialize_all, TypeOK
  <2>2. ~Awaiting(Loop)'
    BY CallerAssumption DEF Awaiting
  <2>3. UNCHANGED <<known, phase, pc, target, seen>>
    BY <1>5 DEF LoopPing
  <2>4. SeenAgrees'
    BY <2>1, <2>2, <2>3 DEF SafetyInv, SeenAgrees, Awaiting
  <2> QED BY <2>3, <2>4 DEF SafetyInv, RetryOnFreshStatus, UnavailableOnlyIfAllBad,
                            ServedOnlyAfterPings
<1>6. CASE StartupPing
  <2>1. /\ \A c \in Caller \ {Startup} : ping'[c] = ping[c] /\ seen'[c] = seen[c]
        /\ \A k \in Node : ping'[Startup][k] # Idle /\ seen'[Startup][k] = "none"
    BY <1>6, PingStates DEF StartupPing, initialize_all, ForgetSeen, TypeOK, Caller
  <2>2. phase' = "pinging" /\ UNCHANGED <<known, pc, target>>
    BY <1>6 DEF StartupPing
  <2>3. \A r \in Request : r \in Caller \ {Startup}
    BY CallerAssumption DEF Caller
  <2>4. SeenAgrees'
    BY <2>1, <2>2, CallerAssumption DEF SafetyInv, SeenAgrees, Awaiting
  <2>5. RetryOnFreshStatus' /\ UnavailableOnlyIfAllBad' /\ ServedOnlyAfterPings'
    BY <2>1, <2>2, <2>3 DEF SafetyInv, RetryOnFreshStatus, UnavailableOnlyIfAllBad,
                            ServedOnlyAfterPings
  <2> QED BY <2>4, <2>5 DEF SafetyInv
<1>7. CASE StartupDone
  <2>1. Awaiting(Startup) /\ AllPingsDone(Startup) /\ Startup \in Caller
    BY <1>7 DEF StartupDone, Awaiting, Caller
  <2>2. ServedOnlyAfterPings'
    BY <1>7, <2>1, SeenAtDecision DEF StartupDone, ServedOnlyAfterPings
  <2>3. UNCHANGED <<known, ping, pc, target, seen>> /\ phase' = "serving"
    BY <1>7 DEF StartupDone
  <2>4. SeenAgrees'
    BY <2>3 DEF SafetyInv, SeenAgrees, Awaiting
  <2> QED BY <2>2, <2>3, <2>4 DEF SafetyInv, RetryOnFreshStatus, UnavailableOnlyIfAllBad
<1>8. ASSUME NEW r \in Request, Start(r) PROVE SafetyInv'
  <2>1. CASE get_kaspad # 0
    BY <1>8, <2>1, FrameSafety DEF Start, Send, TypeOK
  <2>2. CASE get_kaspad = 0
    BY <1>8, <2>2, RefreshSafety DEF Start
  <2> QED BY <2>1, <2>2
<1>9. ASSUME NEW r \in Request, Execute(r) PROVE SafetyInv'
  BY <1>0, <1>9 DEF Execute
<1>16. ASSUME NEW r \in Request, NEW a \in Attempt, ExecuteLate(r, a) PROVE SafetyInv'
  BY <1>0, <1>16 DEF ExecuteLate
<1>10. ASSUME NEW r \in Request, Reply(r) PROVE SafetyInv'
  BY <1>10, FrameSafety DEF Reply, Leave, TypeOK
<1>11. ASSUME NEW r \in Request, EndpointRaises(r) PROVE SafetyInv'
  BY <1>11, FrameSafety DEF EndpointRaises, Leave, initialize_all, TypeOK, Caller
<1>12. ASSUME NEW r \in Request, RpcError(r) PROVE SafetyInv'
  <2>1. CASE pc[r] = "first"
    BY <1>12, <2>1, RefreshSafety DEF RpcError
  <2>2. CASE pc[r] = "second"
    BY <1>12, <2>2, FrameSafety DEF RpcError, Leave, TypeOK
  <2> QED BY <1>12, <2>1, <2>2 DEF RpcError
<1>13. ASSUME NEW r \in Request, Refreshed(r) PROVE SafetyInv'
  <2>1. \A k \in Node : seen[r][k] = IF Eligible(k) THEN "good" ELSE "bad"
    BY <1>13, SeenAtDecision DEF Refreshed, Awaiting, Caller
  <2>2. CASE get_kaspad # 0
    <3>1. /\ get_kaspad \in Node /\ Eligible(get_kaspad)
          /\ \A j \in 1..(get_kaspad - 1) : j \in Node /\ ~Eligible(j)
      BY <2>2, GetKaspad, NAssumption DEF Node
    <3>2. /\ seen[r][get_kaspad] = "good"
          /\ \A j \in 1..(get_kaspad - 1) : seen[r][j] = "bad"
      BY <2>1, <3>1
    <3>3. pc' = [pc EXCEPT ![r] = "second"] /\ target' = [target EXCEPT ![r] = get_kaspad]
      BY <1>13, <2>2 DEF Refreshed, Send
    <3> QED BY <1>13, <3>2, <3>3, FrameSafety DEF Refreshed, TypeOK
  <2>3. CASE get_kaspad = 0
    <3>1. \A k \in Node : seen[r][k] = "bad"
      BY <2>1, <2>3, GetKaspad
    <3>2. pc' = [pc EXCEPT ![r] = "unavailable"] /\ target' = target
      BY <1>13, <2>3 DEF Refreshed, Leave
    <3> QED BY <1>13, <3>1, <3>2, FrameSafety DEF Refreshed, TypeOK
  <2> QED BY <2>2, <2>3
<1>14. ASSUME NEW r \in Request, HandlerDone(r) PROVE SafetyInv'
  BY <1>14, FrameSafety DEF HandlerDone, Leave, TypeOK
<1>15. CASE UNCHANGED vars
  BY <1>0, <1>15 DEF vars, worker
<1> QED
  BY <1>1, <1>2, <1>3, <1>4, <1>5, <1>6, <1>7, <1>8, <1>9, <1>10, <1>11, <1>12,
     <1>13, <1>14, <1>15, <1>16 DEF Next, PingStep, RequestStep

LEMMA Safety == Spec => [](TypeOK /\ SafetyInv)
<1>1. Init => TypeOK /\ SafetyInv
  BY InitTypeOK, InitSafety
<1>2. TypeOK /\ SafetyInv /\ [Next]_vars => (TypeOK /\ SafetyInv)'
  BY NextTypeOK, NextSafety
<1> QED BY <1>1, <1>2, PTL DEF Spec

(* The repetition of a request goes to the first host whose status was     *)
(* recorded as good after the first attempt failed                         *)
(* (KaspadMultiClient.py:29-31).                                           *)
THEOREM RetryIsFresh == Spec => []RetryOnFreshStatus
<1>1. TypeOK /\ SafetyInv => RetryOnFreshStatus
  BY DEF SafetyInv
<1> QED BY <1>1, Safety, PTL

(* 503 without a second attempt means that every host was recorded as bad  *)
(* after the first attempt failed (KaspadMultiClient.py:20-24).            *)
THEOREM UnavailableIsJustified == Spec => []UnavailableOnlyIfAllBad
<1>1. TypeOK /\ SafetyInv => UnavailableOnlyIfAllBad
  BY DEF SafetyInv
<1> QED BY <1>1, Safety, PTL

(* Requests are served only once every host has been pinged                *)
(* (main.py:68-73).                                                        *)
THEOREM StartupPingsFirst == Spec => []ServedOnlyAfterPings
<1>1. TypeOK /\ SafetyInv => ServedOnlyAfterPings
  BY DEF SafetyInv
<1> QED BY <1>1, Safety, PTL
-----------------------------------------------------------------------------
(* The command of r has run at most once per attempt.  A command still on  *)
(* its way counts as a run that may yet come: the one that r waits for, and *)
(* those it gave up.                                                       *)
Ran(r) == IF wire[r] = "executed" THEN 1 ELSE 0
Sent(r) == IF wire[r] = "sent" THEN 1 ELSE 0
Late(r, a) == IF late[r][a] = 0 THEN 0 ELSE 1

ExecutionOf(r) ==
    /\ pc[r] = "new" => executions[r] = 0
    /\ pc[r] \in {"new", "first"} => late[r]["first"] = 0
    /\ pc[r] \in {"new", "first", "refresh", "second"} => late[r]["second"] = 0
    /\ pc[r] = "first" => executions[r] + Sent(r) <= 1
    /\ pc[r] = "refresh" => executions[r] + Late(r, "first") <= 1
    /\ executions[r] + Sent(r) + Late(r, "first") + Late(r, "second") <= 2
    /\ Ran(r) <= executions[r]

ExecutionInv == \A r \in Request : ExecutionOf(r)

LEMMA NextExecution == TypeOK /\ ExecutionInv /\ [Next]_vars => ExecutionInv'
<1> SUFFICES ASSUME TypeOK, ExecutionInv, [Next]_vars PROVE ExecutionInv'
  OBVIOUS
<1> DEFINE Same(q) == /\ pc'[q] = pc[q] /\ wire'[q] = wire[q]
                      /\ late'[q] = late[q] /\ executions'[q] = executions[q]
<1>1. ASSUME NEW q \in Request, Same(q) PROVE ExecutionOf(q)'
  BY <1>1 DEF ExecutionInv, ExecutionOf, Ran, Sent, Late
<1>2. ASSUME UNCHANGED <<pc, wire, late, executions>> PROVE ExecutionInv'
  BY <1>1, <1>2 DEF ExecutionInv
<1>3. ASSUME NEW r \in Request, ExecutionOf(r)', \A q \in Request \ {r} : Same(q)
      PROVE  ExecutionInv'
  BY <1>1, <1>3 DEF ExecutionInv
<1> HIDE DEF Same
<1>4. ASSUME NEW r \in Request, RequestStep(r) \/ \E a \in Attempt : ExecuteLate(r, a)
      PROVE  ExecutionInv'
  <2>1. /\ executions[r] \in Nat
        /\ late[r] \in [Attempt -> 0..N]
        /\ wire[r] # "none" <=> pc[r] \in {"first", "second"}
        /\ wire[r] \in {"none", "sent", "executed"}
        /\ ExecutionOf(r)
    BY DEF TypeOK, ExecutionInv
  <2>2. \A q \in Request \ {r} : Same(q)
    BY <1>4 DEF RequestStep, Start, Execute, Reply, EndpointRaises, RpcError, Refreshed,
                HandlerDone, ExecuteLate, Send, Refresh, Leave, GiveUp, TypeOK, Same
  <2>3. CASE Start(r)
    <3>1. /\ pc[r] = "new" /\ late'[r] = late[r] /\ executions'[r] = executions[r]
          /\ \/ pc'[r] = "first" /\ wire'[r] = "sent"
             \/ pc'[r] = "refresh" /\ wire'[r] = "none"
      BY <2>3 DEF Start, Send, Refresh, Leave, TypeOK
    <3>2. ExecutionOf(r)'
      BY <2>1, <3>1 DEF ExecutionOf, Ran, Sent, Late
    <3> QED BY <1>3, <2>2, <3>2
  <2>4. CASE Execute(r)
    <3>1. /\ wire[r] = "sent" /\ wire'[r] = "executed" /\ pc'[r] = pc[r]
          /\ late'[r] = late[r] /\ executions'[r] = executions[r] + 1
      BY <2>4 DEF Execute, TypeOK
    <3>2. ExecutionOf(r)'
      BY <2>1, <3>1 DEF ExecutionOf, Ran, Sent, Late, Attempt
    <3> QED BY <1>3, <2>2, <3>2
  <2>5. ASSUME NEW a \in Attempt, ExecuteLate(r, a) PROVE ExecutionInv'
    <3>1. /\ late[r][a] # 0 /\ late'[r] = [late[r] EXCEPT ![a] = 0]
          /\ pc'[r] = pc[r] /\ wire'[r] = wire[r] /\ executions'[r] = executions[r] + 1
      BY <2>5 DEF ExecuteLate, TypeOK
    <3>2. /\ late'[r][a] = 0
          /\ \A b \in Attempt \ {a} : late'[r][b] = late[r][b]
      BY <2>1, <3>1
    <3>3. CASE a = "first"
      <4>1. /\ late[r]["first"] # 0 /\ late'[r]["first"] = 0
            /\ late'[r]["second"] = late[r]["second"]
        BY <3>1, <3>2, <3>3 DEF Attempt
      <4>2. ExecutionOf(r)'
        BY <2>1, <3>1, <4>1 DEF ExecutionOf, Ran, Sent, Late
      <4> QED BY <1>3, <2>2, <4>2
    <3>4. CASE a = "second"
      <4>1. /\ late[r]["second"] # 0 /\ late'[r]["second"] = 0
            /\ late'[r]["first"] = late[r]["first"]
        BY <3>1, <3>2, <3>4 DEF Attempt
      <4>2. ExecutionOf(r)'
        BY <2>1, <3>1, <4>1 DEF ExecutionOf, Ran, Sent, Late
      <4> QED BY <1>3, <2>2, <4>2
    <3> QED BY <3>3, <3>4 DEF Attempt
  <2>6. CASE Reply(r) \/ HandlerDone(r)
    <3>1. /\ late'[r] = late[r] /\ executions'[r] = executions[r]
          /\ wire'[r] = "none" /\ pc'[r] \in Final
      BY <2>6 DEF Reply, HandlerDone, Leave, TypeOK, Final
    <3>2. ExecutionOf(r)'
      BY <2>1, <3>1 DEF ExecutionOf, Ran, Sent, Late, Final
    <3> QED BY <1>3, <2>2, <3>2
  <2>7. CASE EndpointRaises(r) \/ RpcError(r)
    <3>1. /\ pc[r] \in Attempt /\ wire[r] # "none" /\ GiveUp(r)
          /\ executions'[r] = executions[r] /\ wire'[r] = "none"
          /\ pc'[r] \in {"handler", "refresh", "unavailable"}
          /\ pc'[r] = "refresh" => pc[r] = "first"
      BY <2>7 DEF EndpointRaises, RpcError, Leave, Refresh, TypeOK, Attempt
    <3>2. CASE wire[r] # "sent"
      <4>1. late' = late
        BY <3>1, <3>2 DEF GiveUp
      <4>2. ExecutionOf(r)'
        BY <2>1, <3>1, <3>2, <4>1 DEF ExecutionOf, Ran, Sent, Late, Attempt
      <4> QED BY <1>3, <2>2, <4>2
    <3>3. CASE wire[r] = "sent"
      <4>1. late'[r] = [late[r] EXCEPT ![pc[r]] = target[r]]
        BY <3>1, <3>3 DEF GiveUp, TypeOK
      <4>2. CASE pc[r] = "first"
        <5>1. late'[r]["second"] = late[r]["second"]
          BY <2>1, <4>1, <4>2 DEF Attempt
        <5>2. ExecutionOf(r)'
          BY <2>1, <3>1, <3>3, <4>2, <5>1 DEF ExecutionOf, Ran, Sent, Late
        <5> QED BY <1>3, <2>2, <5>2
      <4>3. CASE pc[r] = "second"
        <5>1. late'[r]["first"] = late[r]["first"]
          BY <2>1, <4>1, <4>3 DEF Attempt
        <5>2. ExecutionOf(r)'
          BY <2>1, <3>1, <3>3, <4>3, <5>1 DEF ExecutionOf, Ran, Sent, Late
        <5> QED BY <1>3, <2>2, <5>2
      <4> QED BY <3>1, <4>2, <4>3 DEF Attempt
    <3> QED BY <3>2, <3>3
  <2>8. CASE Refreshed(r)
    <3>1. /\ pc[r] = "refresh" /\ late'[r] = late[r] /\ executions'[r] = executions[r]
          /\ \/ pc'[r] = "second" /\ wire'[r] = "sent"
             \/ pc'[r] = "unavailable" /\ wire'[r] = "none"
      BY <2>8 DEF Refreshed, Send, Leave, TypeOK
    <3>2. ExecutionOf(r)'
      BY <2>1, <3>1 DEF ExecutionOf, Ran, Sent, Late
    <3> QED BY <1>3, <2>2, <3>2
  <2> QED BY <1>4, <2>3, <2>4, <2>5, <2>6, <2>7, <2>8 DEF RequestStep
<1>5. \/ UNCHANGED <<pc, wire, late, executions>>
      \/ \E r \in Request : RequestStep(r) \/ \E a \in Attempt : ExecuteLate(r, a)
  BY DEF Next, PingStep, NodeChanges, worker, PingSample, PingRecord, PingFail,
         LoopPing, StartupPing, StartupDone, vars
<1> QED BY <1>2, <1>4, <1>5

LEMMA ExecutionBounded == Spec => [](TypeOK /\ ExecutionInv)
<1>1. Init => TypeOK /\ ExecutionInv
  BY InitTypeOK DEF Init, ExecutionInv, ExecutionOf, Ran, Sent, Late, Attempt
<1>2. TypeOK /\ ExecutionInv /\ [Next]_vars => (TypeOK /\ ExecutionInv)'
  BY NextTypeOK, NextExecution
<1> QED BY <1>1, <1>2, PTL DEF Spec

(* A request that reaches a final place settles in the contract. *)
LEMMA SettleStep ==
    ASSUME TypeOK, NEW r \in Request, NEW o \in Final, pc[r] \notin Final \cup {"new"},
           pc' = [pc EXCEPT ![r] = o], UNCHANGED executions,
           o = "ok" => executions[r] > 0
    PROVE  Contract!Settle(r)
<1> DEFINE bar == [q \in Request |-> Outcome(pc[q])]
<1>1. bar[r] = "pending"
  BY DEF Outcome
<1>2. \A q \in Request : Outcome(pc'[q]) = IF q = r THEN o ELSE Outcome(pc[q])
  BY DEF TypeOK, Outcome
<1>3. [q \in Request |-> Outcome(pc[q])]' = [bar EXCEPT ![r] = o]
  BY <1>2
<1>4. o \in Contract!Settled
  BY DEF Final, Contract!Settled
<1> QED BY <1>1, <1>3, <1>4 DEF Contract!Settle

(* The client implements the contract KaspadRequest: at most two           *)
(* executions of the command, those that a node makes after the client's   *)
(* deadline included, an answer only after one, each request settled once  *)
(* (KaspadMultiClient.py:26-31, KaspadThread.py:62, server.py:139-156).    *)
THEOREM ContractImplemented == Spec => ImplementsContract
<1>1. Init => Contract!Init
  BY DEF Init, Contract!Init, Outcome, Final
<1>2. TypeOK /\ ExecutionInv /\ [Next]_vars => [Contract!Next]_(Contract!vars)
  <2> SUFFICES ASSUME TypeOK, ExecutionInv, [Next]_vars
               PROVE  [Contract!Next]_(Contract!vars)
    OBVIOUS
  <2>1. ASSUME UNCHANGED <<pc, executions>> PROVE UNCHANGED Contract!vars
    BY <2>1 DEF Contract!vars
  <2>2. ASSUME NEW r \in Request, RequestStep(r) \/ \E a \in Attempt : ExecuteLate(r, a)
        PROVE  [Contract!Next]_(Contract!vars)
    <3> USE DEF TypeOK, Outcome, Final
    <3>1. /\ executions[r] \in Nat
          /\ Ran(r) <= executions[r]
          /\ wire[r] = "sent" => executions[r] < 2
          /\ \A a \in Attempt : late[r][a] # 0 => executions[r] < 2 /\ pc[r] # "new"
          /\ wire[r] # "none" <=> pc[r] \in {"first", "second"}
      BY DEF ExecutionInv, ExecutionOf, Sent, Late, Attempt
    <3>2. CASE Start(r)
      <4>1. Contract!Start(r)
        BY ZenonT(40), <3>2 DEF Start, Send, Refresh, Leave, Contract!Start
      <4> QED BY <4>1 DEF Contract!Next
    <3>3. CASE Execute(r)
      <4>1. Contract!Execute(r)
        BY <3>1, <3>3 DEF Execute, Contract!Execute
      <4> QED BY <4>1 DEF Contract!Next
    <3>9. ASSUME NEW a \in Attempt, ExecuteLate(r, a) PROVE [Contract!Next]_(Contract!vars)
      <4>1. Contract!Execute(r)
        BY <3>1, <3>9 DEF ExecuteLate, Contract!Execute
      <4> QED BY <4>1 DEF Contract!Next
    <3>4. CASE Reply(r)
      <4>1. executions[r] > 0
        BY <3>1, <3>4 DEF Reply, Ran
      <4>2. Contract!Settle(r)
        BY <3>1, <3>4, <4>1, SettleStep DEF Reply, Leave
      <4> QED BY <4>2 DEF Contract!Next
    <3>5. CASE EndpointRaises(r)
      BY <3>1, <3>5 DEF EndpointRaises, Leave, Contract!vars
    <3>6. CASE RpcError(r)
      <4>1. CASE pc[r] = "first"
        BY <3>6, <4>1 DEF RpcError, Refresh, Leave, Contract!vars
      <4>2. CASE pc[r] = "second"
        <5>1. Contract!Settle(r)
          BY <3>6, <4>2, SettleStep DEF RpcError, Leave
        <5> QED BY <5>1 DEF Contract!Next
      <4> QED BY <3>6, <4>1, <4>2 DEF RpcError
    <3>7. CASE Refreshed(r)
      <4>1. CASE get_kaspad # 0
        <5>1. pc' = [pc EXCEPT ![r] = "second"] /\ pc[r] = "refresh"
          BY <3>7, <4>1 DEF Refreshed, Send
        <5>2. \A q \in Request : Outcome(pc'[q]) = Outcome(pc[q])
          BY <5>1
        <5> QED BY <3>7, <5>2 DEF Refreshed, Contract!vars
      <4>2. CASE get_kaspad = 0
        <5>1. Contract!Settle(r)
          BY <3>7, <4>2, SettleStep DEF Refreshed, Leave
        <5> QED BY <5>1 DEF Contract!Next
      <4> QED BY <4>1, <4>2
    <3>8. CASE HandlerDone(r)
      <4>1. Contract!Settle(r)
        BY <3>8, SettleStep DEF HandlerDone, Leave
      <4> QED BY <4>1 DEF Contract!Next
    <3> QED BY <2>2, <3>2, <3>3, <3>4, <3>5, <3>6, <3>7, <3>8, <3>9 DEF RequestStep
  <2>3. \/ UNCHANGED <<pc, executions>>
        \/ \E r \in Request : RequestStep(r) \/ \E a \in Attempt : ExecuteLate(r, a)
    BY DEF Next, PingStep, NodeChanges, worker, PingSample, PingRecord, PingFail,
           LoopPing, StartupPing, StartupDone, vars
  <2> QED BY <2>1, <2>2, <2>3
<1> QED BY <1>1, <1>2, ExecutionBounded, PTL DEF Spec, ImplementsContract, Contract!Spec
-----------------------------------------------------------------------------
(* SubmitTransaction.  Every step of SubmitSpec is a step of the client or *)
(* leaves it alone, so the invariants of the client hold here too.         *)

(* What the node said agrees with what it did: an id only for a            *)
(* transaction placed, and an error on the only execution for one that was *)
(* not.  A request never executed has placed nothing.                      *)
SaidIsDone(r) ==
    /\ reply[r] \in {"id", "error"}
    /\ reply[r] = "id" => r \in placed

RepliesAgree ==
    \A r \in Request :
        IF wrpc
        THEN /\ call[r] # "executed" => r \notin placed
             /\ call[r] = "executed" => SaidIsDone(r) /\ (reply[r] = "error" => r \notin placed)
        ELSE /\ executions[r] = 0 => r \notin placed
             /\ r \in told => executions[r] > 0
             /\ wire[r] = "executed" =>
                   /\ executions[r] > 0
                   /\ SaidIsDone(r)
                   /\ reply[r] = "error" /\ executions[r] <= 1 => r \notin placed

SubmitInv == SubmitTypeOK /\ RepliesAgree /\ StatusIsTruthful

LEMMA SubmitInitInv == SubmitInit => SubmitInv
BY DEF SubmitInit, Init, SubmitInv, SubmitTypeOK, RepliesAgree, SaidIsDone,
       StatusIsTruthful

(* The client's part of a step is a step of the client.                    *)
LEMMA ClientStep == [SubmitNext]_allVars => [Next]_vars
<1> SUFFICES ASSUME [SubmitNext]_allVars PROVE [Next]_vars
  OBVIOUS
<1>1. CASE Relay
  BY <1>1 DEF Relay
<1>2. ASSUME NEW k \in Node, NodeSide(k) PROVE Next
  BY <1>2 DEF NodeSide, Next
<1>3. CASE OverGrpc
  <2>1. ASSUME NEW c \in Caller, NEW k \in Node, PingStep(c, k) PROVE Next
    BY <2>1 DEF Next
  <2>2. CASE LoopPing \/ StartupPing \/ StartupDone
    BY <2>2 DEF Next
  <2>3. ASSUME NEW r \in Request,
               Inside(r) \/ NodeSubmits(r) \/ Answer(r) \/ Unavailable(r) \/ Failed(r)
        PROVE  Next
    <3>1. RequestStep(r)
      BY <2>3 DEF Inside, NodeSubmits, Answer, Unavailable, Failed, RequestStep
    <3> QED BY <3>1 DEF Next
  <2>4. ASSUME NEW r \in Request, NEW a \in Attempt, NodeSubmitsLate(r, a) PROVE Next
    BY <2>4 DEF NodeSubmitsLate, Next
  <2> QED BY <1>3, <2>1, <2>2, <2>3, <2>4 DEF OverGrpc
<1>4. CASE OverWrpc
  BY <1>4 DEF OverWrpc, WrpcSends, WrpcSubmits, WrpcAnswers, WrpcRaises
<1>5. CASE UNCHANGED allVars
  BY <1>5 DEF allVars
<1> QED BY <1>1, <1>2, <1>3, <1>4, <1>5 DEF SubmitNext

(* A step that neither executes nor answers keeps the invariant.           *)
LEMMA QuietInv ==
    ASSUME SubmitInv, pool' \in SUBSET Node,
           UNCHANGED <<executions, wrpc, call, reply, status, told, placed>>,
           \A r \in Request : wire'[r] = "executed" => wire[r] = "executed",
           wrpc => pc' = pc,
           \A r \in Request : \A p \in Final : pc'[r] = p <=> pc[r] = p
    PROVE  SubmitInv'
<1> USE DEF SubmitInv
<1>1. SubmitTypeOK'
  BY DEF SubmitTypeOK, Final
<1>2. RepliesAgree'
  BY DEF RepliesAgree, SaidIsDone
<1>3. StatusIsTruthful'
  BY DEF StatusIsTruthful
<1> QED BY <1>1, <1>2, <1>3

(* Ending the last attempt of r with a status that is true keeps it.       *)
LEMMA SettleInv ==
    ASSUME TypeOK, SubmitInv, ~wrpc, NEW r \in Request, NEW p, NEW s,
           Leave(r, p), status' = [status EXCEPT ![r] = s],
           UNCHANGED <<executions, pool, wrpc, call, reply, placed>>,
           pc[r] # "ok",
           told' = told \/ (p = "ok" /\ told' = told \cup {r} /\ executions[r] > 0),
           \/ p = "ok" /\ s = 200 /\ r \in placed
           \/ p = "ok" /\ s = 400 /\ (executions[r] <= 1 => r \notin placed)
           \/ p = "unavailable" /\ s = 503
           \/ p = "error" /\ s = 500
    PROVE  SubmitInv'
<1> USE DEF SubmitInv
<1>1. /\ pc'[r] = p /\ wire'[r] = "none"
      /\ \A q \in Request \ {r} : pc'[q] = pc[q] /\ wire'[q] = wire[q]
  BY DEF Leave, TypeOK
<1>2. /\ status' \in [Request -> {0, 200, 400, 500, 503}]
      /\ status'[r] = s
      /\ \A q \in Request \ {r} : status'[q] = status[q]
  BY DEF SubmitTypeOK
<1>3. \A q \in Request \ {r} : q \in told' <=> q \in told
  OBVIOUS
<1>4. SubmitTypeOK'
  <2>1. r \notin told
    BY DEF SubmitTypeOK
  <2>2. told' \subseteq {q \in Request : status'[q] \in {200, 400}}
    BY <1>2, <1>3, <2>1 DEF SubmitTypeOK
  <2> QED BY <1>1, <1>2, <2>2 DEF SubmitTypeOK
<1>5. RepliesAgree'
  BY <1>1 DEF RepliesAgree, SaidIsDone
<1>6. StatusIsTruthful'
  BY <1>2, <1>3 DEF StatusIsTruthful
<1> QED BY <1>4, <1>5, <1>6

(* The verdict of a node touches nobody but r.                             *)
LEMMA VerdictParts ==
    ASSUME SubmitTypeOK, NEW r \in Request, NEW k \in Node, Submits(r, k)
    PROVE  /\ pool' \in SUBSET Node /\ placed' \in SUBSET Request
           /\ reply' \in [Request -> {"none", "id", "error"}]
           /\ \A q \in Request \ {r} :
                 reply'[q] = reply[q] /\ (q \in placed' <=> q \in placed)
           /\ SaidIsDone(r)'
           /\ reply'[r] = "error" => (r \in placed' <=> r \in placed)
<1>1. CASE /\ pool' = pool \cup {k}
           /\ placed' = placed \cup {r}
           /\ reply' = [reply EXCEPT ![r] = "id"]
  BY <1>1 DEF SubmitTypeOK, SaidIsDone
<1>2. CASE /\ reply' = [reply EXCEPT ![r] = "error"]
           /\ UNCHANGED <<pool, placed>>
  BY <1>2 DEF SubmitTypeOK, SaidIsDone
<1> QED BY <1>1, <1>2 DEF Submits, Verdict

(* The node's part over gRPC: r is not answered yet.                       *)
LEMMA NodeSubmitsInv ==
    ASSUME TypeOK, SubmitInv, ~wrpc, NEW r \in Request, NodeSubmits(r)
    PROVE  SubmitInv'
<1> USE DEF SubmitInv
<1>1. /\ wire[r] = "sent" /\ target[r] \in Node /\ Submits(r, target[r])
      /\ wire' = [wire EXCEPT ![r] = "executed"]
      /\ executions' = [executions EXCEPT ![r] = @ + 1]
      /\ UNCHANGED <<pc, wrpc, call, status, told>>
  BY NAssumption DEF NodeSubmits, Execute, TypeOK, Node
<1>2. pc[r] \in {"first", "second"}
  BY <1>1 DEF TypeOK
<1>3. /\ executions'[r] = executions[r] + 1 /\ executions[r] \in Nat
      /\ wire'[r] = "executed"
      /\ \A q \in Request \ {r} :
            executions'[q] = executions[q] /\ wire'[q] = wire[q]
  BY <1>1 DEF TypeOK
<1>4. status[r] = 0
  BY <1>2 DEF SubmitTypeOK
<1>5. /\ pool' \in SUBSET Node /\ placed' \in SUBSET Request
      /\ reply' \in [Request -> {"none", "id", "error"}]
      /\ \A q \in Request \ {r} : reply'[q] = reply[q] /\ (q \in placed' <=> q \in placed)
      /\ SaidIsDone(r)'
      /\ reply'[r] = "error" => (r \in placed' <=> r \in placed)
  BY <1>1, VerdictParts
<1>6. SubmitTypeOK'
  BY <1>1, <1>5 DEF SubmitTypeOK
<1>7. executions'[r] <= 1 /\ reply'[r] = "error" => r \notin placed'
  BY <1>3, <1>5 DEF RepliesAgree
<1>8. RepliesAgree'
  <2>1. ASSUME NEW q \in Request \ {r}, SaidIsDone(q) PROVE SaidIsDone(q)'
    BY <1>5, <2>1 DEF SaidIsDone
  <2>2. \A q \in Request \ {r} :
            /\ executions'[q] = 0 => q \notin placed'
            /\ q \in told' => executions'[q] > 0
            /\ wire'[q] = "executed" =>
                  /\ executions'[q] > 0
                  /\ SaidIsDone(q)'
                  /\ reply'[q] = "error" /\ executions'[q] <= 1 => q \notin placed'
    BY <1>1, <1>3, <1>5, <2>1 DEF RepliesAgree
  <2> QED BY <1>1, <1>3, <1>5, <1>7, <2>2 DEF RepliesAgree
<1>9. StatusIsTruthful'
  BY <1>1, <1>3, <1>4, <1>5 DEF StatusIsTruthful
<1> QED BY <1>6, <1>8, <1>9

(* A node that runs an attempt given up may place the transaction; if      *)
(* another attempt was answered, it is the second execution.               *)
LEMMA NodeSubmitsLateInv ==
    ASSUME TypeOK, SubmitInv, ~wrpc, NEW r \in Request, NEW a \in Attempt,
           NodeSubmitsLate(r, a)
    PROVE  SubmitInv'
<1> USE DEF SubmitInv
<1>1. /\ late[r][a] \in Node
      /\ executions' = [executions EXCEPT ![r] = @ + 1]
      /\ UNCHANGED <<pc, wire, wrpc, call, reply, status, told>>
  BY NAssumption DEF NodeSubmitsLate, ExecuteLate, TypeOK, Node
<1>2. /\ pool' \in SUBSET Node /\ placed' \in SUBSET Request
      /\ \A q \in Request \ {r} : q \in placed' <=> q \in placed
      /\ placed \subseteq placed'
  BY <1>1 DEF NodeSubmitsLate, Verdict, SubmitTypeOK
<1>3. /\ executions'[r] = executions[r] + 1 /\ executions[r] \in Nat
      /\ \A q \in Request \ {r} : executions'[q] = executions[q]
  BY <1>1 DEF TypeOK
<1>4. SubmitTypeOK'
  BY <1>1, <1>2 DEF SubmitTypeOK
<1>5. wire[r] = "executed" => executions'[r] > 1
  BY <1>3 DEF RepliesAgree
<1>6. RepliesAgree'
  BY <1>1, <1>2, <1>3, <1>5 DEF RepliesAgree, SaidIsDone
<1>7. status[r] = 400 /\ r \in told => executions'[r] > 1
  BY <1>3 DEF RepliesAgree, SubmitTypeOK
<1>8. StatusIsTruthful'
  BY <1>1, <1>2, <1>3, <1>7 DEF StatusIsTruthful
<1> QED BY <1>4, <1>6, <1>8

LEMMA OverGrpcInv ==
    ASSUME TypeOK, SubmitInv, ~wrpc, OverGrpc
    PROVE  SubmitInv'
<1> DEFINE Still ==
        UNCHANGED <<wire, pc, executions, wrpc, call, reply, status, told, placed>>
<1>0. pool \in SUBSET Node
  BY DEF SubmitInv, SubmitTypeOK
<1>1. ASSUME NEW c \in Caller, NEW k \in Node, PingStep(c, k), UNCHANGED svars
      PROVE  SubmitInv'
  <2>1. pool' \in SUBSET Node /\ Still
    BY <1>0, <1>1 DEF PingStep, PingSample, PingRecord, PingFail, svars
  <2> QED BY <2>1, QuietInv
<1>2. CASE (LoopPing \/ StartupPing \/ StartupDone) /\ UNCHANGED svars
  <2>1. pool' \in SUBSET Node /\ Still
    BY <1>0, <1>2 DEF LoopPing, StartupPing, StartupDone, svars
  <2> QED BY <2>1, QuietInv
<1>3. ASSUME NEW r \in Request, Inside(r) PROVE SubmitInv'
  <2>1. /\ pool' \in SUBSET Node
        /\ UNCHANGED <<executions, wrpc, call, reply, status, told, placed>>
    BY <1>0, <1>3 DEF Inside, Start, EndpointRaises, svars
  <2>2. /\ pc[r] \notin Final /\ pc'[r] \notin Final
        /\ wire'[r] # "executed"
        /\ \A q \in Request \ {r} : pc'[q] = pc[q] /\ wire'[q] = wire[q]
    BY <1>3 DEF Inside, Start, EndpointRaises, Send, Refresh, Leave, TypeOK, Final
  <2>3. \A q \in Request : /\ wire'[q] = "executed" => wire[q] = "executed"
                           /\ \A p \in Final : pc'[q] = p <=> pc[q] = p
    BY <2>2
  <2> QED BY <2>1, <2>3, QuietInv
<1>4. ASSUME NEW r \in Request, NodeSubmits(r) PROVE SubmitInv'
  BY <1>4, NodeSubmitsInv
<1>8. ASSUME NEW r \in Request, NEW a \in Attempt, NodeSubmitsLate(r, a) PROVE SubmitInv'
  BY <1>8, NodeSubmitsLateInv
<1>5. ASSUME NEW r \in Request, Answer(r) PROVE SubmitInv'
  <2>1. /\ wire[r] = "executed" /\ Leave(r, "ok") /\ pc[r] # "ok"
        /\ UNCHANGED <<executions, pool, wrpc, call, reply, placed>>
        /\ status' = [status EXCEPT ![r] = IF reply[r] = "error" THEN 400 ELSE 200]
        /\ told' = told \cup {r}
    BY <1>5 DEF Answer, Reply, Says, TypeOK
  <2>2. /\ reply[r] \in {"id", "error"}
        /\ reply[r] = "id" => r \in placed
        /\ reply[r] = "error" /\ executions[r] <= 1 => r \notin placed
    BY <2>1 DEF SubmitInv, RepliesAgree, SaidIsDone
  <2>3. /\ Leave(r, "ok") /\ pc[r] # "ok" /\ told' = told \cup {r}
        /\ executions[r] > 0
        /\ UNCHANGED <<executions, pool, wrpc, call, reply, placed>>
    BY <2>1 DEF SubmitInv, RepliesAgree
  <2>4. CASE reply[r] = "error"
    <3>1. status' = [status EXCEPT ![r] = 400]
      BY <2>1, <2>4
    <3>2. executions[r] <= 1 => r \notin placed
      BY <2>2, <2>4
    <3> QED BY <2>3, <3>1, <3>2, SettleInv
  <2>5. CASE reply[r] = "id"
    <3>1. status' = [status EXCEPT ![r] = 200]
      BY <2>1, <2>5
    <3>2. r \in placed
      BY <2>2, <2>5
    <3> QED BY <2>3, <3>1, <3>2, SettleInv
  <2> QED BY <2>2, <2>4, <2>5
<1>6. ASSUME NEW r \in Request, Unavailable(r) PROVE SubmitInv'
  <2>1. /\ UNCHANGED <<executions, pool, wrpc, call, reply, told, placed>>
        /\ status' = [status EXCEPT ![r] = IF pc'[r] = "unavailable" THEN 503 ELSE @]
    BY <1>6 DEF Unavailable, RpcError, Refreshed
  <2>2. pc[r] \in {"first", "second", "refresh"}
    BY <1>6 DEF Unavailable, RpcError, Refreshed, TypeOK
  <2>3. CASE Leave(r, "unavailable")
    <3>1. pc'[r] = "unavailable"
      BY <2>3 DEF Leave, TypeOK
    <3>2. status' = [status EXCEPT ![r] = 503]
      BY <2>1, <3>1
    <3>3. pc[r] # "ok"
      BY <2>2
    <3>4. told' = told /\ UNCHANGED <<executions, pool, wrpc, call, reply, placed>>
      BY <2>1
    <3> QED BY <2>3, <3>2, <3>3, <3>4, SettleInv
  <2>4. CASE /\ pc'[r] \in {"refresh", "second"} /\ wire'[r] # "executed"
             /\ \A q \in Request \ {r} : pc'[q] = pc[q] /\ wire'[q] = wire[q]
    <3>1. status' = status
      BY <2>1, <2>4 DEF SubmitInv, SubmitTypeOK
    <3>2. \A q \in Request : /\ wire'[q] = "executed" => wire[q] = "executed"
                             /\ \A p \in Final : pc'[q] = p <=> pc[q] = p
      BY <2>2, <2>4 DEF Final
    <3> QED BY <1>0, <2>1, <3>1, <3>2, QuietInv
  <2>5. \/ Leave(r, "unavailable")
        \/ Refresh(r)
        \/ Send(r, get_kaspad, "second")
    BY <1>6 DEF Unavailable, RpcError, Refreshed
  <2>6. Refresh(r) \/ Send(r, get_kaspad, "second") =>
            /\ pc'[r] \in {"refresh", "second"} /\ wire'[r] # "executed"
            /\ \A q \in Request \ {r} : pc'[q] = pc[q] /\ wire'[q] = wire[q]
    BY DEF Refresh, Leave, Send, TypeOK
  <2> QED BY <2>3, <2>4, <2>5, <2>6
<1>7. ASSUME NEW r \in Request, Failed(r) PROVE SubmitInv'
  <2>1. /\ Leave(r, "error") /\ pc[r] # "ok"
        /\ UNCHANGED <<executions, pool, wrpc, call, reply, placed>>
        /\ status' = [status EXCEPT ![r] = 500] /\ told' = told
    BY <1>7 DEF Failed, HandlerDone
  <2> QED BY <2>1, SettleInv
<1> QED BY <1>1, <1>2, <1>3, <1>4, <1>5, <1>6, <1>7, <1>8 DEF OverGrpc

(* Over wRPC the node may execute r after its response, but then the       *)
(* response does not repeat what a node said.                              *)
LEMMA OverWrpcInv ==
    ASSUME TypeOK, SubmitInv, wrpc, OverWrpc
    PROVE  SubmitInv'
<1> USE DEF SubmitInv
<1>1. ASSUME NEW r \in Request, WrpcSends(r) PROVE SubmitInv'
  <2>1. /\ call[r] = "none" /\ call' = [call EXCEPT ![r] = "sent"]
        /\ UNCHANGED <<pc, executions, pool, wrpc, reply, status, told, placed>>
    BY <1>1 DEF WrpcSends, vars, worker
  <2>2. SubmitTypeOK'
    BY <2>1 DEF SubmitTypeOK
  <2>3. RepliesAgree'
    BY <2>1 DEF RepliesAgree, SaidIsDone, SubmitTypeOK
  <2>4. StatusIsTruthful'
    BY <2>1 DEF StatusIsTruthful
  <2> QED BY <2>2, <2>3, <2>4
<1>2. ASSUME NEW r \in Request, WrpcSubmits(r) PROVE SubmitInv'
  <2>1. /\ call[r] = "sent" /\ call' = [call EXCEPT ![r] = "executed"]
        /\ UNCHANGED <<pc, executions, wrpc, status, told>>
    BY <1>2 DEF WrpcSubmits, vars, worker
  <2>2. /\ pool' \in SUBSET Node /\ placed' \in SUBSET Request
        /\ reply' \in [Request -> {"none", "id", "error"}]
        /\ \A q \in Request \ {r} : reply'[q] = reply[q] /\ (q \in placed' <=> q \in placed)
        /\ SaidIsDone(r)'
        /\ reply'[r] = "error" => (r \in placed' <=> r \in placed)
    BY <1>2, VerdictParts DEF WrpcSubmits
  <2>3. r \notin placed /\ r \notin told
    BY <2>1 DEF RepliesAgree, SubmitTypeOK
  <2>4. /\ call'[r] = "executed" /\ \A q \in Request \ {r} : call'[q] = call[q]
    BY <2>1 DEF SubmitTypeOK
  <2>5. SubmitTypeOK'
    <3>1. call' \in [Request -> {"none", "sent", "executed"}]
      BY <2>1 DEF SubmitTypeOK
    <3>2. \A q \in Request : q \in told => call'[q] = "executed"
      BY <2>3, <2>4 DEF SubmitTypeOK
    <3> QED BY <2>1, <2>2, <3>1, <3>2 DEF SubmitTypeOK
  <2>6. RepliesAgree'
    <3>1. ASSUME NEW q \in Request \ {r}, SaidIsDone(q) PROVE SaidIsDone(q)'
      BY <2>2, <3>1 DEF SaidIsDone
    <3>2. \A q \in Request \ {r} :
              /\ call'[q] # "executed" => q \notin placed'
              /\ call'[q] = "executed" =>
                     SaidIsDone(q)' /\ (reply'[q] = "error" => q \notin placed')
      BY <2>2, <2>4, <3>1 DEF RepliesAgree
    <3> QED BY <2>1, <2>2, <2>3, <2>4, <3>2 DEF RepliesAgree
  <2>7. StatusIsTruthful'
    <3>1. \A q \in Request : q \in placed => q \in placed'
      BY <2>2, <2>3
    <3> QED BY <2>1, <2>2, <2>3, <3>1 DEF StatusIsTruthful
  <2> QED BY <2>5, <2>6, <2>7
<1>3. ASSUME NEW r \in Request, WrpcAnswers(r) PROVE SubmitInv'
  <2>1. /\ call[r] = "executed" /\ told' = told \cup {r}
        /\ status' = [status EXCEPT ![r] = IF reply[r] = "error" THEN 400 ELSE 200]
        /\ UNCHANGED <<pc, executions, pool, wrpc, call, reply, placed>>
    BY <1>3 DEF WrpcAnswers, Says, vars, worker
  <2>2. \/ reply[r] = "id" /\ r \in placed
        \/ reply[r] = "error" /\ r \notin placed
    BY <2>1 DEF RepliesAgree, SaidIsDone
  <2>3. SubmitTypeOK'
    BY <2>1 DEF SubmitTypeOK
  <2>4. RepliesAgree'
    BY <2>1 DEF RepliesAgree, SaidIsDone
  <2>5. StatusIsTruthful'
    BY <2>1, <2>2 DEF StatusIsTruthful, SubmitTypeOK
  <2> QED BY <2>3, <2>4, <2>5
<1>4. ASSUME NEW r \in Request, WrpcRaises(r) PROVE SubmitInv'
  <2>1. /\ status[r] = 0 /\ status' = [status EXCEPT ![r] = 400]
        /\ UNCHANGED <<pc, executions, pool, wrpc, call, reply, told, placed>>
    BY <1>4 DEF WrpcRaises, vars, worker
  <2>2. r \notin told
    BY <2>1 DEF SubmitTypeOK
  <2>3. SubmitTypeOK'
    BY <2>1, <2>2 DEF SubmitTypeOK
  <2>4. RepliesAgree'
    BY <2>1 DEF RepliesAgree, SaidIsDone
  <2>5. StatusIsTruthful'
    BY <2>1, <2>2 DEF StatusIsTruthful, SubmitTypeOK
  <2> QED BY <2>3, <2>4, <2>5
<1> QED BY <1>1, <1>2, <1>3, <1>4 DEF OverWrpc

LEMMA SubmitNextInv == TypeOK /\ SubmitInv /\ [SubmitNext]_allVars => SubmitInv'
<1> SUFFICES ASSUME TypeOK, SubmitInv, [SubmitNext]_allVars PROVE SubmitInv'
  OBVIOUS
<1> DEFINE Still ==
        UNCHANGED <<wire, pc, executions, wrpc, call, reply, status, told, placed>>
<1>0. pool \in SUBSET Node
  BY DEF SubmitInv, SubmitTypeOK
<1>1. CASE Relay
  <2>1. pool' \in SUBSET Node /\ Still
    BY <1>0, <1>1 DEF Relay, vars, worker
  <2> QED BY <2>1, QuietInv
<1>2. ASSUME NEW k \in Node, NodeSide(k) PROVE SubmitInv'
  <2>1. pool' \in SUBSET Node /\ Still
    BY <1>0, <1>2 DEF NodeSide, NodeChanges, worker
  <2> QED BY <2>1, QuietInv
<1>3. CASE ~wrpc /\ OverGrpc
  BY <1>3, OverGrpcInv
<1>4. CASE wrpc /\ OverWrpc
  BY <1>4, OverWrpcInv
<1>5. CASE UNCHANGED allVars
  <2>1. pool' \in SUBSET Node /\ Still
    BY <1>0, <1>5 DEF allVars, svars, vars, worker
  <2> QED BY <2>1, QuietInv
<1> QED BY <1>1, <1>2, <1>3, <1>4, <1>5 DEF SubmitNext

(* SubmitSpec implements the specification of the client: the mempools and *)
(* the statuses only watch it, and calls over wRPC go past it.             *)
THEOREM SubmitImplementsClient == SubmitSpec => Spec
<1>1. SubmitInit => Init
  BY DEF SubmitInit
<1> QED BY <1>1, ClientStep, PTL DEF SubmitSpec, Spec

(* The types of the composition, and the status agrees with where the      *)
(* request is (SubmitTypeOK of SubmitTransaction).                         *)
THEOREM SubmitTypes == SubmitSpec => []SubmitTypeOK
<1>1. SubmitInv => SubmitTypeOK
  BY DEF SubmitInv
<1> QED
  BY <1>1, SubmitInitInv, SubmitNextInv, SubmitImplementsClient, TypeCorrect, PTL
     DEF SubmitSpec

(* 200 and, after one execution, 400 with the node's message tell the      *)
(* truth about the transaction, over either client, for any number of      *)
(* hosts and requests (StatusIsTruthful).                                  *)
THEOREM SubmitTruthful == SubmitSpec => []StatusIsTruthful
<1>1. SubmitInv => StatusIsTruthful
  BY DEF SubmitInv
<1> QED
  BY <1>1, SubmitInitInv, SubmitNextInv, SubmitImplementsClient, TypeCorrect, PTL
     DEF SubmitSpec
=============================================================================
