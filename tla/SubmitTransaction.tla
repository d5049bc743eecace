------------------------- MODULE SubmitTransaction -------------------------
(***************************************************************************)
(* POST /transactions: over gRPC, KaspadMultiClient composed with the      *)
(* mempools of the nodes it talks to; over wRPC, one call that is given up *)
(* after ten seconds.  All requests submit the same transaction, as        *)
(* clients that repeat themselves do.                                      *)
(***************************************************************************)
EXTENDS KaspadMultiClient

CONSTANT Valid  \* the nodes' verdict on the transaction, if they do not have it

ASSUME ValidAssumption == Valid \in BOOLEAN

VARIABLES
    pool,    \* the nodes that have the transaction, in the mempool or a block
    wrpc,    \* KASPAD_WRPC_URL is set: Node are the nodes behind it, not hosts
    call,    \* the call of r over wRPC: "none", "sent", "executed"
    reply,   \* what a node said to an attempt not given up: "none", "id", "error"
    status,  \* the HTTP status of the response, 0 before
    told,    \* the requests whose response repeats what the node said
    placed   \* history: the requests that put the transaction on a node

svars == <<pool, wrpc, call, reply, status, told, placed>>
allVars == <<vars, svars>>

SubmitInit ==
    /\ Init
    /\ pool = {}
    /\ wrpc \in BOOLEAN
    /\ call = [r \in Request |-> "none"]
    /\ reply = [r \in Request |-> "none"]
    /\ status = [r \in Request |-> 0]
    /\ told = {}
    /\ placed = {}

(* The nodes (external): a valid transaction comes from another node or    *)
(* from any other client of the network; a node that stops can lose its    *)
(* mempool.                                                                *)
Relay ==
    /\ \E k \in Node \ pool :
          /\ Valid /\ Up(k)
          /\ pool' = pool \cup {k}
    /\ UNCHANGED <<vars, wrpc, call, reply, status, told, placed>>

NodeSide(k) ==
    /\ NodeChanges(k)
    /\ \/ UNCHANGED pool
       \/ node'[k] = Down /\ pool' = pool \ {k}
    /\ UNCHANGED <<wrpc, call, reply, status, told, placed>>

\* Node k takes the transaction and says its id, or it says an error: the
\* transaction is invalid, or the node has it already.
Verdict(r, k, said) ==
    \/ /\ said = "id" /\ Valid /\ k \notin pool
       /\ pool' = pool \cup {k}
       /\ placed' = placed \cup {r}
    \/ /\ said = "error" /\ (~Valid \/ k \in pool)
       /\ UNCHANGED <<pool, placed>>

Submits(r, k) == \E said \in {"id", "error"} :
    /\ Verdict(r, k, said)
    /\ reply' = [reply EXCEPT ![r] = said]

\* The response: 400 with the node's message, or 200 with the transaction id.
Says(r) ==
    /\ status' = [status EXCEPT ![r] = IF reply[r] = "error" THEN 400 ELSE 200]
    /\ told' = told \cup {r}
-----------------------------------------------------------------------------
NodeSubmits(r) ==
    /\ Execute(r) /\ Submits(r, target[r])
    /\ UNCHANGED <<wrpc, call, status, told>>

\* Nobody reads what the node says to an attempt that was given up.
NodeSubmitsLate(r, a) ==
    /\ ExecuteLate(r, a)
    /\ \E said \in {"id", "error"} : Verdict(r, late[r][a], said)
    /\ UNCHANGED <<wrpc, call, reply, status, told>>

\* The error of the response is not looked at (mutant).
AnswerIgnoresError(r) ==
    /\ Reply(r)
    /\ status' = [status EXCEPT ![r] = 200]
    /\ told' = told \cup {r}
    /\ UNCHANGED <<pool, wrpc, call, reply, placed>>

Answer(r) ==
    /\ Reply(r) /\ Says(r)
    /\ UNCHANGED <<pool, wrpc, call, reply, placed>>

\* The handler of server.py answers 400 (mutant).
UnavailableAs400(r) ==
    /\ RpcError(r) \/ Refreshed(r)
    /\ status' = [status EXCEPT ![r] = IF pc'[r] = "unavailable" THEN 400 ELSE @]
    /\ UNCHANGED <<pool, wrpc, call, reply, told, placed>>

\* The two error responses of server.py.
Unavailable(r) ==
    /\ RpcError(r) \/ Refreshed(r)
    /\ status' = [status EXCEPT ![r] = IF pc'[r] = "unavailable" THEN 503 ELSE @]
    /\ UNCHANGED <<pool, wrpc, call, reply, told, placed>>

Failed(r) ==
    /\ HandlerDone(r)
    /\ status' = [status EXCEPT ![r] = 500]
    /\ UNCHANGED <<pool, wrpc, call, reply, told, placed>>

Inside(r) == (Start(r) \/ EndpointRaises(r)) /\ UNCHANGED svars

OverGrpc ==
    \/ \E c \in Caller, k \in Node : PingStep(c, k) /\ UNCHANGED svars
    \/ (LoopPing \/ StartupPing \/ StartupDone) /\ UNCHANGED svars
    \/ \E r \in Request : \/ Inside(r) \/ NodeSubmits(r) \/ Answer(r)
                          \/ Unavailable(r) \/ Failed(r)
                          \/ \E a \in Attempt : NodeSubmitsLate(r, a)
-----------------------------------------------------------------------------
(* Over wRPC there are no hosts to ping and nothing is repeated.           *)
WrpcSends(r) ==
    /\ status[r] = 0 /\ call[r] = "none"
    /\ call' = [call EXCEPT ![r] = "sent"]
    /\ UNCHANGED <<vars, pool, wrpc, reply, status, told, placed>>

\* The node behind the link, even if nobody waits for its answer any more.
WrpcSubmits(r) ==
    /\ call[r] = "sent"
    /\ \E k \in Node : Up(k) /\ Submits(r, k)
    /\ call' = [call EXCEPT ![r] = "executed"]
    /\ UNCHANGED <<vars, wrpc, status, told>>

WrpcAnswers(r) ==
    /\ status[r] = 0 /\ call[r] = "executed"
    /\ Says(r)
    /\ UNCHANGED <<vars, pool, wrpc, call, reply, placed>>

\* The client is not connected, the link breaks, or the ten seconds are over:
\* any exception is a 400.
WrpcRaises(r) ==
    /\ status[r] = 0
    /\ status' = [status EXCEPT ![r] = 400]
    /\ UNCHANGED <<vars, pool, wrpc, call, reply, told, placed>>

OverWrpc == \E r \in Request :
    WrpcSends(r) \/ WrpcSubmits(r) \/ WrpcAnswers(r) \/ WrpcRaises(r)

SubmitNext ==
    \/ Relay
    \/ \E k \in Node : NodeSide(k)
    \/ ~wrpc /\ OverGrpc
    \/ wrpc /\ OverWrpc

SubmitSpec == SubmitInit /\ [][SubmitNext]_allVars
-----------------------------------------------------------------------------
(* Types of the variables of this module, and the status agrees with where *)
(* the request is: over wRPC, every failure is a 400.                      *)
SubmitTypeOK ==
    /\ pool \subseteq Node
    /\ wrpc \in BOOLEAN
    /\ call \in [Request -> {"none", "sent", "executed"}]
    /\ reply \in [Request -> {"none", "id", "error"}]
    /\ status \in [Request -> {0, 200, 400, 500, 503}]
    /\ told \subseteq {r \in Request : status[r] \in {200, 400}}
    /\ placed \subseteq Request
    /\ \A r \in Request :
          IF wrpc
          THEN /\ pc[r] = "new" /\ status[r] \in {0, 200, 400}
               /\ r \in told => call[r] = "executed"
          ELSE /\ call[r] = "none"
               /\ status[r] \in {200, 400} <=> pc[r] = "ok"
               /\ status[r] = 503 <=> pc[r] = "unavailable"
               /\ status[r] = 500 <=> pc[r] = "error"

(* 200 is only answered for a transaction that this request placed on a    *)
(* node, and 400 with the node's message, if it was executed once, only    *)
(* for one that it did not, however many others submit the same and        *)
(* however late the node is (submit_transaction_request.py:113-144).       *)
StatusIsTruthful ==
    \A r \in Request :
        /\ status[r] = 200 => r \in placed
        /\ status[r] = 400 /\ r \in told /\ executions[r] <= 1 => r \notin placed
=============================================================================
