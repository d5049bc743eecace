--------------------------- MODULE KaspadRequest ---------------------------
(***************************************************************************)
(* What KaspadMultiClient.request promises to the endpoint that awaits it, *)
(* with no mention of hosts, pings or recorded statuses: the command runs  *)
(* at most twice in all, never before the request and possibly after it    *)
(* was answered; an answer is only ever handed over after a node ran the   *)
(* command; every started request is settled once, and eventually.         *)
(* KaspadMultiClient implements this specification.                        *)
(***************************************************************************)
EXTENDS Naturals

CONSTANT Request

VARIABLES outcome,    \* "new", "pending" or how the HTTP request ended
          executions  \* how many times a node has run the request's command

vars == <<outcome, executions>>

Settled == {"ok", "unavailable", "error"}

Init ==
    /\ outcome = [r \in Request |-> "new"]
    /\ executions = [r \in Request |-> 0]

Start(r) ==
    /\ outcome[r] = "new"
    /\ outcome' = [outcome EXCEPT ![r] = "pending"]
    /\ UNCHANGED executions

\* The first attempt and its one repetition (KaspadMultiClient.py:28 and 31).
\* A node that is slower than the deadline runs the command when nobody waits
\* for it any more (KaspadThread.py:62): during the repetition or after it.
Execute(r) ==
    /\ outcome[r] # "new"
    /\ executions[r] < 2
    /\ executions' = [executions EXCEPT ![r] = @ + 1]
    /\ UNCHANGED outcome

\* Only an answer needs a node to have run the command; 503 and 500 do not
\* tell whether one did.
Settle(r) ==
    /\ outcome[r] = "pending"
    /\ \E o \in Settled :
          /\ o = "ok" => executions[r] > 0
          /\ outcome' = [outcome EXCEPT ![r] = o]
    /\ UNCHANGED executions

Next == \E r \in Request : Start(r) \/ Execute(r) \/ Settle(r)

Spec == Init /\ [][Next]_vars

FairSpec == Spec /\ \A r \in Request : WF_vars(Settle(r))
=============================================================================
