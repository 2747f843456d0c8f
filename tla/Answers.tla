------------------------------ MODULE Answers ------------------------------
(***************************************************************************)
(* What a connection promises to the callers of SendInference: a caller    *)
(* passes on no more chunks than its node has sent and none after its call *)
(* has returned, and the call returns nil only when the node has finished  *)
(* and nothing is missing.  There are no channels, locks, sockets or       *)
(* goroutines here; the detailed specification is NodeConn.                *)
(***************************************************************************)
EXTENDS Integers

CONSTANT Requests

VARIABLES
    sent,      \* chunks the node has sent for each request
    finished,  \* requests the node has sent its last message for
    passed,    \* chunks the caller has passed on to its client
    outcome    \* "none", "nil" or "err": what the call returned

vars == <<sent, finished, passed, outcome>>

Init ==
    /\ sent = [r \in Requests |-> 0]
    /\ finished = {}
    /\ passed = [r \in Requests |-> 0]
    /\ outcome = [r \in Requests |-> "none"]

\* The node may go on after the call has failed, never after it succeeded.
Send(r) ==
    /\ r \notin finished
    /\ sent' = [sent EXCEPT ![r] = @ + 1]
    /\ UNCHANGED <<finished, passed, outcome>>

Finish(r) ==
    /\ r \notin finished
    /\ finished' = finished \cup {r}
    /\ UNCHANGED <<sent, passed, outcome>>

Pass(r) ==
    /\ outcome[r] = "none"
    /\ passed[r] < sent[r]
    /\ passed' = [passed EXCEPT ![r] = @ + 1]
    /\ UNCHANGED <<sent, finished, outcome>>

Succeed(r) ==
    /\ outcome[r] = "none"
    /\ r \in finished /\ passed[r] = sent[r]
    /\ outcome' = [outcome EXCEPT ![r] = "nil"]
    /\ UNCHANGED <<sent, finished, passed>>

\* A call may fail at any moment: a timeout, a dead link, an operator.
Fail(r) ==
    /\ outcome[r] = "none"
    /\ outcome' = [outcome EXCEPT ![r] = "err"]
    /\ UNCHANGED <<sent, finished, passed>>

Next ==
    \E r \in Requests : Send(r) \/ Finish(r) \/ Pass(r) \/ Succeed(r) \/ Fail(r)

Spec == Init /\ [][Next]_vars

=============================================================================
