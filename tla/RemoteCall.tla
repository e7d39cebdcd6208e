------------------------------- MODULE RemoteCall -------------------------------
(***************************************************************************)
(* What a caller of rabbitMQRequestReply.sendAsync is promised, with no    *)
(* queue, consumer, channel or acknowledgement in sight: the promise of a  *)
(* request resolves at most once, after the serving side has answered that *)
(* very request, and nothing but the end of the caller's process takes it  *)
(* away.  An answer is never taken back, wanted or not.                    *)
(***************************************************************************)
CONSTANT Requests

VARIABLES
    promise, \* of each request: "idle", "waiting", "resolved", or "lost" with its process
    answered \* the requests the serving side has answered

vars == <<promise, answered>>

Init ==
    /\ promise = [r \in Requests |-> "idle"]
    /\ answered = {}

-----------------------------------------------------------------------------
Call(r) ==
    /\ promise[r] = "idle"
    /\ promise' = [promise EXCEPT ![r] = "waiting"]
    /\ UNCHANGED answered

\* Nobody is answered who has not asked.
Answer(r) ==
    /\ promise[r] # "idle"
    /\ answered' = answered \cup {r}
    /\ UNCHANGED promise

Resolve(r) ==
    /\ promise[r] = "waiting" /\ r \in answered
    /\ promise' = [promise EXCEPT ![r] = "resolved"]
    /\ UNCHANGED answered

\* A process ends with every promise it has made.
Lose(gone) ==
    /\ \A r \in gone : promise[r] \in {"waiting", "resolved"}
    /\ promise' = [r \in Requests |-> IF r \in gone THEN "lost" ELSE promise[r]]
    /\ UNCHANGED answered

Next ==
    \/ \E r \in Requests : Call(r) \/ Answer(r) \/ Resolve(r)
    \/ \E gone \in SUBSET Requests : Lose(gone)

Spec == Init /\ [][Next]_vars

================================================================================
