----------------------------- MODULE MCRequestReply -----------------------------
(***************************************************************************)
(* The instance of RequestReply that TLC checks: one of two requests may be *)
(* sent a second time.                                                     *)
(***************************************************************************)
EXTENDS RequestReply, TLC

CONSTANTS r1, r2, p1

Sends == r1 :> 2 @@ r2 :> 1

\* Which process is which is a matter of names: the first request is of p1, and
\* the second of the same or of the other.
MCInit == Init /\ home[r1] = p1

MCSpec == MCInit /\ [][Next]_vars /\ Fairness

================================================================================
