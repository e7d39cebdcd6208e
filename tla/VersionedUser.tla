----------------------------- MODULE VersionedUser -----------------------------
(***************************************************************************)
(* What the users module promises about one user, with no cache, lock or   *)
(* transaction in sight: rows that are committed one after the other under *)
(* growing versions, at most one of each client, and reads that answer     *)
(* with a row at least as new as the one that was there when they were     *)
(* asked.                                                                  *)
(*                                                                         *)
(* The two concessions: an error tells a client nothing, its row may be    *)
(* committed already (GiveUp) or yet (Commit); and a read may show the row *)
(* of a client that gave up, committed or not (Answers).                   *)
(***************************************************************************)
EXTENDS Integers

CONSTANTS
    Clients, \* the requests and jobs
    Nothing  \* no row: a record whose ver is 0

VARIABLES
    row,     \* the user, Nothing before it is created
    history, \* every row ever committed
    gaveUp,  \* the clients that ended with an error
    pending, \* the reads under way, each with the version it was asked at
    answer   \* what each read has answered, Nothing before

vars == <<row, history, gaveUp, pending, answer>>

Init ==
    /\ history = {row} \ {Nothing}
    /\ gaveUp = {}
    /\ pending = {}
    /\ answer = [c \in Clients |-> Nothing]

-----------------------------------------------------------------------------
\* Each client does one thing.
HasCommitted(c) == \E r \in history : r.by = c
HasAsked(c) == (\E q \in pending : q[1] = c) \/ answer[c] # Nothing

Commit(c) ==
    /\ row'.ver > row.ver
    /\ row'.by = c
    /\ ~HasCommitted(c) /\ ~HasAsked(c)
    /\ history' = history \cup {row'}
    /\ UNCHANGED <<gaveUp, pending, answer>>

GiveUp(c) ==
    /\ c \notin gaveUp
    /\ answer[c] = Nothing
    /\ gaveUp' = gaveUp \cup {c}
    /\ pending' = {q \in pending : q[1] # c}
    /\ UNCHANGED <<row, history, answer>>

Ask(c) ==
    /\ ~HasCommitted(c) /\ ~HasAsked(c) /\ c \notin gaveUp
    /\ pending' = pending \cup {<<c, row.ver>>}
    /\ UNCHANGED <<row, history, gaveUp, answer>>

\* What a read asked at version v may show.
Answers(v, r) ==
    /\ r # Nothing
    /\ r.ver >= v
    /\ r \in history \/ r.by \in gaveUp

Answer(c) ==
    \E q \in pending :
        /\ q[1] = c
        /\ Answers(q[2], answer'[c])
        /\ answer' = [answer EXCEPT ![c] = answer'[c]]
        /\ pending' = pending \ {q}
        /\ UNCHANGED <<row, history, gaveUp>>

Next == \E c \in Clients : Commit(c) \/ GiveUp(c) \/ Ask(c) \/ Answer(c)

Spec == Init /\ [][Next]_vars

================================================================================
