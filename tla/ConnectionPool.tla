----------------------------- MODULE ConnectionPool -----------------------------
(***************************************************************************)
(* The database connections of the handlers.  A handler with a queryRunner *)
(* connects it on its first line and releases it in its finally block; a   *)
(* query that is not given the queryRunner takes one more connection for   *)
(* as long as it runs, and so does a handler it publishes to.  The pool    *)
(* has no acquire timeout.  The transactions on one user's row queue for   *)
(* its lock with their connections in hand.                                *)
(***************************************************************************)
EXTENDS Integers

CONSTANTS
    Requests, \* the requests and worker jobs, each runs once
    Conns     \* the connections of the pool

ASSUME ConnsAssumption == "none" \notin Conns

VARIABLES
    kind,     \* the handler each request is for
    pc,
    left,     \* the queries outside the queryRunner it has still to make
    main,     \* the connection of its queryRunner
    extra,    \* the connection of a query or of a nested handler
    lock,     \* the connection whose transaction holds the row lock
    open      \* the connections released with their transaction open

vars == <<kind, pc, left, main, extra, lock, open>>

-----------------------------------------------------------------------------
Kinds == {"update", "refresh", "deactivate", "signIn", "verify", "flag", "reader"}
\* The handlers that ask the pool for one connection with another in hand.
Nesting == {"verify", "deactivate"}
Serializable == {"update", "deactivate", "flag"}

\* The queries outside the queryRunner: the token; the row version and the
\* user of a cached read; the pages of users.
Queries(k) ==
    CASE k = "verify" -> {1}
      [] k \in {"deactivate", "reader"} -> 1 .. 2
      [] OTHER -> {0}

Steps == {"idle", "connect", "query", "querying", "begin", "write", "inTx", "notify", "release", "done"}
Asking == {"connect", "query", "notify"}
InTx == {"write", "inTx"}

Free == {c \in Conns : \A r \in Requests : main[r] # c /\ extra[r] # c}

\* The connection of the transaction r is about to begin or is in: the one of
\* the nested handler, while there is one.
Cur(r) == IF extra[r] # "none" THEN extra[r] ELSE main[r]

Init ==
    /\ kind = [r \in Requests |-> "update"]
    /\ pc = [r \in Requests |-> "idle"]
    /\ left = [r \in Requests |-> 0]
    /\ main = [r \in Requests |-> "none"]
    /\ extra = [r \in Requests |-> "none"]
    /\ lock = "none"
    /\ open = {}

-----------------------------------------------------------------------------
Go(r, step) == pc' = [pc EXCEPT ![r] = step]

\* A request arrives or a worker takes a job.
Arrive(r) ==
    /\ pc[r] = "idle"
    /\ \E k \in Kinds :
         /\ kind' = [kind EXCEPT ![r] = k]
         /\ \E n \in Queries(k) : left' = [left EXCEPT ![r] = n]
         /\ Go(r, IF k = "reader" THEN "query" ELSE "connect")
    /\ UNCHANGED <<main, extra, lock, open>>

\* Mutant: off by one.
AfterConnectAtLeast(r) ==
    CASE left[r] >= 0 /\ kind[r] # "signIn" -> "query"
      [] OTHER -> "release"

\* What follows the checks before the transaction, when they succeed. The
\* mapping of a sign-in never does: its inner service is never constructed.
AfterConnect(r) ==
    CASE left[r] > 0 -> "query"
      [] kind[r] = "signIn" -> "release"
      [] OTHER -> "begin"

Connect(r) ==
    /\ pc[r] = "connect"
    /\ \E c \in Free : main' = [main EXCEPT ![r] = c]
    /\ \E step \in {AfterConnect(r), "release"} : Go(r, step)
    /\ UNCHANGED <<kind, left, extra, lock, open>>

TakeQuery(r) ==
    /\ pc[r] = "query"
    /\ \E c \in Free : extra' = [extra EXCEPT ![r] = c]
    /\ Go(r, "querying")
    /\ UNCHANGED <<kind, left, main, lock, open>>

\* Mutant: a query that fails is tried again.
QueryDoneRetries(r) ==
    /\ pc[r] = "querying"
    /\ extra' = [extra EXCEPT ![r] = "none"]
    /\ \/ Go(r, "query") /\ UNCHANGED left
       \/ /\ left' = [left EXCEPT ![r] = @ - 1]
          /\ Go(r, IF kind[r] = "reader" THEN "done" ELSE "release")
    /\ UNCHANGED <<kind, main, lock, open>>

\* The query ends; the handler goes on or answers an error.
QueryDone(r) ==
    /\ pc[r] = "querying"
    /\ extra' = [extra EXCEPT ![r] = "none"]
    /\ left' = [left EXCEPT ![r] = @ - 1]
    /\ \/ left[r] > 1 /\ Go(r, "query")
       \/ left[r] = 1 /\ kind[r] # "reader" /\ Go(r, "begin")
       \/ Go(r, IF kind[r] = "reader" THEN "done" ELSE "release")
    /\ UNCHANGED <<kind, main, lock, open>>

\* startTransaction; only the transactions on the row of the one user wait for
\* its lock.
Begin(r) ==
    /\ pc[r] = "begin"
    /\ Cur(r) \notin open
    /\ \E step \in InTx : Go(r, step)
    /\ UNCHANGED <<kind, left, main, extra, lock, open>>

\* It warns only, and r goes on in the transaction it finds there.
BeginInherits(r) ==
    /\ pc[r] = "begin"
    /\ Cur(r) \in open
    /\ kind[r] \notin Serializable /\ extra[r] = "none"
    /\ open' = open \ {Cur(r)}
    /\ \E step \in InTx : Go(r, step)
    /\ UNCHANGED <<kind, left, main, extra, lock>>

EndLock(r) == lock' = IF lock = Cur(r) THEN "none" ELSE lock

\* SET TRANSACTION is an error there; the catch block rolls back.
BeginRejected(r) ==
    /\ pc[r] = "begin"
    /\ Cur(r) \in open
    /\ kind[r] \in Serializable \/ extra[r] # "none"
    /\ open' = open \ {Cur(r)}
    /\ EndLock(r)
    /\ Go(r, "release")
    /\ UNCHANGED <<kind, left, main, extra>>

CanWrite(r) == lock \in {"none", Cur(r)}

\* Mutant: the user is loaded in the transaction without its queryRunner.
WriteThenQuery(r) ==
    /\ pc[r] = "write"
    /\ CanWrite(r)
    /\ lock' = Cur(r)
    /\ left' = [left EXCEPT ![r] = 1]
    /\ Go(r, IF extra[r] = "none" THEN "query" ELSE "inTx")
    /\ UNCHANGED <<kind, main, extra, open>>

Write(r) ==
    /\ pc[r] = "write"
    /\ CanWrite(r)
    /\ lock' = Cur(r)
    /\ Go(r, "inTx")
    /\ UNCHANGED <<kind, left, main, extra, open>>

\* Mutant: the error return of every handler forgets the rollback.
RollbackForgotten(r) ==
    /\ pc[r] = "inTx" \/ (pc[r] = "write" /\ CanWrite(r))
    /\ Go(r, "release")
    /\ UNCHANGED <<kind, left, main, extra, lock, open>>

\* The cache refresh and the rest of the transaction use its queryRunner. A
\* verification that renewed its token then publishes an event before it
\* releases its connection: the e-mail is sent and a flag set, unless it fails.
Commit(r) ==
    /\ pc[r] = "inTx"
    /\ EndLock(r)
    /\ \/ Go(r, "release")
       \/ kind[r] = "verify" /\ extra[r] = "none" /\ Go(r, "notify")
    /\ UNCHANGED <<kind, left, main, extra, open>>

Rollback(r) ==
    /\ pc[r] = "inTx" \/ (pc[r] = "write" /\ CanWrite(r))
    /\ EndLock(r)
    /\ Go(r, "release")
    /\ UNCHANGED <<kind, left, main, extra, open>>

\* The error returns inside the transaction of these two do not roll back.
Forget(r) ==
    /\ pc[r] = "inTx"
    /\ kind[r] \in Nesting /\ extra[r] = "none"
    /\ open' = open \cup {main[r]}
    /\ Go(r, "release")
    /\ UNCHANGED <<kind, left, main, extra, lock>>

\* The nested handler connects its own queryRunner.
Notify(r) ==
    /\ pc[r] = "notify"
    /\ \E c \in Free : extra' = [extra EXCEPT ![r] = c]
    /\ Go(r, "begin")
    /\ UNCHANGED <<kind, left, main, lock, open>>

\* The finally blocks, the nested one first.
Release(r) ==
    /\ pc[r] = "release"
    /\ IF extra[r] # "none"
         THEN extra' = [extra EXCEPT ![r] = "none"] /\ UNCHANGED <<main, pc>>
         ELSE main' = [main EXCEPT ![r] = "none"] /\ Go(r, "done") /\ UNCHANGED extra
    /\ UNCHANGED <<kind, left, lock, open>>

-----------------------------------------------------------------------------
Run(r) ==
    \/ Connect(r) \/ TakeQuery(r) \/ QueryDone(r)
    \/ Begin(r) \/ BeginInherits(r) \/ BeginRejected(r)
    \/ Write(r) \/ Commit(r) \/ Rollback(r) \/ Forget(r)
    \/ Notify(r) \/ Release(r)

Next == \E r \in Requests : Arrive(r) \/ Run(r)

Spec == Init /\ [][Next]_vars /\ \A r \in Requests : WF_vars(Run(r))

-----------------------------------------------------------------------------
TypeOK ==
    /\ kind \in [Requests -> Kinds]
    /\ pc \in [Requests -> Steps]
    /\ left \in [Requests -> 0 .. 2]
    /\ main \in [Requests -> Conns \cup {"none"}]
    /\ extra \in [Requests -> Conns \cup {"none"}]
    /\ lock \in Conns \cup {"none"}
    /\ open \in SUBSET Conns

-----------------------------------------------------------------------------
Waits(r) ==
    \/ pc[r] \in Asking /\ Free = {}
    \/ pc[r] = "write" /\ ~CanWrite(r)

\* Nothing under way can take another step.
Halted ==
    /\ \E r \in Requests : pc[r] \notin {"idle", "done"}
    /\ \A r \in Requests : pc[r] \notin {"idle", "done"} => Waits(r)

\* Every connection of the pool is in the hands of a nesting handler that asks
\* for a second one.
Exhausted ==
    \A c \in Conns : \E r \in Requests :
        /\ main[r] = c /\ extra[r] = "none"
        /\ kind[r] \in Nesting /\ pc[r] \in {"query", "notify"}

\* The service comes to a halt in two ways only: the pool is exhausted, or the
\* row lock is with a connection that went back with its transaction open. In
\* particular no cycle runs through both the pool and the row lock.
HaltCause == Halted => Exhausted \/ lock \in open

\* Every request is answered, unless the service halts.
EveryRequestEnds ==
    \A r \in Requests : pc[r] \in {"connect", "query"} ~> pc[r] = "done" \/ Halted

-----------------------------------------------------------------------------
(* The inductive invariant. *)

\* No connection is in two hands.
OwnConnections ==
    \A r, s \in Requests :
        /\ main[r] = main[s] /\ main[r] # "none" => r = s
        /\ extra[r] = extra[s] /\ extra[r] # "none" => r = s
        /\ main[r] # "none" => main[r] # extra[s]

\* Who holds which connection where.
Held ==
    \A r \in Requests :
        /\ pc[r] \in {"idle", "connect", "done"} => main[r] = "none" /\ extra[r] = "none"
        /\ pc[r] \in {"begin", "notify", "release"} \cup InTx => main[r] # "none" /\ kind[r] # "reader"
        /\ pc[r] \in {"query", "querying"} => kind[r] \in Nesting \cup {"reader"} /\ left[r] > 0
        /\ pc[r] \in {"query", "querying"} => (main[r] = "none" <=> kind[r] = "reader")
        /\ pc[r] = "querying" => extra[r] # "none"
        /\ pc[r] \in {"query", "notify"} => extra[r] = "none"
        /\ pc[r] = "notify" => kind[r] = "verify"
        /\ pc[r] = "connect" => kind[r] # "reader" /\ left[r] \in Queries(kind[r])

\* The row lock is with a transaction under way or one that was forgotten, and
\* these are on different connections.
Transactions ==
    /\ lock # "none" => lock \in open \/ \E r \in Requests : pc[r] \in InTx /\ Cur(r) = lock
    /\ \A r \in Requests : pc[r] \in InTx => Cur(r) \notin open

IInv ==
    /\ TypeOK
    /\ OwnConnections
    /\ Held
    /\ Transactions

================================================================================
