------------------------------- MODULE UserCache -------------------------------
(***************************************************************************)
(* One user of the users module: the row PostgreSQL keeps, the three Redis *)
(* keys that cache it, and the request handlers and queue jobs that read   *)
(* and write both, each await a step of its own.                           *)
(*                                                                         *)
(*   - the cache is read through and guarded by the row's version column   *)
(*     (UserSharedCacheService, UserSetCacheService);                      *)
(*   - every writer refreshes the cache from inside its transaction,       *)
(*     before it commits;                                                  *)
(*   - the clientId and email keys are read with no version check;         *)
(*   - three error paths release the connection to the pool without a      *)
(*     rollback: the transaction stays open ("leaked") until the pool      *)
(*     hands the connection to somebody else;                              *)
(*   - what follows a commit (a publication, an event, the response) may   *)
(*     still fail, and is answered as an error.                            *)
(***************************************************************************)
EXTENDS Integers

CONSTANTS
    Handlers, \* the requests and jobs, each runs once
    Emails,   \* the addresses the user may have
    Ops,      \* the operations the handlers may perform, a subset of AllOps
    Faults    \* the faults that may happen, a subset of {"redis", "service"}

AllOps == {"create", "read", "update", "refresh", "deactivate", "verify", "reissue", "emailFlag"}

ASSUME HandlersAssumption == {"earlier", "free"} \cap Handlers = {}
ASSUME EmailsAssumption == Emails # {} /\ {"identifier", "clientId"} \cap Emails = {}
ASSUME OpsAssumption == Ops \subseteq AllOps
ASSUME FaultsAssumption == Faults \subseteq {"redis", "service"}

VARIABLES
    db,        \* the committed row, NoRow before createUsers commits
    committed, \* history: every row ever committed
    redis,     \* what each key holds, NoRow when it is missing
    lock,      \* who holds the row lock, "free" when nobody does
    tx,        \* the row each transaction has written, NoRow before it writes
    snap,      \* the snapshot a SERIALIZABLE transaction reads, NoRow before its first query
    pc, op,    \* where each handler is, and what it is doing
    val,       \* the user object each handler holds
    asOf       \* history: the committed version when each read started

vars == <<db, committed, redis, lock, tx, snap, pc, op, val, asOf>>

-----------------------------------------------------------------------------
(* The data. "token" says that an email verification is pending; "by"       *)
(* stands for the rest of the row: rows with one writer have one content.   *)

Status == {"ACTIVE", "INACTIVE"}
Writers == Handlers \cup {"earlier"}
Row == [ver : Nat \ {0}, by : Writers, status : Status, token : BOOLEAN, email : Emails]
NoRow == [ver |-> 0, by |-> "earlier", status |-> "INACTIVE", token |-> FALSE,
          email |-> CHOOSE e \in Emails : TRUE]

Exists(r) == r.ver # 0

Keys == {"identifier", "clientId"} \cup Emails

-----------------------------------------------------------------------------
(* Where a handler can be. *)

SetSteps == {"setIdentifier", "setClientId", "setEmail"}
CallSteps == {"get", "check", "load"} \cup SetSteps
Working == CallSteps \cup {"lookup", "token", "begin", "write", "commit"}
Ended == {"done", "failed", "leaked"}
\* "answer": the handler has committed and has its response to give.
Places == {"idle", "answer"} \cup Working \cup Ended

\* verifyUsers and the email-flag job open their transaction before they read the cache.
TxFirst == {"verify", "reissue", "emailFlag"}

\* startTransaction('SERIALIZABLE'); the others take the default, READ COMMITTED.
Serializable == {"create", "update", "deactivate", "emailFlag"}

\* The error returns of verifyUsers inside its transaction forget the rollback.
Forgetful == {"verify", "reissue"}

Written(h) == Exists(tx[h]) /\ tx[h].by = h

InTx(h) ==
    \/ Written(h)
    \/ pc[h] = "write"
    \/ op[h] \in TxFirst /\ pc[h] \in CallSteps

Leaked == {l \in Handlers : pc[l] = "leaked"}

\* What the handler's own transaction sees.
TxView(h) ==
    IF Exists(tx[h]) THEN tx[h] ELSE IF Exists(snap[h]) THEN snap[h] ELSE db

\* What a query can return: outside a transaction it runs on any pooled
\* connection, one with somebody's open transaction included.
Views(h) ==
    IF InTx(h) THEN {TxView(h)}
    ELSE {db} \cup {tx[l] : l \in {k \in Leaked : Exists(tx[k])}}

\* A SERIALIZABLE transaction takes its snapshot at its first query.
Snapshot(h) ==
    IF InTx(h) /\ op[h] \in Serializable /\ ~Exists(snap[h]) /\ ~Exists(tx[h])
      THEN [snap EXCEPT ![h] = db] ELSE snap

\* The status a handler asks the cache service for.
Wanted(h) ==
    IF Written(h) THEN tx[h].status
    ELSE IF op[h] \in TxFirst THEN "INACTIVE" ELSE "ACTIVE"

\* Mutant: the deactivation commits once it has the user, before its update.
AfterCallCommitsEarly(h) == IF op[h] = "read" THEN "done" ELSE "commit"

\* Where the handler goes when the cache service returns the user.
AfterCall(h) ==
    IF Written(h) THEN "commit"
    ELSE IF op[h] = "read" THEN "done"
    ELSE IF op[h] = "deactivate" THEN "begin" ELSE "write"

-----------------------------------------------------------------------------
(* How a handler ends. *)

FreeLock(h) == IF lock = h THEN "free" ELSE lock

\* Mutant: an error path that releases the connection and forgets the rollback.
RollbackForgotten(h) ==
    /\ pc' = [pc EXCEPT ![h] = "failed"]
    /\ val' = [val EXCEPT ![h] = NoRow]
    /\ UNCHANGED <<tx, snap, lock>>

\* An error response after rollbackTransaction(), or a crash: the lost
\* connection rolls back.
Rollback(h) ==
    /\ pc' = [pc EXCEPT ![h] = "failed"]
    /\ tx' = [tx EXCEPT ![h] = NoRow]
    /\ snap' = [snap EXCEPT ![h] = NoRow]
    /\ val' = [val EXCEPT ![h] = NoRow]
    /\ lock' = FreeLock(h)

\* An error response with release() but no rollback.
Leak(h) ==
    /\ pc' = [pc EXCEPT ![h] = "leaked"]
    /\ val' = [val EXCEPT ![h] = NoRow]
    /\ UNCHANGED <<tx, snap, lock>>

\* What an Err returned by a service does to the handler.
ErrorReturn(h) == IF op[h] \in Forgetful /\ InTx(h) THEN Leak(h) ELSE Rollback(h)

-----------------------------------------------------------------------------
Init ==
    \* Nobody yet, or a user created earlier: a deactivated one has no token.
    /\ db \in {NoRow} \cup {row \in [ver : {1}, by : {"earlier"}, status : Status,
                                     token : BOOLEAN, email : Emails] :
                             row.token => row.status = "INACTIVE"}
    /\ committed = {db} \ {NoRow}
    \* createUsers has filled the three keys, or Redis has lost them since.
    /\ redis \in {[k \in Keys |-> IF k \in {"identifier", "clientId", db.email} THEN db ELSE NoRow],
                  [k \in Keys |-> NoRow]}
    /\ lock = "free"
    /\ tx = [h \in Handlers |-> NoRow]
    /\ snap = [h \in Handlers |-> NoRow]
    /\ pc = [h \in Handlers |-> "idle"]
    /\ op = [h \in Handlers |-> "read"]
    /\ val = [h \in Handlers |-> NoRow]
    /\ asOf = [h \in Handlers |-> 0]

-----------------------------------------------------------------------------
(* The handlers start: the guards that reject a request before it reads     *)
(* the user change nothing and are left out.                                *)

Start(h, o, first) ==
    /\ pc[h] = "idle"
    /\ o \in Ops
    /\ op' = [op EXCEPT ![h] = o]
    /\ pc' = [pc EXCEPT ![h] = first]
    /\ asOf' = [asOf EXCEPT ![h] = IF o = "read" THEN db.ver ELSE 0]
    /\ UNCHANGED <<db, committed, redis, lock, tx, snap, val>>

\* The identifier is new: one request creates this user.
StartCreate(h) ==
    /\ ~Exists(db) /\ \A k \in Handlers : op[k] # "create"
    /\ Start(h, "create", "begin")
StartGetUser(h) == Start(h, "read", "get")
StartUpdate(h) == Start(h, "update", "lookup")
StartRefresh(h) == Start(h, "refresh", "lookup")
StartDeactivate(h) == Start(h, "deactivate", "get")
StartVerify(h) == \E o \in {"verify", "reissue"} : Start(h, o, "token")
StartEmailFlag(h) == Start(h, "emailFlag", "begin")

\* GetUsersByClientIdService: whatever the clientId key holds, with no version
\* check. updateUsers answers 403 when that copy says INACTIVE.
LookupClientId(h) ==
    /\ pc[h] = "lookup"
    /\ LET user == redis["clientId"] IN
         IF ~Exists(user) \/ (op[h] = "update" /\ user.status = "INACTIVE")
           THEN Rollback(h)
           ELSE /\ pc' = [pc EXCEPT ![h] = "begin"]
                /\ val' = [val EXCEPT ![h] = user]
                /\ UNCHANGED <<lock, tx, snap>>
    /\ UNCHANGED <<db, committed, redis, op, asOf>>

\* IsEmailTokenValidService, on a connection of its own: no pending
\* verification, no transaction.
CheckToken(h) ==
    /\ pc[h] = "token"
    /\ \E row \in Views(h) :
         IF row.token
           THEN /\ pc' = [pc EXCEPT ![h] = "begin"]
                /\ UNCHANGED <<lock, tx, snap, val>>
           ELSE Rollback(h)
    /\ UNCHANGED <<db, committed, redis, op, asOf>>

-----------------------------------------------------------------------------
(* startTransaction, on a connection of the pool. *)

AfterBegin(h) == IF op[h] \in TxFirst THEN "get" ELSE "write"

BeginClean(h) ==
    /\ pc[h] = "begin"
    /\ pc' = [pc EXCEPT ![h] = AfterBegin(h)]
    /\ UNCHANGED <<db, committed, redis, lock, tx, snap, op, val, asOf>>

\* START TRANSACTION inside the open transaction of l only warns, and h goes
\* on in that transaction.
BeginInherits(h, l) ==
    /\ pc[h] = "begin" /\ l \in Leaked
    /\ op[h] \notin Serializable
    /\ pc' = [pc EXCEPT ![h] = AfterBegin(h), ![l] = "failed"]
    /\ tx' = [tx EXCEPT ![h] = tx[l], ![l] = NoRow]
    /\ snap' = [snap EXCEPT ![h] = snap[l], ![l] = NoRow]
    /\ lock' = IF lock = l THEN h ELSE lock
    /\ UNCHANGED <<db, committed, redis, op, val, asOf>>

\* SET TRANSACTION ISOLATION LEVEL is an error there: the catch block of h
\* rolls the transaction of l back.
BeginRejected(h, l) ==
    /\ pc[h] = "begin" /\ l \in Leaked
    /\ op[h] \in Serializable
    /\ pc' = [pc EXCEPT ![h] = "failed", ![l] = "failed"]
    /\ tx' = [tx EXCEPT ![l] = NoRow]
    /\ snap' = [snap EXCEPT ![l] = NoRow]
    /\ val' = [val EXCEPT ![h] = NoRow]
    /\ lock' = FreeLock(l)
    /\ UNCHANGED <<db, committed, redis, op, asOf>>

\* The pool hands the connection of l to a request about something else, which
\* rolls the transaction of l back, or goes on in it and commits the row of l.
Elsewhere(l) ==
    /\ pc[l] = "leaked"
    /\ pc' = [pc EXCEPT ![l] = "failed"]
    /\ tx' = [tx EXCEPT ![l] = NoRow]
    /\ snap' = [snap EXCEPT ![l] = NoRow]
    /\ lock' = FreeLock(l)
    /\ \/ UNCHANGED <<db, committed>>
       \/ Exists(tx[l]) /\ db' = tx[l] /\ committed' = committed \cup {tx[l]}
    /\ UNCHANGED <<redis, op, val, asOf>>

-----------------------------------------------------------------------------
(* UserSharedCacheService.handleAsync, one await a step. *)

GetPrimary(h) ==
    /\ pc[h] = "get"
    /\ LET user == redis["identifier"] IN
         /\ val' = [val EXCEPT ![h] = user]
         /\ pc' = [pc EXCEPT ![h] = IF Exists(user) THEN "check" ELSE "load"]
    /\ UNCHANGED <<db, committed, redis, lock, tx, snap, op, asOf>>

\* The queries look for the identifier with the wanted status.
Found(h, row) == Exists(row) /\ row.status = Wanted(h)

\* GetUserByIdentifierService, which the read and the first half of the
\* deactivation go through, answers 403 when the user it gets is not active.
Accepted(h) == op[h] \in {"read", "deactivate"} /\ ~Written(h) => val[h].status = "ACTIVE"

\* Mutants: a hit is trusted as it is; a copy at least as new as the row is a hit.
CheckVersionTrusting(h) ==
    /\ pc[h] = "check"
    /\ pc' = [pc EXCEPT ![h] = AfterCall(h)]
    /\ UNCHANGED <<db, committed, redis, lock, tx, snap, op, val, asOf>>

CheckVersionAtLeast(h) ==
    /\ pc[h] = "check"
    /\ \E row \in Views(h) :
         IF ~Found(h, row) \/ (row.ver <= val[h].ver /\ ~Accepted(h))
           THEN ErrorReturn(h)
           ELSE /\ pc' = [pc EXCEPT ![h] = IF row.ver <= val[h].ver THEN AfterCall(h) ELSE "load"]
                /\ snap' = Snapshot(h)
                /\ UNCHANGED <<lock, tx, val>>
    /\ UNCHANGED <<db, committed, redis, op, asOf>>

\* GetUserRowVersionService: a copy of the same version is a hit.
CheckVersion(h) ==
    /\ pc[h] = "check"
    /\ \E row \in Views(h) :
         IF ~Found(h, row) \/ (row.ver = val[h].ver /\ ~Accepted(h))
           THEN ErrorReturn(h)
           ELSE /\ pc' = [pc EXCEPT ![h] = IF row.ver = val[h].ver THEN AfterCall(h) ELSE "load"]
                /\ snap' = Snapshot(h)
                /\ UNCHANGED <<lock, tx, val>>
    /\ UNCHANGED <<db, committed, redis, op, asOf>>

\* The user with its four satellite tables, in one query.
LoadUser(h) ==
    /\ pc[h] = "load"
    /\ \E row \in Views(h) :
         IF ~Found(h, row)
           THEN ErrorReturn(h)
           ELSE /\ val' = [val EXCEPT ![h] = row]
                /\ pc' = [pc EXCEPT ![h] = "setIdentifier"]
                /\ snap' = Snapshot(h)
                /\ UNCHANGED <<lock, tx>>
    /\ UNCHANGED <<db, committed, redis, op, asOf>>

SetKey(h, step, key, next) ==
    /\ pc[h] = step
    /\ redis' = [redis EXCEPT ![key] = val[h]]
    /\ pc' = [pc EXCEPT ![h] = next]
    /\ UNCHANGED <<db, committed, lock, tx, snap, op, val, asOf>>

SetIdentifier(h) == SetKey(h, "setIdentifier", "identifier", "setClientId")
SetClientId(h) == SetKey(h, "setClientId", "clientId", "setEmail")
SetEmail(h) == SetKey(h, "setEmail", val[h].email, AfterCall(h))

\* A set that answers Err (the shared client is not connected) is logged and
\* the service still returns the user it loaded.
SetSwallowed(h) ==
    /\ "redis" \in Faults
    /\ pc[h] \in SetSteps
    /\ pc' = [pc EXCEPT ![h] = AfterCall(h)]
    /\ UNCHANGED <<db, committed, redis, lock, tx, snap, op, val, asOf>>

\* A get that answers Err, or a client that throws (it was closed meanwhile).
RedisFails(h) ==
    /\ "redis" \in Faults
    /\ pc[h] \in {"lookup", "get"} \cup SetSteps
    /\ ErrorReturn(h)
    /\ UNCHANGED <<db, committed, redis, op, asOf>>

-----------------------------------------------------------------------------
(* The writes. The UPDATE waits for the row lock; it fails a SERIALIZABLE   *)
(* transaction whose snapshot is no longer the committed row.               *)

CanLock(h) == lock \in {"free", h}
Stale(h) == Exists(snap[h]) /\ ~Exists(tx[h]) /\ snap[h] # db

\* The row as the UPDATE finds it once it has the lock.
Current(h) == IF Exists(tx[h]) THEN tx[h] ELSE db

\* Mutants: the next version is counted from the cached copy; the cache is
\* not refreshed before the commit.
WriteFromCachedVersion(h, status, token, email) ==
    /\ CanLock(h) /\ ~Stale(h)
    /\ lock' = h
    /\ tx' = [tx EXCEPT ![h] = [ver |-> val[h].ver + 1, by |-> h,
                                status |-> status, token |-> token, email |-> email]]
    /\ pc' = [pc EXCEPT ![h] = "get"]
    /\ UNCHANGED <<db, committed, redis, snap, op, val, asOf>>

WriteWithoutRefresh(h, status, token, email) ==
    /\ CanLock(h) /\ ~Stale(h)
    /\ lock' = h
    /\ tx' = [tx EXCEPT ![h] = [ver |-> Current(h).ver + 1, by |-> h,
                                status |-> status, token |-> token, email |-> email]]
    /\ pc' = [pc EXCEPT ![h] = "commit"]
    /\ UNCHANGED <<db, committed, redis, snap, op, val, asOf>>

Write(h, status, token, email) ==
    /\ CanLock(h) /\ ~Stale(h)
    /\ lock' = h
    /\ tx' = [tx EXCEPT ![h] = [ver |-> Current(h).ver + 1, by |-> h,
                                status |-> status, token |-> token, email |-> email]]
    /\ pc' = [pc EXCEPT ![h] = "get"]
    /\ UNCHANGED <<db, committed, redis, snap, op, val, asOf>>

\* The five inserts of createUsers.
WriteCreate(h) ==
    /\ pc[h] = "write" /\ op[h] = "create"
    /\ \E email \in Emails : Write(h, "INACTIVE", TRUE, email)

\* The entity updateUsers writes has the status of the cached copy it read.
MappedStatus(h) == val[h].status

WriteUpdate(h) ==
    /\ pc[h] = "write" /\ op[h] = "update" /\ Exists(Current(h))
    /\ \E email \in Emails : Write(h, MappedStatus(h), Current(h).token, email)

\* Mutant: the refresh writes back the cached status.
WriteRefreshCachedStatus(h) ==
    /\ pc[h] = "write" /\ op[h] = "refresh" /\ Exists(Current(h))
    /\ Write(h, val[h].status, Current(h).token, Current(h).email)

\* refreshToken bumps the version of the row that still has the cached status.
WriteRefresh(h) ==
    /\ pc[h] = "write" /\ op[h] = "refresh" /\ Exists(Current(h))
    /\ Current(h).status = val[h].status
    /\ Write(h, Current(h).status, Current(h).token, Current(h).email)

WriteDeactivate(h) ==
    /\ pc[h] = "write" /\ op[h] = "deactivate"
    /\ Write(h, "INACTIVE", Current(h).token, Current(h).email)

\* verifyUsers with a live token activates the user and clears the token.
WriteVerify(h) ==
    /\ pc[h] = "write" /\ op[h] = "verify"
    /\ Write(h, "ACTIVE", FALSE, Current(h).email)

\* verifyUsers with an expired token stores a new one.
WriteReissue(h) ==
    /\ pc[h] = "write" /\ op[h] = "reissue"
    /\ Current(h).status = "INACTIVE"
    /\ Write(h, "INACTIVE", TRUE, Current(h).email)

\* The job marks the verification email as sent.
WriteEmailFlag(h) ==
    /\ pc[h] = "write" /\ op[h] = "emailFlag"
    /\ Current(h).status = "INACTIVE"
    /\ Write(h, "INACTIVE", Current(h).token, Current(h).email)

\* The UPDATE finds no row with the status it asks for, or PostgreSQL refuses
\* to serialize it: then it has ended the transaction itself, whatever the
\* handler does.
WriteFails(h) ==
    /\ pc[h] = "write" /\ CanLock(h)
    /\ \/ Stale(h) /\ Rollback(h)
       \/ /\ op[h] \in {"update", "refresh"} /\ ~Exists(Current(h))
          /\ Rollback(h)
       \/ /\ op[h] = "refresh" /\ Current(h).status # val[h].status
          /\ Rollback(h)
       \/ /\ op[h] \in {"reissue", "emailFlag"} /\ Current(h).status # "INACTIVE"
          /\ ErrorReturn(h)
    /\ UNCHANGED <<db, committed, redis, op, asOf>>

\* commitTransaction and release. The handler has still to answer.
Commit(h) ==
    /\ pc[h] = "commit"
    /\ db' = tx[h]
    /\ committed' = committed \cup {tx[h]}
    /\ pc' = [pc EXCEPT ![h] = "answer"]
    /\ tx' = [tx EXCEPT ![h] = NoRow]
    /\ snap' = [snap EXCEPT ![h] = NoRow]
    /\ val' = [val EXCEPT ![h] = NoRow]
    /\ lock' = FreeLock(h)
    /\ UNCHANGED <<redis, op, asOf>>

\* Mutant: a handler whose response fails runs its update once more.
AnswerRetries(h) ==
    /\ pc[h] = "answer"
    /\ pc' = [pc EXCEPT ![h] = "begin"]
    /\ UNCHANGED <<db, committed, redis, lock, tx, snap, op, val, asOf>>

Answer(h) ==
    /\ pc[h] = "answer"
    /\ pc' = [pc EXCEPT ![h] = "done"]
    /\ UNCHANGED <<db, committed, redis, lock, tx, snap, op, val, asOf>>

\* The publication of createUsers, the encryption of a response or the reply
\* to the commit itself fails, and so may the event of a reissue when its user
\* is no longer inactive: an error is answered for what is committed.
AnswerFails(h) ==
    /\ pc[h] = "answer"
    /\ "service" \in Faults \/ op[h] = "reissue"
    /\ pc' = [pc EXCEPT ![h] = "failed"]
    /\ UNCHANGED <<db, committed, redis, lock, tx, snap, op, val, asOf>>

-----------------------------------------------------------------------------
(* A service of the handler fails (mapping, encryption, an SQL error, the   *)
(* commit itself) or its process dies: PostgreSQL ends the transaction,     *)
(* a leaked one when the process goes.                                      *)
Abort(h) ==
    /\ "service" \in Faults
    /\ pc[h] \in Working \cup {"leaked"}
    /\ Rollback(h)
    /\ UNCHANGED <<db, committed, redis, op, asOf>>

\* deactivateUser encrypts its response between the update and the cache
\* refresh, and returns the error without a rollback.
DeactivateForgets(h) ==
    /\ "service" \in Faults
    /\ op[h] = "deactivate" /\ pc[h] = "get" /\ Written(h)
    /\ Leak(h)
    /\ UNCHANGED <<db, committed, redis, op, asOf>>

-----------------------------------------------------------------------------
Arrive(h) ==
    \/ StartCreate(h) \/ StartGetUser(h) \/ StartUpdate(h) \/ StartRefresh(h)
    \/ StartDeactivate(h) \/ StartVerify(h) \/ StartEmailFlag(h)

CacheCall(h) ==
    \/ GetPrimary(h) \/ CheckVersion(h) \/ LoadUser(h)
    \/ SetIdentifier(h) \/ SetClientId(h) \/ SetEmail(h)

WriteStep(h) ==
    \/ WriteCreate(h) \/ WriteUpdate(h) \/ WriteRefresh(h) \/ WriteDeactivate(h)
    \/ WriteVerify(h) \/ WriteReissue(h) \/ WriteEmailFlag(h) \/ WriteFails(h)

Progress(h) ==
    \/ LookupClientId(h) \/ CheckToken(h)
    \/ BeginClean(h) \/ CacheCall(h) \/ WriteStep(h) \/ Commit(h) \/ Answer(h)

Fault(h) ==
    \/ SetSwallowed(h) \/ RedisFails(h) \/ Abort(h) \/ DeactivateForgets(h)
    \/ AnswerFails(h)

Next == \E h \in Handlers :
    \/ Arrive(h) \/ Progress(h) \/ Fault(h) \/ Elsewhere(h)
    \/ \E l \in Handlers : BeginInherits(h, l) \/ BeginRejected(h, l)

Spec == Init /\ [][Next]_vars

\* A handler that runs keeps running: node resumes it when its await settles.
FairSpec == Spec /\ \A h \in Handlers : WF_vars(Progress(h))

-----------------------------------------------------------------------------
TypeOK ==
    /\ db \in Row \cup {NoRow}
    /\ committed \in SUBSET Row
    /\ redis \in [Keys -> Row \cup {NoRow}]
    /\ lock \in Handlers \cup {"free"}
    /\ tx \in [Handlers -> Row \cup {NoRow}]
    /\ snap \in [Handlers -> Row \cup {NoRow}]
    /\ pc \in [Handlers -> Places]
    /\ op \in [Handlers -> AllOps]
    /\ val \in [Handlers -> Row \cup {NoRow}]
    /\ asOf \in [Handlers -> Nat]

-----------------------------------------------------------------------------
(* What makes the cache correct. *)

\* A version number names one committed row and db is the newest: the row lock
\* and the serialization check keep two transactions from building version
\* v + 1 on the same version v. The version check of the cache rests on it.
VersionNamesOneCommit ==
    /\ db \in committed \cup {NoRow}
    /\ \A r, s \in committed : r.ver = s.ver => r = s
    /\ \A r \in committed : r.ver <= db.ver

\* getUsersByIdentifier never answers with a version older than the one that
\* was committed when the request arrived, whatever redis held and whoever
\* wrote redis meanwhile: what the row-version lookup of the service is for.
ReadsNotStale ==
    \A h \in Handlers : pc[h] = "done" /\ op[h] = "read" => val[h].ver >= asOf[h]

\* A read that returns a row nobody committed returns the row of a handler
\* that failed: the early refresh of a transaction that is still running, or
\* that commits, is never taken for the committed user.
DirtyReadsOnlyOfFailed ==
    \A h \in Handlers : pc[h] = "done" /\ op[h] = "read" =>
        \/ val[h] \in committed
        \/ val[h].by \in Handlers /\ pc[val[h].by] \in {"failed", "leaked"}

-----------------------------------------------------------------------------
(* The inductive invariant behind the three of them. *)

\* A transaction that has written the row holds its lock, alone, and is ahead
\* of the committed row: true across leaks, whoever inherits the connection.
OpenWriteHoldsLock ==
    \A h \in Handlers : Exists(tx[h]) => lock = h /\ tx[h].ver > db.ver

\* What a transaction has written is its handler's own row or the row of the
\* failed handler whose connection it took over.
OpenWriteAuthor ==
    \A h \in Handlers : Exists(tx[h]) =>
        tx[h].by = h \/ (tx[h].by \in Handlers /\ pc[tx[h].by] = "failed")

\* Where a handler is tells whether it has written.
Phases ==
    \A h \in Handlers :
        /\ pc[h] \in {"idle", "lookup", "token", "begin", "answer", "done", "failed"} => ~Exists(tx[h])
        /\ pc[h] = "write" => ~Written(h)
        /\ pc[h] = "commit" => Written(h)
        /\ op[h] \in Serializable /\ Exists(tx[h]) => tx[h].by = h
        /\ op[h] = "read" => ~Exists(tx[h]) /\ pc[h] \notin {"lookup", "token", "begin", "write", "commit", "answer", "leaked"}
        /\ Exists(snap[h]) => snap[h] \in committed

\* A row is settled when it is committed or its handler has given it up.
Settled(r) ==
    r \in committed \/ (r.by \in Handlers /\ pc[r.by] \in {"failed", "leaked"})

\* Every copy in redis or in a handler's hands is settled or is what its
\* writer is about to commit.
Accounted(r) == Settled(r) \/ (r.by \in Handlers /\ r = tx[r.by])
Provenance ==
    /\ \A k \in Keys : Exists(redis[k]) => Accounted(redis[k])
    /\ \A h \in Handlers : Exists(val[h]) => Accounted(val[h])

\* What a plain read has settled on answering.
ReadAnswers ==
    \A h \in Handlers :
        /\ asOf[h] <= db.ver
        /\ op[h] = "read" /\ pc[h] \in SetSteps \cup {"done"} =>
             Exists(val[h]) /\ Settled(val[h]) /\ val[h].ver >= asOf[h]

\* The row lock is always with an open write, of a handler at work or a leaked
\* one: no handler ends and keeps it.
LockIsReturned ==
    lock # "free" => Exists(tx[lock]) /\ pc[lock] \in Working \cup {"leaked"}

IInv ==
    /\ TypeOK
    /\ VersionNamesOneCommit
    /\ OpenWriteHoldsLock
    /\ OpenWriteAuthor
    /\ Phases
    /\ Provenance
    /\ ReadAnswers

-----------------------------------------------------------------------------
(* What a client of the module is promised. *)

GaveUp == {h \in Handlers : pc[h] \in {"failed", "leaked"}}
Pending == {<<h, asOf[h]>> : h \in {k \in Handlers : op[k] = "read" /\ pc[k] \in Working}}
Answered == [h \in Handlers |-> IF op[h] = "read" /\ pc[h] = "done" THEN val[h] ELSE NoRow]

User == INSTANCE VersionedUser WITH
    Clients <- Handlers, Nothing <- NoRow, row <- db, history <- committed,
    gaveUp <- GaveUp, pending <- Pending, answer <- Answered

\* The row, the cache, the transactions and the leaked connections together
\* behave as one versioned user: every request commits at most once, whether it
\* is answered with success or an error or goes on in a leaked transaction,
\* versions grow, and reads are never older than their request.
ImplementsVersionedUser == User!Spec

-----------------------------------------------------------------------------
\* The status changes only by the operations meant to change it: a token
\* refresh, a new email token or the email flag commits over the status it
\* read or not at all, even when a deactivation races it.
StatusChangers == {"update", "deactivate", "verify"}
TokenWritersKeepStatus ==
    [][db'.status # db.status => op[db'.by] \in StatusChangers]_db

\* With nobody at work and every request committed or answered, the keys of
\* the user hold the committed row ("Update Cache Success").
Quiescent == \A h \in Handlers : pc[h] \in {"idle", "answer", "done"}
QuiescentCacheIsFresh ==
    Quiescent /\ Exists(redis["identifier"]) =>
        \A k \in {"identifier", "clientId", db.email} : redis[k] = db

-----------------------------------------------------------------------------
(* The inductive invariants behind these two, on top of IInv. *)

\* What is at work and has not written yet will write, and refresh the keys
\* after that, or fail.
Unwritten == {h \in Handlers : pc[h] \in Working /\ ~Written(h)}

\* Before the refresh of a writer reaches Redis nobody has a copy of its row, so
\* that it cannot take one for a hit.
OwnRowUnseen ==
    \A w \in Handlers : Written(w) /\ pc[w] \in {"get", "check", "load", "setIdentifier"} =>
        /\ \A k \in Keys : redis[k] # tx[w]
        /\ \A h \in Handlers : val[h] = tx[w] => h = w /\ pc[w] = "setIdentifier"

\* The keys follow the refresh of the one writer that is left.
RefreshReachesKeys ==
    \A w \in Handlers : Written(w) =>
        /\ pc[w] \in SetSteps => val[w] = tx[w]
        /\ Unwritten = {} =>
             /\ pc[w] \in {"setClientId", "setEmail", "commit"} => redis["identifier"] = tx[w]
             /\ pc[w] \in {"setEmail", "commit"} => redis["clientId"] = tx[w]
             /\ pc[w] = "commit" => redis[tx[w].email] = tx[w]

\* A handler performs the operation it started with.
OpsOnly == \A h \in Handlers : pc[h] # "idle" => op[h] \in Ops

\* Holds with no reads and no swallowed set.
FreshInv ==
    /\ OpsOnly
    /\ GaveUp = {} => OwnRowUnseen /\ RefreshReachesKeys
    /\ QuiescentCacheIsFresh

\* No transaction is released with the row written, so nobody inherits a row.
OwnWrites == \A h \in Handlers : Exists(tx[h]) => Written(h) /\ pc[h] # "leaked"

\* The user is created before anybody else can have found it, and once.
CreatedFirst ==
    /\ \A h \in Handlers : pc[h] = "lookup" => op[h] \in {"update", "refresh"}
    /\ \A h \in Handlers : pc[h] = "token" => op[h] \in Forgetful
    /\ \A h, k \in Handlers : op[h] = "create" /\ op[k] = "create" => h = k
    /\ \A h \in Handlers : op[h] = "create" /\ pc[h] \in Working => ~Exists(db)
    /\ \A h \in Handlers :
         /\ op[h] # "create"
         /\ \/ Exists(tx[h])
            \/ pc[h] \in SetSteps
            \/ pc[h] = "write" /\ op[h] \notin {"update", "refresh"}
            \/ pc[h] = "begin" /\ op[h] = "deactivate"
         => Exists(db)

\* What is about to be committed by the others has the status of the row.
OthersKeepStatus ==
    \A h \in Handlers : Exists(tx[h]) /\ op[h] \notin StatusChangers => tx[h].status = db.status

\* Holds when no fault makes an error return that forgets a written row.
StatusInv ==
    /\ OpsOnly
    /\ OwnWrites
    /\ CreatedFirst
    /\ OthersKeepStatus

\* With no faults, every copy is committed or is what its writer will commit.
Promised(r) == r \in committed \/ (r.by \in Handlers /\ r = tx[r.by])
CleanCopies ==
    /\ \A k \in Keys : Exists(redis[k]) => Promised(redis[k])
    /\ \A h \in Handlers : Exists(val[h]) => Promised(val[h])

WritersInv == IInv /\ FreshInv /\ StatusInv /\ CleanCopies

\* A rolled-back write is seen by no read ("Rollback Transaction").
RolledBackIsInvisible ==
    \A h \in Handlers : pc[h] = "done" /\ op[h] = "read" => val[h] \in committed

\* updateUsers does not bring an inactive user back ("Forbidden").
UpdateNeverActivates ==
    [][db.status = "INACTIVE" /\ db'.status = "ACTIVE" => op[db'.by] # "update"]_db

\* A verification token works once: a verification commits only over a row
\* whose token is pending ("should_return_false_when_previous_token_is_used").
TokenUsedOnce == [][db'.ver > db.ver /\ op[db'.by] = "verify" => db.token]_db

\* Every request that starts is answered.
EveryRequestAnswered == \A h \in Handlers : (pc[h] \in Working) ~> (pc[h] \in Ended)

=============================================================================
