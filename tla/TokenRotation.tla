----------------------------- MODULE TokenRotation -----------------------------
(***************************************************************************)
(* The refresh token of one signed-in user.  A rotation compares the token *)
(* it is given with the copy of the user under the clientId key, signs a   *)
(* new one, writes it to the row and refreshes the cache inside its        *)
(* transaction, commits and answers.  Reads by identifier fill the same    *)
(* keys meanwhile.  UserCache has the other writers of the row; they keep  *)
(* its token.                                                              *)
(*                                                                         *)
(* A signed token is told apart by the second it was signed in: its claims *)
(* are the user, the role and iat, a whole number of seconds.              *)
(***************************************************************************)
EXTENDS Integers

CONSTANTS
    Rotations, \* the refresh-token requests, each runs once
    Readers,   \* the reads by identifier, each runs once
    MaxSecond  \* the last second of the model

ASSUME RotationsAssumption == Rotations \cap Readers = {} /\ {"signIn", "free"} \cap Rotations = {}
ASSUME MaxSecondAssumption == MaxSecond \in Nat \ {0}

VARIABLES
    db,        \* the committed row
    redis,     \* the keys "identifier" and "clientId"
    lock,      \* the rotation that holds the row lock, or "free"
    tx,        \* the row each open transaction has written
    pc, val,   \* where each request is, the user object in its hands
    presented, \* the token each rotation was given
    signed,    \* the token it signed, 1 before
    replays,   \* history: the rotations given a token that was spent already
    causes     \* history: what went wrong

vars == <<db, redis, lock, tx, pc, val, presented, signed, replays, causes>>

stored == <<db, redis, lock, tx>>
history == <<replays, causes>>

-----------------------------------------------------------------------------
Tokens == 1 .. MaxSecond
Row == [ver : Nat \ {0}, token : Tokens, by : Rotations \cup {"signIn"}]
NoRow == [ver |-> 0, token |-> 1, by |-> "signIn"]
Exists(r) == r.ver # 0

Keys == {"identifier", "clientId"}
Requests == Rotations \cup Readers

SetSteps == {"setIdentifier", "setClientId"}
Open == {"get", "commit"} \cup SetSteps
Working == {"lookup", "write", "check", "load", "answer"} \cup Open
Committed == {"answer", "done", "unanswered"}
Ended == {"done", "refused", "failed", "unanswered"}

\* The tokens ever signed, those clients were given, those that a committed
\* rotation was given.
Issued == {1} \cup {signed[h] : h \in Rotations}
Held == {1} \cup {signed[h] : h \in {k \in Rotations : pc[k] = "done"}}
Spent == {presented[h] : h \in {k \in Rotations : pc[k] \in Committed}}

\* A user that has signed in, its keys filled or lost since.
Init ==
    /\ db = [ver |-> 1, token |-> 1, by |-> "signIn"]
    /\ redis \in {[k \in Keys |-> db], [k \in Keys |-> NoRow]}
    /\ lock = "free"
    /\ tx = [h \in Rotations |-> NoRow]
    /\ pc = [r \in Requests |-> "idle"]
    /\ val = [r \in Requests |-> NoRow]
    /\ presented = [h \in Rotations |-> 1]
    /\ signed = [h \in Rotations |-> 1]
    /\ replays = {}
    /\ causes = {}

-----------------------------------------------------------------------------
Go(r, step) == pc' = [pc EXCEPT ![r] = step]

\* A client sends a token it was given, perhaps one it has used before.
Present(h) ==
    /\ pc[h] = "idle"
    /\ \E t \in Held :
         /\ presented' = [presented EXCEPT ![h] = t]
         /\ replays' = IF t \in Spent THEN replays \cup {h} ELSE replays
    /\ Go(h, "lookup")
    /\ UNCHANGED <<stored, val, signed, causes>>

\* jwt.sign, in a second that is not before the one of any earlier token.
Sign(h, next) ==
    \E second \in Tokens :
        /\ \A t \in Issued : second >= t
        /\ signed' = [signed EXCEPT ![h] = second]
        /\ causes' = IF second \in Issued THEN causes \cup {"sameSecond"} ELSE causes
        /\ Go(h, next)

\* Mutants: the row is never written; the token is only decoded, not compared.
LookupSkipsUpdate(h) ==
    /\ pc[h] = "lookup"
    /\ LET users == redis["clientId"] IN
         IF ~Exists(users)
           THEN Go(h, "failed") /\ UNCHANGED <<signed, causes>>
         ELSE IF users.token # presented[h]
           THEN Go(h, "refused") /\ UNCHANGED <<signed, causes>>
         ELSE Sign(h, "commit")
    /\ UNCHANGED <<stored, val, presented, replays>>

LookupDecodes(h) ==
    /\ pc[h] = "lookup"
    /\ IF ~Exists(redis["clientId"])
         THEN Go(h, "failed") /\ UNCHANGED <<signed, causes>>
         ELSE Sign(h, "write")
    /\ UNCHANGED <<stored, val, presented, replays>>

\* IsValidJwtAndRefreshTokenService: the token is the one of the cached copy.
\* Its own expiry and the one of the row are not looked at.
IsValidRefreshToken(h, users) == users.token = presented[h]

\* GetUsersByClientIdService, then with no more waiting: decrypt, validate,
\* compare, sign.
Lookup(h) ==
    /\ pc[h] = "lookup"
    /\ LET users == redis["clientId"] IN
         IF ~Exists(users)
           THEN Go(h, "failed") /\ UNCHANGED <<signed, causes>>
         ELSE IF ~IsValidRefreshToken(h, users)
           THEN Go(h, "refused") /\ UNCHANGED <<signed, causes>>
         ELSE Sign(h, "write")
    /\ UNCHANGED <<stored, val, presented, replays>>

\* UpdateRefreshTokenDbService: the keys, then the row version, under the
\* locks of the first.
Write(h) ==
    /\ pc[h] = "write"
    /\ lock = "free"
    /\ lock' = h
    /\ tx' = [tx EXCEPT ![h] = [ver |-> db.ver + 1, token |-> signed[h], by |-> h]]
    /\ Go(h, "get")
    /\ UNCHANGED <<db, redis, val, presented, signed, history>>

\* Mutant: any copy is a hit.
RefreshTrusting(h) ==
    /\ pc[h] = "get"
    /\ IF Exists(redis["identifier"])
         THEN Go(h, "commit") /\ UNCHANGED val
         ELSE Go(h, "setIdentifier") /\ val' = [val EXCEPT ![h] = tx[h]]
    /\ UNCHANGED <<stored, presented, signed, history>>

\* UserSharedCacheService inside the transaction: a copy of the version it has
\* just written is a hit. Nobody else changes that version: get, version
\* lookup and load are one step.
Refresh(h) ==
    /\ pc[h] = "get"
    /\ IF redis["identifier"].ver = tx[h].ver
         THEN Go(h, "commit") /\ UNCHANGED val
         ELSE Go(h, "setIdentifier") /\ val' = [val EXCEPT ![h] = tx[h]]
    /\ UNCHANGED <<stored, presented, signed, history>>

\* Mutant: the response is built after the commit and may fail.
CommitThenError(h) ==
    /\ pc[h] = "commit"
    /\ db' = tx[h]
    /\ tx' = [tx EXCEPT ![h] = NoRow]
    /\ lock' = "free"
    /\ Go(h, "failed")
    /\ UNCHANGED <<redis, val, presented, signed, history>>

\* The response is mapped and encrypted, then the transaction commits.
Commit(h) ==
    /\ pc[h] = "commit"
    /\ db' = tx[h]
    /\ tx' = [tx EXCEPT ![h] = NoRow]
    /\ lock' = "free"
    /\ Go(h, "answer")
    /\ UNCHANGED <<redis, val, presented, signed, history>>

Answer(h) ==
    /\ pc[h] = "answer"
    /\ Go(h, "done")
    /\ UNCHANGED <<stored, val, presented, signed, history>>

\* The process or the connection to the client goes after the commit.
AnswerLost(h) ==
    /\ pc[h] = "answer"
    /\ causes' = causes \cup {"answerLost"}
    /\ Go(h, "unanswered")
    /\ UNCHANGED <<stored, val, presented, signed, replays>>

\* Mutant: an error return that forgets the rollback.
FailForgetsRollback(h) ==
    /\ pc[h] \in {"lookup", "write"} \cup Open
    /\ Go(h, "failed")
    /\ UNCHANGED <<db, redis, lock, tx, val, presented, signed, history>>

\* A service answers an error, an await throws, the commit fails or the process
\* dies: the transaction is rolled back, Redis is not.
Fail(h) ==
    /\ pc[h] \in {"lookup", "write"} \cup Open
    /\ causes' = IF \E k \in Keys : Exists(tx[h]) /\ redis[k] = tx[h]
                   THEN causes \cup {"abandoned"} ELSE causes
    /\ tx' = [tx EXCEPT ![h] = NoRow]
    /\ lock' = IF lock = h THEN "free" ELSE lock
    /\ val' = [val EXCEPT ![h] = NoRow]
    /\ Go(h, "failed")
    /\ UNCHANGED <<db, redis, presented, signed, replays>>

-----------------------------------------------------------------------------
(* A read by identifier outside any transaction. *)

ReadGet(r) ==
    /\ pc[r] = "idle"
    /\ val' = [val EXCEPT ![r] = redis["identifier"]]
    /\ Go(r, "check")
    /\ UNCHANGED <<stored, presented, signed, history>>

ReadCheck(r) ==
    /\ pc[r] = "check"
    /\ val' = [val EXCEPT ![r] = NoRow]
    /\ Go(r, IF val[r].ver = db.ver THEN "done" ELSE "load")
    /\ UNCHANGED <<stored, presented, signed, history>>

ReadLoad(r) ==
    /\ pc[r] = "load"
    /\ val' = [val EXCEPT ![r] = db]
    /\ Go(r, "setIdentifier")
    /\ UNCHANGED <<stored, presented, signed, history>>

-----------------------------------------------------------------------------
(* The sets of both. *)

AfterSets(r) == IF r \in Rotations THEN "commit" ELSE "done"

SetIdentifier(r) ==
    /\ pc[r] = "setIdentifier"
    /\ redis' = [redis EXCEPT !["identifier"] = val[r]]
    /\ Go(r, "setClientId")
    /\ UNCHANGED <<db, lock, tx, val, presented, signed, history>>

SetClientId(r) ==
    /\ pc[r] = "setClientId"
    /\ redis' = [redis EXCEPT !["clientId"] = val[r]]
    /\ causes' = IF redis["clientId"].ver > val[r].ver THEN causes \cup {"lateFill"} ELSE causes
    /\ val' = [val EXCEPT ![r] = NoRow]
    /\ Go(r, AfterSets(r))
    /\ UNCHANGED <<db, lock, tx, presented, signed, replays>>

\* A set that answers Err is logged and the rest is skipped.
SetSkipped(r) ==
    /\ pc[r] \in SetSteps
    /\ causes' = causes \cup {"setSkipped"}
    /\ val' = [val EXCEPT ![r] = NoRow]
    /\ Go(r, AfterSets(r))
    /\ UNCHANGED <<stored, presented, signed, replays>>

-----------------------------------------------------------------------------
Next ==
    \/ \E h \in Rotations :
         \/ Present(h) \/ Lookup(h) \/ Write(h) \/ Refresh(h)
         \/ Commit(h) \/ Answer(h) \/ AnswerLost(h) \/ Fail(h)
    \/ \E r \in Readers : ReadGet(r) \/ ReadCheck(r) \/ ReadLoad(r)
    \/ \E r \in Requests : SetIdentifier(r) \/ SetClientId(r) \/ SetSkipped(r)

Spec == Init /\ [][Next]_vars

-----------------------------------------------------------------------------
Causes == {"abandoned", "lateFill", "setSkipped", "sameSecond", "answerLost"}

TypeOK ==
    /\ db \in Row
    /\ redis \in [Keys -> Row \cup {NoRow}]
    /\ lock \in Rotations \cup {"free"}
    /\ tx \in [Rotations -> Row \cup {NoRow}]
    /\ pc \in [Requests -> {"idle"} \cup Working \cup Ended]
    /\ val \in [Requests -> Row \cup {NoRow}]
    /\ presented \in [Rotations -> Tokens]
    /\ signed \in [Rotations -> Tokens]
    /\ replays \in SUBSET Rotations
    /\ causes \in SUBSET Causes

-----------------------------------------------------------------------------
\* The client is not locked out by the rotation itself: the token of the row is
\* in a client's hands or in the answer under way, unless an answer was lost.
LiveTokenIsHeld ==
    \/ db.token \in Held
    \/ \E h \in Rotations : pc[h] = "answer" /\ signed[h] = db.token
    \/ "answerLost" \in causes

Unspoiled == causes \cap {"abandoned", "lateFill", "setSkipped"} = {}

\* The copy the tokens are compared with is the committed row or the row of a
\* transaction that is about to commit, as long as no rotation gave up after
\* its cache refresh, no read filled the key late and no set was skipped.
ComparedCopyIsCurrent ==
    Unspoiled /\ Exists(redis["clientId"]) =>
        \/ redis["clientId"] = db
        \/ \E h \in Rotations : pc[h] = "commit" /\ redis["clientId"] = tx[h]

\* A token is good for one rotation at a time: presented again after a rotation
\* with it has committed, it is refused, unless the compared copy was spoiled
\* or two tokens were signed in one second.
ReplayIsRefused ==
    \A h \in replays :
        pc[h] \in {"write", "answer", "done"} \cup Open =>
            ~Unspoiled \/ "sameSecond" \in causes

-----------------------------------------------------------------------------
(* The inductive invariant behind the three of them. *)

\* The open transaction is the lock holder's, one version ahead.
Transactions ==
    /\ \A h \in Rotations :
         /\ pc[h] \in Open <=> lock = h
         /\ pc[h] \in Open => tx[h] = [ver |-> db.ver + 1, token |-> signed[h], by |-> h]
         /\ pc[h] \notin Open => tx[h] = NoRow
         /\ pc[h] \in SetSteps => val[h] = tx[h]
         /\ pc[h] \notin {"check", "load"}
         /\ pc[h] = "unanswered" => "answerLost" \in causes
    /\ \A r \in Readers :
         /\ pc[r] \in {"idle", "check", "load", "done"} \cup SetSteps
         /\ pc[r] \in SetSteps => Exists(val[r]) /\ (val[r] = db \/ val[r].ver < db.ver)

\* The row's token comes from the sign-in or from the answer of its rotation.
RowAuthor ==
    \/ db = [ver |-> 1, token |-> 1, by |-> "signIn"]
    \/ /\ db.by \in Rotations
       /\ pc[db.by] \in Committed
       /\ db.token = signed[db.by]

\* Past the comparison with a copy that can only have been there.
Passed == {h \in Rotations : pc[h] \in {"write"} \cup Open \cup Committed}

CopiesAreCurrent ==
    /\ ~Exists(redis["clientId"]) => Passed = {} /\ db.ver = 1
    /\ Unspoiled =>
         /\ redis["identifier"].ver <= db.ver
             \/ \E h \in Rotations : pc[h] \in {"setClientId", "commit"} /\ redis["identifier"] = tx[h]
         /\ \A h \in Rotations : pc[h] = "commit" => redis["clientId"] = tx[h]
         /\ ComparedCopyIsCurrent

\* With one token a second, the token of the row and those on their way to it
\* were never spent.
TokensAreFresh ==
    /\ \A h \in Rotations :
         /\ pc[h] \in {"idle", "lookup", "refused"} => signed[h] = 1
         /\ pc[h] # "idle" => presented[h] \in Held
    /\ replays \subseteq {h \in Rotations : pc[h] # "idle" /\ presented[h] \in Spent}
    /\ "sameSecond" \notin causes =>
         /\ \A h \in Passed : signed[h] # 1
         /\ \A h, k \in Rotations : h # k /\ signed[h] = signed[k] => signed[h] = 1
         /\ db.token \notin Spent
         /\ Unspoiled => replays \cap Passed = {}

IInv ==
    /\ TypeOK
    /\ Transactions
    /\ RowAuthor
    /\ CopiesAreCurrent
    /\ TokensAreFresh

================================================================================
