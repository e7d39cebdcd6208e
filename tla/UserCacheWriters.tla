---------------------------- MODULE UserCacheWriters ----------------------------
(***************************************************************************)
(* What the writers of UserCache leave behind: the row lock free, the keys *)
(* on the committed row, the status as it was; each under the faults that  *)
(* cannot break it, for any set of handlers and of addresses.              *)
(***************************************************************************)
EXTENDS UserCacheProofs

-----------------------------------------------------------------------------
(* The shapes of a step of one handler. *)

\* It goes on to another await and writes nothing to the database.
Moves(h) ==
    /\ pc[h] \in Working
    /\ pc' = [pc EXCEPT ![h] = pc'[h]]
    /\ pc'[h] \in Working \/ (pc'[h] = "done" /\ op[h] = "read")
    /\ \A k \in Handlers \ {h} : val'[k] = val[k]
    /\ UNCHANGED <<db, committed, lock, tx, op>>

Writes(h) ==
    /\ pc[h] = "write"
    /\ \E status \in Status, token \in BOOLEAN, email \in Emails : Write(h, status, token, email)

\* It ends with an error.
GivesUp(h) ==
    /\ pc[h] \in Working \cup {"leaked"}
    /\ Rollback(h) \/ Leak(h)
    /\ UNCHANGED <<db, committed, redis, op>>

\* It has committed, and answers with success or with an error.
Responds(h) == Answer(h) \/ AnswerFails(h)

Shape(h) ==
    \/ Arrive(h) \/ Moves(h) \/ Writes(h) \/ GivesUp(h) \/ Commit(h)
    \/ Responds(h) \/ Elsewhere(h)
    \/ \E l \in Handlers : BeginInherits(h, l) \/ BeginRejected(h, l)

LEMMA MoveShape ==
  ASSUME IInv, NEW h \in Handlers,
         \/ LookupClientId(h) \/ CheckToken(h) \/ BeginClean(h)
         \/ CacheCall(h) \/ SetSwallowed(h)
  PROVE  Moves(h) \/ GivesUp(h)
<1>1. pc \in [Handlers -> Places] /\ val \in [Handlers -> Row \cup {NoRow}]
  BY DEF IInv, TypeOK
<1>2. AfterCall(h) \in Working \cup {"done"} /\ (AfterCall(h) = "done" => op[h] = "read")
  BY AfterCallFacts DEF Working
<1>3. CASE LookupClientId(h) \/ CheckToken(h)
  BY <1>1, <1>3 DEF LookupClientId, CheckToken, Moves, GivesUp, Working
<1>4. CASE BeginClean(h)
  BY <1>1, <1>4 DEF BeginClean, AfterBegin, Moves, Working, CallSteps
<1>5. CASE GetPrimary(h)
  BY <1>1, <1>5 DEF GetPrimary, Moves, Working, CallSteps
<1>6. CASE CheckVersion(h)
  <2>1. pc[h] \in Working /\ "load" \in Working
    BY <1>6 DEF CheckVersion, Working, CallSteps
  <2> QED
    BY <1>1, <1>2, <1>6, <2>1 DEF CheckVersion, ErrorReturn, Moves, GivesUp
<1>7. CASE LoadUser(h)
  BY <1>1, <1>7 DEF LoadUser, ErrorReturn, Moves, GivesUp, Working, CallSteps, SetSteps
<1>8. CASE SetIdentifier(h) \/ SetClientId(h) \/ SetEmail(h) \/ SetSwallowed(h)
  BY <1>1, <1>2, <1>8 DEF SetIdentifier, SetClientId, SetEmail, SetKey, SetSwallowed, Moves,
     Working, CallSteps, SetSteps
<1> QED
  BY <1>3, <1>4, <1>5, <1>6, <1>7, <1>8 DEF CacheCall

LEMMA StepShape ==
  ASSUME IInv, Next
  PROVE  \E h \in Handlers : Shape(h)
<1>1. PICK h \in Handlers :
        \/ Arrive(h) \/ Progress(h) \/ Fault(h) \/ Elsewhere(h)
        \/ \E l \in Handlers : BeginInherits(h, l) \/ BeginRejected(h, l)
  BY DEF Next
<1>2. CASE WriteStep(h)
  <2>1. /\ Current(h).status \in Status /\ val[h].status \in Status
        /\ Current(h).token \in BOOLEAN /\ Current(h).email \in Emails
    BY NoRowFacts DEF Current, IInv, TypeOK
  <2>2. CASE WriteFails(h)
    BY <2>2 DEF WriteFails, ErrorReturn, GivesUp, Shape, Working
  <2>3. CASE ~WriteFails(h)
    BY <1>2, <2>1, <2>3 DEF WriteStep, WriteCreate, WriteUpdate, MappedStatus, WriteRefresh,
       WriteDeactivate, WriteVerify, WriteReissue, WriteEmailFlag, Writes, Shape, Status
  <2> QED
    BY <2>2, <2>3
<1>3. CASE LookupClientId(h) \/ CheckToken(h) \/ BeginClean(h) \/ CacheCall(h) \/ SetSwallowed(h)
  BY <1>3, MoveShape DEF Shape
<1>4. CASE RedisFails(h) \/ Abort(h) \/ DeactivateForgets(h)
  BY <1>4 DEF RedisFails, Abort, DeactivateForgets, ErrorReturn, GivesUp, Shape, Working,
     CallSteps, SetSteps
<1> QED
  BY <1>1, <1>2, <1>3, <1>4 DEF Progress, Fault, Shape, Responds

-----------------------------------------------------------------------------
(* The row lock. *)

\* The lock goes with the open write, wherever that goes.
LEMMA LockStep ==
  ASSUME IInv, LockIsReturned, Next
  PROVE  LockIsReturned'
<1> USE NoRowFacts, HandlersAssumption
<1>1. PICK h \in Handlers : Shape(h)
  BY StepShape
<1>2. /\ pc \in [Handlers -> Places]
      /\ tx \in [Handlers -> Row \cup {NoRow}]
      /\ lock \in Handlers \cup {"free"}
      /\ Phases
      /\ "leaked" \notin Working /\ "idle" \notin Working
      /\ {"get", "write"} \subseteq Working
  BY DEF IInv, TypeOK, Working, CallSteps, SetSteps
<1>3. CASE Arrive(h)
  BY <1>2, <1>3 DEF LockIsReturned, Arrive, Start, StartCreate, StartGetUser, StartUpdate,
     StartRefresh, StartDeactivate, StartVerify, StartEmailFlag
<1>4. CASE Moves(h)
  BY <1>2, <1>4 DEF LockIsReturned, Moves, Phases
<1>5. CASE GivesUp(h)
  BY <1>2, <1>5 DEF LockIsReturned, GivesUp, Rollback, Leak, FreeLock
<1>6. CASE Writes(h)
  <2>1. /\ tx' = [tx EXCEPT ![h] = tx'[h]] /\ tx'[h].ver = Current(h).ver + 1
        /\ lock' = h /\ pc' = [pc EXCEPT ![h] = "get"]
    BY <1>2, <1>6 DEF Writes, Write
  <2>2. Current(h).ver \in Nat
    BY DEF Current, IInv, TypeOK
  <2> QED
    BY <1>2, <2>1, <2>2 DEF LockIsReturned, Exists
<1>7. CASE Commit(h)
  BY <1>2, <1>7 DEF LockIsReturned, Commit, FreeLock
<1>8. ASSUME NEW l \in Handlers, BeginInherits(h, l)
      PROVE  LockIsReturned'
  BY <1>2, <1>8 DEF LockIsReturned, BeginInherits, AfterBegin, Leaked, Phases
<1>9. ASSUME NEW l \in Handlers, BeginRejected(h, l)
      PROVE  LockIsReturned'
  BY <1>2, <1>9 DEF LockIsReturned, BeginRejected, FreeLock, Leaked, Phases
<1>10. CASE Responds(h)
  BY <1>2, <1>10 DEF LockIsReturned, Responds, Answer, AnswerFails, Phases
<1>11. CASE Elsewhere(h)
  BY <1>2, <1>11 DEF LockIsReturned, Elsewhere, FreeLock
<1> QED
  BY <1>1, <1>3, <1>4, <1>5, <1>6, <1>7, <1>8, <1>9, <1>10, <1>11 DEF Shape

\* The row lock is never left behind: who holds it is at work with the row
\* written, or gave its connection back with the transaction open.
THEOREM LockIsNotOrphaned == Spec => []LockIsReturned
<1>1. Init => LockIsReturned
  BY DEF Init, LockIsReturned
<1>2. IInv /\ LockIsReturned /\ [Next]_vars => LockIsReturned'
  <2>1. CASE UNCHANGED vars
    BY <2>1 DEF vars, LockIsReturned, Exists
  <2> QED
    BY <2>1, LockStep
<1> QED
  BY <1>1, <1>2, Inductive, PTL DEF Spec

-----------------------------------------------------------------------------
(* What a writer can find, while nobody has given up. *)

LEMMA Untroubled ==
  ASSUME IInv, GaveUp = {}
  PROVE  /\ Leaked = {}
         /\ \A h \in Handlers : Exists(tx[h]) => Written(h) /\ lock = h /\ tx[h].ver > db.ver
         /\ \A g, h \in Handlers : Written(g) /\ Written(h) => g = h
         /\ \A r : Exists(r) /\ Accounted(r) => Promised(r)
         /\ \A r \in committed : r.ver <= db.ver /\ Exists(r)
<1> USE NoRowFacts DEF IInv
<1>1. Leaked = {}
  BY DEF GaveUp, Leaked
<1>2. \A h \in Handlers : Exists(tx[h]) => Written(h) /\ lock = h /\ tx[h].ver > db.ver
  BY DEF OpenWriteHoldsLock, OpenWriteAuthor, GaveUp, Written
<1>3. \A g, h \in Handlers : Written(g) /\ Written(h) => g = h
  BY <1>2 DEF Written
<1>4. \A r : Accounted(r) => Promised(r)
  BY DEF Accounted, Settled, Promised, GaveUp
<1>5. \A r \in committed : r.ver <= db.ver /\ Exists(r)
  BY DEF VersionNamesOneCommit, TypeOK
<1> QED
  BY <1>1, <1>2, <1>3, <1>4, <1>5

\* In its transaction a writer sees its row; everybody else sees a committed
\* one or none.
LEMMA UntroubledQuery ==
  ASSUME IInv, GaveUp = {}, NEW h \in Handlers, NEW row \in Views(h)
  PROVE  /\ Written(h) => row = tx[h]
         /\ ~Written(h) /\ Exists(row) => row \in committed
<1> USE NoRowFacts DEF IInv
<1>1. Leaked = {} /\ (Exists(tx[h]) => Written(h))
  BY Untroubled
<1>2. /\ Exists(db) => db \in committed
      /\ Exists(snap[h]) => snap[h] \in committed
  BY DEF VersionNamesOneCommit, Phases
<1>3. Written(h) => InTx(h) /\ Exists(tx[h])
  BY DEF InTx, Written
<1> QED
  BY <1>1, <1>2, <1>3 DEF Views, TxView

\* The refresh of a writer is never a hit.
LEMMA WriterMisses ==
  ASSUME IInv, GaveUp = {}, OwnRowUnseen, NEW h \in Handlers, Written(h), pc[h] = "check"
  PROVE  val[h].ver # tx[h].ver
<1> USE NoRowFacts DEF IInv
<1>1. /\ tx[h] \in Row /\ tx[h].ver > db.ver /\ tx[h].ver \in Nat /\ db.ver \in Nat
      /\ val[h] \in Row \cup {NoRow}
  BY Untroubled DEF TypeOK, Written
<1>2. SUFFICES ASSUME val[h].ver = tx[h].ver
               PROVE  FALSE
  OBVIOUS
<1>3. Exists(val[h]) /\ Promised(val[h])
  BY <1>1, <1>2, Untroubled DEF Exists, Provenance
<1>4. val[h] \notin committed
  BY <1>1, <1>2, Untroubled
<1>5. val[h].by \in Handlers /\ val[h] = tx[val[h].by] /\ Exists(tx[val[h].by])
  BY <1>3, <1>4 DEF Promised
<1>6. val[h].by = h
  BY <1>5, Untroubled
<1> QED
  BY <1>5, <1>6 DEF OwnRowUnseen

-----------------------------------------------------------------------------
(* The keys end on the committed row. *)

\* An error stays an error.
LEMMA GaveUpGrows ==
  ASSUME IInv, Next
  PROVE  GaveUp \subseteq GaveUp'
<1>1. PICK h \in Handlers : Shape(h)
  BY StepShape
<1>2. /\ pc \in [Handlers -> Places]
      /\ {"idle", "failed", "leaked"} \cap Working = {}
      /\ {"begin", "commit", "write"} \subseteq Working
  BY DEF IInv, TypeOK, Working, CallSteps, SetSteps
<1>3. CASE Arrive(h)
  BY <1>2, <1>3 DEF GaveUp, Arrive, Start, StartCreate, StartGetUser, StartUpdate,
     StartRefresh, StartDeactivate, StartVerify, StartEmailFlag
<1>4. CASE Moves(h) \/ Commit(h) \/ Writes(h)
  BY <1>2, <1>4 DEF GaveUp, Moves, Commit, Writes, Write
<1>5. CASE GivesUp(h)
  BY <1>2, <1>5 DEF GaveUp, GivesUp, Rollback, Leak
<1>6. ASSUME NEW l \in Handlers, BeginInherits(h, l) \/ BeginRejected(h, l)
      PROVE  GaveUp \subseteq GaveUp'
  BY <1>2, <1>6 DEF GaveUp, BeginInherits, BeginRejected, Leaked
<1>7. CASE Responds(h) \/ Elsewhere(h)
  BY <1>2, <1>7 DEF GaveUp, Responds, Answer, AnswerFails, Elsewhere
<1> QED
  BY <1>1, <1>3, <1>4, <1>5, <1>6, <1>7 DEF Shape

\* A handler keeps the operation it started with.
LEMMA OpsStep ==
  ASSUME IInv, OpsOnly, Next
  PROVE  OpsOnly'
<1>1. PICK h \in Handlers : Shape(h)
  BY StepShape
<1>2. /\ pc \in [Handlers -> Places]
      /\ op \in [Handlers -> AllOps]
      /\ {"idle", "leaked"} \cap Working = {}
      /\ {"begin", "commit", "write"} \subseteq Working
  BY DEF IInv, TypeOK, Working, CallSteps, SetSteps
<1>3. CASE Arrive(h)
  BY <1>2, <1>3 DEF OpsOnly, Arrive, Start, StartCreate, StartGetUser, StartUpdate,
     StartRefresh, StartDeactivate, StartVerify, StartEmailFlag
<1>4. CASE Moves(h) \/ Commit(h) \/ Writes(h)
  BY <1>2, <1>4 DEF OpsOnly, Moves, Commit, Writes, Write
<1>5. CASE GivesUp(h)
  BY <1>2, <1>5 DEF OpsOnly, GivesUp, Rollback, Leak
<1>6. ASSUME NEW l \in Handlers, BeginInherits(h, l) \/ BeginRejected(h, l)
      PROVE  OpsOnly'
  BY <1>2, <1>6 DEF OpsOnly, BeginInherits, BeginRejected, Leaked
<1>7. CASE Responds(h) \/ Elsewhere(h)
  BY <1>2, <1>7 DEF OpsOnly, Responds, Answer, AnswerFails, Elsewhere
<1> QED
  BY <1>1, <1>3, <1>4, <1>5, <1>6, <1>7 DEF Shape

\* A step of a handler that writes nothing to the database: its own row stays
\* unseen until it sets it, and only it can load it.
LEMMA UnseenMove ==
  ASSUME IInv, GaveUp = {}, OwnRowUnseen, NEW h \in Handlers, Moves(h), val' = [val EXCEPT ![h] = val'[h]],
         Written(h) => pc'[h] \notin {"get", "check", "load", "setIdentifier"}
                       \/ (pc[h] \in {"get", "check", "load"} /\ redis' = redis
                           /\ (pc'[h] # "setIdentifier" => val'[h] = val[h] \/ val'[h] = redis["identifier"])),
         ~Written(h) => \/ val'[h] = val[h] \/ val'[h] \in committed \/ ~Exists(val'[h])
                        \/ \E k \in Keys : val'[h] = redis[k],
         \/ redis' = redis
         \/ pc[h] \in SetSteps /\ \E k \in Keys : redis' = [redis EXCEPT ![k] = val[h]]
  PROVE  OwnRowUnseen'
<1> USE NoRowFacts, EmailsAssumption
<1>1. /\ pc \in [Handlers -> Places]
      /\ tx \in [Handlers -> Row \cup {NoRow}]
      /\ val \in [Handlers -> Row \cup {NoRow}]
      /\ redis \in [Keys -> Row \cup {NoRow}]
      /\ db.ver \in Nat
      /\ "identifier" \in Keys
  BY DEF IInv, TypeOK, Keys
<1>2. \A k \in Handlers : Written(k)' <=> Written(k)
  BY DEF Moves, Written, Exists
<1> SUFFICES ASSUME NEW w \in Handlers, Written(w),
                    pc'[w] \in {"get", "check", "load", "setIdentifier"}
             PROVE  /\ \A k \in Keys : redis'[k] # tx[w]
                    /\ \A g \in Handlers : val'[g] = tx[w] => g = w /\ pc'[w] = "setIdentifier"
  BY <1>2 DEF OwnRowUnseen, Moves
<1>3. Exists(tx[w]) /\ tx[w] \notin committed
  <2>1. Exists(tx[w]) /\ tx[w].ver > db.ver /\ tx[w] \in Row
    BY <1>1, Untroubled DEF Written
  <2>2. \A r \in committed : r.ver <= db.ver
    BY Untroubled
  <2> QED
    BY <1>1, <2>1, <2>2
<1>4. CASE w = h
  <2>1. pc[h] \in {"get", "check", "load"} /\ redis' = redis
    BY <1>4
  <2>2. \A k \in Keys : redis[k] # tx[w]
    BY <1>4, <2>1 DEF OwnRowUnseen
  <2>3. \A g \in Handlers : val[g] # tx[w]
    BY <1>4, <2>1 DEF OwnRowUnseen
  <2>4. \A g \in Handlers : g # h => val'[g] = val[g]
    BY <1>1
  <2>5. pc'[h] # "setIdentifier" => val'[h] # tx[w]
    BY <1>1, <1>4, <2>1, <2>2, <2>3
  <2> QED
    BY <1>1, <1>4, <2>1, <2>2, <2>3, <2>4, <2>5
<1>5. CASE w # h
  <2>1. pc'[w] = pc[w] /\ ~Written(h)
    BY <1>1, <1>5, Untroubled DEF Moves
  <2>2. /\ \A k \in Keys : redis[k] # tx[w]
        /\ \A g \in Handlers : val[g] = tx[w] => g = w /\ pc[w] = "setIdentifier"
    BY <2>1 DEF OwnRowUnseen
  <2>3. val[h] # tx[w]
    BY <1>5, <2>2
  <2>4. val'[h] # tx[w]
    BY <1>3, <2>1, <2>2, <2>3
  <2>5. \A k \in Keys : redis'[k] # tx[w]
    BY <1>1, <2>2, <2>3
  <2>6. \A g \in Handlers : g # h => val'[g] = val[g]
    BY <1>1
  <2> QED
    BY <2>1, <2>2, <2>4, <2>5, <2>6
<1> QED
  BY <1>4, <1>5

FreshKeys == OwnRowUnseen /\ RefreshReachesKeys /\ QuiescentCacheIsFresh

\* A handler that has not written yet still will: nothing is asked of the keys.
LEMMA UnwrittenMove ==
  ASSUME IInv, GaveUp = {}, FreshInv, "read" \notin Ops, NEW h \in Handlers, Moves(h),
         val' = [val EXCEPT ![h] = val'[h]], ~Written(h),
         \/ val'[h] = val[h] \/ val'[h] \in committed \/ ~Exists(val'[h])
         \/ \E k \in Keys : val'[h] = redis[k],
         \/ redis' = redis
         \/ pc[h] \in SetSteps /\ \E k \in Keys : redis' = [redis EXCEPT ![k] = val[h]]
  PROVE  FreshKeys'
<1>1. OwnRowUnseen'
  BY UnseenMove DEF FreshInv
<1>2. /\ pc \in [Handlers -> Places]
      /\ {"idle", "answer", "done"} \cap Working = {}
  BY DEF IInv, TypeOK, Working, CallSteps, SetSteps
<1>3. pc'[h] \in Working
  BY <1>2 DEF Moves, FreshInv, OpsOnly
<1>4. ~Written(h)'
  BY DEF Moves, Written, Exists
<1>5. h \in Unwritten' /\ ~Quiescent'
  BY <1>2, <1>3, <1>4 DEF Unwritten, Quiescent
<1>6. RefreshReachesKeys'
  <2> SUFFICES ASSUME NEW w \in Handlers, Written(w)', pc'[w] \in SetSteps
               PROVE  val'[w] = tx'[w]
    BY <1>5 DEF RefreshReachesKeys
  <2>1. w # h
    BY <1>4
  <2>2. Written(w) /\ pc[w] \in SetSteps /\ val'[w] = val[w] /\ tx' = tx
    BY <1>2, <2>1 DEF Moves, Written, Exists
  <2> QED
    BY <2>2 DEF FreshInv, RefreshReachesKeys
<1> QED
  BY <1>1, <1>5, <1>6 DEF FreshKeys, QuiescentCacheIsFresh


\* What the refresh of the writer has reached.
Reached(h) ==
    /\ pc[h] \in SetSteps => val[h] = tx[h]
    /\ Unwritten = {} =>
         /\ pc[h] \in {"setClientId", "setEmail", "commit"} => redis["identifier"] = tx[h]
         /\ pc[h] \in {"setEmail", "commit"} => redis["clientId"] = tx[h]
         /\ pc[h] = "commit" => redis[tx[h].email] = tx[h]

LEMMA WrittenMove ==
  ASSUME IInv, GaveUp = {}, FreshInv, "read" \notin Ops, NEW h \in Handlers, Moves(h),
         val' = [val EXCEPT ![h] = val'[h]], Written(h),
         pc'[h] \notin {"get", "check", "load", "setIdentifier"}
           \/ (pc[h] \in {"get", "check", "load"} /\ redis' = redis
               /\ (pc'[h] # "setIdentifier" => val'[h] = val[h] \/ val'[h] = redis["identifier"])),
         \/ redis' = redis
         \/ pc[h] \in SetSteps /\ \E k \in Keys : redis' = [redis EXCEPT ![k] = val[h]],
         Unwritten' = Unwritten => Reached(h)'
  PROVE  FreshKeys'
<1>1. OwnRowUnseen'
  BY UnseenMove DEF FreshInv
<1>2. /\ pc \in [Handlers -> Places]
      /\ {"idle", "answer", "done"} \cap Working = {}
  BY DEF IInv, TypeOK, Working, CallSteps, SetSteps
<1>3. pc'[h] \in Working
  BY <1>2 DEF Moves, FreshInv, OpsOnly
<1>4. ~Quiescent'
  BY <1>2, <1>3 DEF Quiescent
<1>5. \A k \in Handlers : Written(k)' <=> Written(k)
  BY DEF Moves, Written, Exists
<1>6. Unwritten' = Unwritten
  BY <1>2, <1>3, <1>5 DEF Unwritten, Moves
<1>7. \A w \in Handlers : Written(w)' => w = h
  BY <1>5, Untroubled
<1>8. RefreshReachesKeys'
  BY <1>6, <1>7 DEF RefreshReachesKeys, Reached
<1> QED
  BY <1>1, <1>4, <1>8 DEF FreshKeys, QuiescentCacheIsFresh

LEMMA ReadCacheFresh ==
  ASSUME IInv, GaveUp = {}, GaveUp' = {}, FreshInv, "read" \notin Ops, NEW h \in Handlers,
         Moves(h), LookupClientId(h) \/ CheckToken(h) \/ BeginClean(h) \/ GetPrimary(h)
  PROVE  FreshKeys'
<1> USE NoRowFacts DEF FreshKeys
<1>1. /\ pc \in [Handlers -> Places]
      /\ val \in [Handlers -> Row \cup {NoRow}]
      /\ {"identifier", "clientId"} \subseteq Keys
      /\ pc' = [pc EXCEPT ![h] = pc'[h]]
  BY DEF IInv, TypeOK, Keys, Moves
<1>2. pc[h] \in {"lookup", "token", "begin"} => ~Written(h)
  BY DEF IInv, Phases, Written
<1>3. pc'[h] \notin {"failed", "leaked"}
  BY <1>1 DEF GaveUp
<1>4. CASE LookupClientId(h)
  BY <1>1, <1>2, <1>3, <1>4, UnwrittenMove DEF LookupClientId, Rollback
<1>5. CASE CheckToken(h)
  BY <1>1, <1>2, <1>3, <1>5, UnwrittenMove DEF CheckToken, Rollback
<1>6. CASE BeginClean(h)
  BY <1>1, <1>2, <1>6, UnwrittenMove DEF BeginClean
<1>7. CASE GetPrimary(h) /\ ~Written(h)
  BY <1>1, <1>7, UnwrittenMove DEF GetPrimary
<1>8. CASE GetPrimary(h) /\ Written(h)
  <2>1. /\ pc[h] = "get" /\ redis' = redis /\ val'[h] = redis["identifier"]
        /\ val' = [val EXCEPT ![h] = val'[h]] /\ pc'[h] \in {"check", "load"}
    BY <1>1, <1>8 DEF GetPrimary
  <2>2. Reached(h)'
    BY <2>1 DEF Reached, SetSteps
  <2> QED
    BY <1>8, <2>1, <2>2, WrittenMove
<1> QED
  BY <1>4, <1>5, <1>6, <1>7, <1>8

LEMMA CheckFresh ==
  ASSUME IInv, GaveUp = {}, GaveUp' = {}, FreshInv, "read" \notin Ops, NEW h \in Handlers,
         Moves(h), CheckVersion(h)
  PROVE  FreshKeys'
<1> USE NoRowFacts DEF FreshKeys
<1>1. /\ pc \in [Handlers -> Places]
      /\ val \in [Handlers -> Row \cup {NoRow}]
      /\ pc' = [pc EXCEPT ![h] = pc'[h]]
  BY DEF IInv, TypeOK, Moves
<1>2. PICK row \in Views(h) :
        /\ pc'[h] = IF row.ver = val[h].ver THEN AfterCall(h) ELSE "load"
        /\ val' = val /\ redis' = redis /\ pc[h] = "check"
  BY <1>1 DEF CheckVersion, ErrorReturn, Rollback, Leak, GaveUp
<1>3. val' = [val EXCEPT ![h] = val'[h]]
  BY <1>1, <1>2
<1>4. CASE ~Written(h)
  BY <1>2, <1>3, <1>4, UnwrittenMove
<1>5. CASE Written(h)
  <2>1. pc'[h] = "load"
    BY <1>2, <1>5, UntroubledQuery, WriterMisses DEF FreshInv
  <2>2. Reached(h)'
    BY <2>1 DEF Reached, SetSteps
  <2> QED
    BY <1>2, <1>3, <1>5, <2>1, <2>2, WrittenMove
<1> QED
  BY <1>4, <1>5

LEMMA LoadFresh ==
  ASSUME IInv, GaveUp = {}, GaveUp' = {}, FreshInv, "read" \notin Ops, NEW h \in Handlers,
         Moves(h), LoadUser(h)
  PROVE  FreshKeys'
<1> USE NoRowFacts DEF FreshKeys
<1>1. /\ pc \in [Handlers -> Places]
      /\ val \in [Handlers -> Row \cup {NoRow}]
      /\ pc' = [pc EXCEPT ![h] = pc'[h]]
  BY DEF IInv, TypeOK, Moves
<1>2. PICK row \in Views(h) :
        /\ pc[h] = "load" /\ pc'[h] = "setIdentifier"
        /\ val' = [val EXCEPT ![h] = row] /\ redis' = redis
        /\ Exists(row)
  BY <1>1 DEF LoadUser, Found, ErrorReturn, Rollback, Leak, GaveUp
<1>3. val' = [val EXCEPT ![h] = val'[h]] /\ val'[h] = row
  BY <1>1, <1>2
<1>4. CASE ~Written(h)
  BY <1>2, <1>3, <1>4, UntroubledQuery, UnwrittenMove
<1>5. CASE Written(h)
  <2>1. val'[h] = tx'[h]
    BY <1>3, <1>5, UntroubledQuery DEF Moves
  <2>2. Reached(h)'
    BY <1>2, <2>1 DEF Reached
  <2> QED
    BY <1>2, <1>3, <1>5, <2>2, WrittenMove
<1> QED
  BY <1>4, <1>5

LEMMA SetFresh ==
  ASSUME IInv, GaveUp = {}, FreshInv, "read" \notin Ops, NEW h \in Handlers,
         Moves(h), SetIdentifier(h) \/ SetClientId(h) \/ SetEmail(h)
  PROVE  FreshKeys'
<1> USE NoRowFacts, EmailsAssumption DEF FreshKeys
<1>1. /\ pc \in [Handlers -> Places]
      /\ val \in [Handlers -> Row \cup {NoRow}]
      /\ redis \in [Keys -> Row \cup {NoRow}]
      /\ pc' = [pc EXCEPT ![h] = pc'[h]]
      /\ val' = [val EXCEPT ![h] = val'[h]] /\ val'[h] = val[h]
  BY DEF IInv, TypeOK, Moves, SetIdentifier, SetClientId, SetEmail, SetKey
<1>2. val[h].email \in Emails /\ Keys = {"identifier", "clientId"} \cup Emails
  BY <1>1 DEF Keys
<1>3. /\ pc[h] \in SetSteps
      /\ \E k \in Keys : redis' = [redis EXCEPT ![k] = val[h]]
  BY <1>2 DEF SetIdentifier, SetClientId, SetEmail, SetKey, SetSteps
<1>4. CASE ~Written(h)
  BY <1>1, <1>3, <1>4, UnwrittenMove
<1>5. CASE Written(h)
  <2>1. Reached(h) /\ val[h] = tx[h] /\ tx' = tx
    BY <1>3, <1>5 DEF FreshInv, RefreshReachesKeys, Reached, Moves
  <2>2. AfterCall(h) = "commit"
    BY <1>5 DEF AfterCall
  <2>3. CASE SetIdentifier(h)
    <3>1. pc'[h] = "setClientId" /\ redis'["identifier"] = val[h]
      BY <1>1, <1>2, <2>3 DEF SetIdentifier, SetKey
    <3> QED
      BY <1>1, <1>3, <1>5, <2>1, <3>1, WrittenMove DEF Reached
  <2>4. CASE SetClientId(h)
    <3>1. /\ pc[h] = "setClientId" /\ pc'[h] = "setEmail"
          /\ redis'["clientId"] = val[h] /\ redis'["identifier"] = redis["identifier"]
      BY <1>1, <1>2, <2>4 DEF SetClientId, SetKey
    <3> QED
      BY <1>1, <1>3, <1>5, <2>1, <3>1, WrittenMove DEF Reached
  <2>5. CASE SetEmail(h)
    <3>1. /\ pc[h] = "setEmail" /\ pc'[h] = "commit" /\ redis'[val[h].email] = val[h]
          /\ redis'["clientId"] = redis["clientId"] /\ redis'["identifier"] = redis["identifier"]
      BY <1>1, <1>2, <2>2, <2>5 DEF SetEmail, SetKey
    <3> QED
      BY <1>1, <1>3, <1>5, <2>1, <3>1, WrittenMove DEF Reached
  <2> QED
    BY <2>3, <2>4, <2>5
<1> QED
  BY <1>4, <1>5


\* A new row is ahead of every copy.
LEMMA WriteFresh ==
  ASSUME IInv, GaveUp = {}, FreshInv, NEW h \in Handlers, Writes(h)
  PROVE  FreshKeys'
<1> USE NoRowFacts, HandlersAssumption DEF FreshKeys
<1>1. /\ pc \in [Handlers -> Places]
      /\ val \in [Handlers -> Row \cup {NoRow}]
      /\ redis \in [Keys -> Row \cup {NoRow}]
      /\ tx \in [Handlers -> Row \cup {NoRow}]
      /\ db \in Row \cup {NoRow} /\ db.ver \in Nat
  BY DEF IInv, TypeOK
<1> DEFINE new == tx'[h]
<1>2. /\ tx' = [tx EXCEPT ![h] = new] /\ new.ver = Current(h).ver + 1 /\ new.by = h
      /\ pc' = [pc EXCEPT ![h] = "get"] /\ lock \in {"free", h}
      /\ UNCHANGED <<db, committed, redis, val>>
  BY <1>1 DEF Writes, Write, CanLock
<1> HIDE DEF new
<1>3. \A k \in Handlers : ~Exists(tx[k])
  BY <1>2, Untroubled DEF IInv, Phases, Writes, HandlersAssumption
<1>4. new.ver = db.ver + 1
  BY <1>2, <1>3 DEF Current
<1>5. \A r \in Row \cup {NoRow} : (Exists(r) => Accounted(r)) => r # new
  <2> SUFFICES ASSUME NEW r \in Row \cup {NoRow}, Exists(r) => Accounted(r), r = new
               PROVE  FALSE
    OBVIOUS
  <2>1. Exists(r)
    BY <1>1, <1>4 DEF Exists
  <2>2. r \in committed
    BY <1>3, <2>1, Untroubled DEF Promised
  <2> QED
    BY <1>1, <1>4, <2>2, Untroubled
<1>6. \A k \in Keys : redis[k] # new
  BY <1>1, <1>5 DEF IInv, Provenance
<1>7. \A k \in Handlers : val[k] # new
  BY <1>1, <1>5 DEF IInv, Provenance
<1>8. \A w \in Handlers : Written(w)' => w = h
  BY <1>1, <1>2, <1>3 DEF Written, Exists
<1>9. OwnRowUnseen'
  BY <1>2, <1>6, <1>7, <1>8 DEF OwnRowUnseen, new
<1>10. RefreshReachesKeys'
  BY <1>1, <1>2, <1>8 DEF RefreshReachesKeys, SetSteps
<1>11. ~Quiescent'
  BY <1>1, <1>2 DEF Quiescent
<1> QED
  BY <1>9, <1>10, <1>11 DEF QuiescentCacheIsFresh

\* The last commit makes the row what the keys hold.
LEMMA CommitFresh ==
  ASSUME IInv, GaveUp = {}, FreshInv, NEW h \in Handlers, Commit(h)
  PROVE  FreshKeys'
<1> USE NoRowFacts, HandlersAssumption DEF FreshKeys
<1>1. /\ pc \in [Handlers -> Places]
      /\ tx \in [Handlers -> Row \cup {NoRow}]
      /\ {"idle", "answer", "done"} \cap Working = {} /\ "commit" \in Working
  BY DEF IInv, TypeOK, Working, CallSteps, SetSteps
<1>2. /\ Written(h) /\ pc[h] = "commit" /\ pc' = [pc EXCEPT ![h] = "answer"]
      /\ db' = tx[h] /\ redis' = redis /\ tx' = [tx EXCEPT ![h] = NoRow]
  BY DEF Commit, IInv, Phases
<1>3. \A w \in Handlers : ~Written(w)'
  BY <1>1, <1>2, Untroubled DEF Written, Exists
<1>4. ASSUME Quiescent'
      PROVE  \A k \in {"identifier", "clientId", db'.email} : redis'[k] = db'
  <2>1. \A k \in Handlers : k # h => pc[k] \notin Working
    BY <1>1, <1>2, <1>4 DEF Quiescent
  <2>2. Unwritten = {}
    BY <1>2, <2>1 DEF Unwritten
  <2> QED
    BY <1>2, <2>2 DEF FreshInv, RefreshReachesKeys
<1> QED
  BY <1>3, <1>4 DEF OwnRowUnseen, RefreshReachesKeys, QuiescentCacheIsFresh

LEMMA ArriveFresh ==
  ASSUME IInv, GaveUp = {}, FreshInv, NEW h \in Handlers, Arrive(h)
  PROVE  FreshKeys'
<1> USE DEF FreshKeys
<1>1. /\ pc \in [Handlers -> Places]
      /\ {"idle", "answer", "done"} \cap Working = {}
      /\ {"get", "lookup", "token", "begin"} \subseteq Working
  BY DEF IInv, TypeOK, Working, CallSteps, SetSteps
<1>2. /\ pc[h] = "idle" /\ pc' = [pc EXCEPT ![h] = pc'[h]]
      /\ pc'[h] \in {"get", "lookup", "token", "begin"}
      /\ UNCHANGED <<db, redis, tx, val>>
  BY <1>1 DEF Arrive, Start, StartCreate, StartGetUser, StartUpdate, StartRefresh,
     StartDeactivate, StartVerify, StartEmailFlag
<1>3. ~Written(h)
  BY <1>2 DEF IInv, Phases, Written
<1>4. \A w \in Handlers : Written(w)' => Written(w) /\ w # h /\ pc'[w] = pc[w]
  BY <1>1, <1>2, <1>3 DEF Written, Exists
<1>5. h \in Unwritten' /\ ~Quiescent'
  BY <1>1, <1>2, <1>4 DEF Unwritten, Quiescent
<1>6. OwnRowUnseen'
  BY <1>2, <1>4 DEF FreshInv, OwnRowUnseen
<1>7. RefreshReachesKeys'
  BY <1>2, <1>4, <1>5 DEF FreshInv, RefreshReachesKeys
<1> QED
  BY <1>5, <1>6, <1>7 DEF QuiescentCacheIsFresh

\* The response of a handler moves nothing.
LEMMA AnswerFresh ==
  ASSUME IInv, GaveUp = {}, FreshInv, NEW h \in Handlers, Answer(h)
  PROVE  FreshKeys'
<1> USE DEF FreshKeys
<1>1. /\ pc \in [Handlers -> Places]
      /\ {"answer", "done"} \cap (Working \cup SetSteps) = {}
      /\ {"get", "check", "load", "commit"} \subseteq Working
  BY DEF IInv, TypeOK, Working, CallSteps, SetSteps
<1>2. /\ pc[h] = "answer" /\ pc' = [pc EXCEPT ![h] = "done"]
      /\ UNCHANGED <<db, redis, tx, val>>
      /\ ~Written(h)
  BY DEF Answer, IInv, Phases, Written
<1>3. \A w \in Handlers : (Written(w)' <=> Written(w)) /\ (Written(w) => w # h /\ pc'[w] = pc[w])
  BY <1>1, <1>2 DEF Written, Exists
<1>4. Unwritten' = Unwritten /\ (Quiescent' <=> Quiescent)
  BY <1>1, <1>2, <1>3 DEF Unwritten, Quiescent
<1>5. OwnRowUnseen'
  BY <1>2, <1>3 DEF FreshInv, OwnRowUnseen
<1>6. RefreshReachesKeys'
  BY <1>2, <1>3, <1>4 DEF FreshInv, RefreshReachesKeys
<1> QED
  BY <1>2, <1>4, <1>5, <1>6 DEF FreshInv, QuiescentCacheIsFresh, Exists

LEMMA FreshStep ==
  ASSUME "redis" \notin Faults, "read" \notin Ops, IInv, FreshInv, Next
  PROVE  FreshInv'
<1>1. OpsOnly'
  BY OpsStep DEF FreshInv
<1>2. CASE GaveUp' # {}
  <2>1. ~Quiescent'
    BY <1>2 DEF Quiescent, GaveUp
  <2> QED
    BY <1>1, <1>2, <2>1 DEF FreshInv, QuiescentCacheIsFresh
<1>3. CASE GaveUp' = {}
  <2> SUFFICES FreshKeys'
    BY <1>1 DEF FreshInv, FreshKeys
  <2>1. GaveUp = {} /\ Leaked = {}
    BY <1>3, GaveUpGrows, Untroubled
  <2>2. PICK h \in Handlers :
          \/ Arrive(h) \/ Progress(h) \/ Fault(h) \/ Elsewhere(h)
          \/ \E l \in Handlers : BeginInherits(h, l) \/ BeginRejected(h, l)
    BY DEF Next
  <2>3. pc \in [Handlers -> Places]
    BY DEF IInv, TypeOK
  <2>4. ~GivesUp(h)
    BY <1>3, <2>3 DEF GivesUp, Rollback, Leak, GaveUp
  <2>11. ~AnswerFails(h) /\ ~Elsewhere(h)
    BY <1>3, <2>3 DEF AnswerFails, Elsewhere, GaveUp
  <2>12. CASE Answer(h)
    BY <2>1, <2>12, AnswerFresh
  <2>5. CASE Arrive(h)
    BY <2>1, <2>5, ArriveFresh
  <2>6. CASE LookupClientId(h) \/ CheckToken(h) \/ BeginClean(h) \/ CacheCall(h)
    <3>1. Moves(h)
      BY <2>4, <2>6, MoveShape
    <3> QED
      BY <1>3, <2>1, <2>6, <3>1, ReadCacheFresh, CheckFresh, LoadFresh, SetFresh DEF CacheCall
  <2>7. CASE WriteStep(h)
    <3>1. ~WriteFails(h)
      BY <2>4 DEF WriteFails, ErrorReturn, GivesUp, Working
    <3>2. /\ Current(h).status \in Status /\ val[h].status \in Status
          /\ Current(h).token \in BOOLEAN /\ Current(h).email \in Emails
      BY NoRowFacts DEF Current, IInv, TypeOK
    <3>3. Writes(h)
      BY <2>7, <3>1, <3>2 DEF WriteStep, WriteCreate, WriteUpdate, MappedStatus, WriteRefresh,
         WriteDeactivate, WriteVerify, WriteReissue, WriteEmailFlag, Writes, Status
    <3> QED
      BY <2>1, <3>3, WriteFresh
  <2>8. CASE Commit(h)
    BY <2>1, <2>8, CommitFresh
  <2>9. ~Fault(h)
    BY <2>4, <2>11 DEF Fault, SetSwallowed, RedisFails, Abort, DeactivateForgets, ErrorReturn, GivesUp,
       Working, CallSteps
  <2>10. ~(\E l \in Handlers : BeginInherits(h, l) \/ BeginRejected(h, l))
    BY <2>1 DEF BeginInherits, BeginRejected
  <2> QED
    BY <2>2, <2>5, <2>6, <2>7, <2>8, <2>9, <2>10, <2>11, <2>12 DEF Progress
<1> QED
  BY <1>2, <1>3

LEMMA FreshInit == Init => FreshInv
<1> SUFFICES ASSUME Init PROVE FreshInv
  OBVIOUS
<1> USE NoRowFacts, EmailsAssumption
<1>1. \A h \in Handlers : ~Written(h) /\ pc[h] = "idle"
  BY DEF Init, Written
<1>2. Exists(redis["identifier"]) => \A k \in {"identifier", "clientId", db.email} : redis[k] = db
  <2>1. db.email \in Emails
    BY InitInv DEF IInv, TypeOK
  <2> QED
    BY <2>1 DEF Init, Keys
<1> QED
  BY <1>1, <1>2 DEF FreshInv, OpsOnly, OwnRowUnseen, RefreshReachesKeys, QuiescentCacheIsFresh

\* With every request committed or answered and nobody at work, the three keys
\* of the user hold the committed row: for writers alone, whatever services
\* fail, as long as Redis takes what it is given.
THEOREM CacheEndsFresh ==
  ASSUME "redis" \notin Faults, "read" \notin Ops
  PROVE  Spec => []QuiescentCacheIsFresh
<1>1. IInv /\ FreshInv /\ [Next]_vars => FreshInv'
  <2>1. CASE UNCHANGED vars
    BY <2>1 DEF vars, FreshInv, OpsOnly, GaveUp, OwnRowUnseen, RefreshReachesKeys, Unwritten,
       Written, Exists, QuiescentCacheIsFresh, Quiescent
  <2> QED
    BY <2>1, FreshStep
<1>2. FreshInv => QuiescentCacheIsFresh
  BY DEF FreshInv
<1> QED
  BY <1>1, <1>2, FreshInit, Inductive, PTL DEF Spec


-----------------------------------------------------------------------------
(* The status. *)

\* None of the error returns that forget the rollback comes after the row was
\* written: those are in a refresh that Redis fails, in verifyUsers, and in the
\* encryption of deactivateUser.
LeaksCarryNoRow ==
    /\ "redis" \in Faults => Ops \cap Forgetful = {}
    /\ "service" \in Faults => "deactivate" \notin Ops

\* A writer finds its own row, whatever it asks.
LEMMA WriterIsServed ==
  ASSUME IInv, NEW h \in Handlers, Written(h), NEW row \in Views(h)
  PROVE  row = tx[h] /\ Found(h, row) /\ Accepted(h)
  BY DEF Written, InTx, Views, TxView, Found, Wanted, Accepted

LEMMA LeakIsUnwritten ==
  ASSUME LeaksCarryNoRow, IInv, OpsOnly, NEW h \in Handlers, Progress(h) \/ Fault(h), pc'[h] = "leaked"
  PROVE  ~Written(h)
<1>1. /\ pc \in [Handlers -> Places]
      /\ AfterCall(h) # "leaked"
  BY AfterCallFacts DEF IInv, TypeOK
<1>2. CASE LookupClientId(h) \/ CheckToken(h) \/ BeginClean(h)
  BY <1>2 DEF LookupClientId, CheckToken, BeginClean, IInv, Phases, Written
<1>3. CASE GetPrimary(h) \/ SetIdentifier(h) \/ SetClientId(h) \/ SetEmail(h) \/ SetSwallowed(h)
  BY <1>1, <1>3 DEF GetPrimary, SetIdentifier, SetClientId, SetEmail, SetKey, SetSwallowed
<1>4. CASE CheckVersion(h)
  <2>1. PICK row \in Views(h) :
          ~Found(h, row) \/ ~Accepted(h) \/ pc'[h] \in {AfterCall(h), "load"}
    BY <1>1, <1>4 DEF CheckVersion
  <2> QED
    BY <1>1, <2>1, WriterIsServed
<1>5. CASE LoadUser(h)
  <2>1. PICK row \in Views(h) : ~Found(h, row) \/ pc'[h] = "setIdentifier"
    BY <1>1, <1>5 DEF LoadUser
  <2> QED
    BY <2>1, WriterIsServed
<1>6. CASE WriteStep(h)
  BY <1>6 DEF WriteStep, WriteCreate, WriteUpdate, WriteRefresh, WriteDeactivate, WriteVerify,
     WriteReissue, WriteEmailFlag, WriteFails, IInv, Phases
<1>7. CASE Commit(h) \/ Abort(h) \/ Answer(h) \/ AnswerFails(h)
  BY <1>1, <1>7 DEF Commit, Abort, Rollback, Answer, AnswerFails
<1>8. CASE RedisFails(h)
  <2>1. op[h] \in Ops /\ "redis" \in Faults /\ op[h] \notin Forgetful
    BY <1>8 DEF RedisFails, OpsOnly, LeaksCarryNoRow, SetSteps
  <2> QED
    BY <1>1, <1>8, <2>1 DEF RedisFails, ErrorReturn, Rollback
<1>9. CASE DeactivateForgets(h)
  BY <1>9 DEF DeactivateForgets, OpsOnly, LeaksCarryNoRow
<1> QED
  BY <1>2, <1>3, <1>4, <1>5, <1>6, <1>7, <1>8, <1>9 DEF Progress, CacheCall, Fault

LEMMA OwnWritesStep ==
  ASSUME LeaksCarryNoRow, IInv, OpsOnly, OwnWrites, Next
  PROVE  OwnWrites'
<1> USE NoRowFacts
<1>1. PICK h \in Handlers :
        \/ Arrive(h) \/ Progress(h) \/ Fault(h) \/ Elsewhere(h)
        \/ \E l \in Handlers : BeginInherits(h, l) \/ BeginRejected(h, l)
  BY DEF Next
<1>2. /\ pc \in [Handlers -> Places]
      /\ tx \in [Handlers -> Row \cup {NoRow}]
      /\ "leaked" \notin Working \cup {"idle", "answer", "done"}
  BY DEF IInv, TypeOK, Working, CallSteps, SetSteps
<1>3. CASE Arrive(h)
  BY <1>2, <1>3 DEF OwnWrites, Written, Arrive, Start, StartCreate, StartGetUser, StartUpdate,
     StartRefresh, StartDeactivate, StartVerify, StartEmailFlag
<1>4. CASE Progress(h) \/ Fault(h)
  <2>1. pc'[h] = "leaked" => ~Exists(tx[h])
    BY <1>4, LeakIsUnwritten DEF OwnWrites
  <2>2. CASE Moves(h)
    BY <1>2, <2>2 DEF OwnWrites, Written, Moves, Exists
  <2>3. CASE GivesUp(h)
    BY <1>2, <2>1, <2>3 DEF OwnWrites, Written, GivesUp, Rollback, Leak, Exists
  <2>4. CASE Writes(h)
    BY <1>2, <2>4 DEF OwnWrites, Written, Writes, Write, Exists
  <2>5. CASE Commit(h)
    BY <1>2, <2>5 DEF OwnWrites, Written, Commit, Exists
  <2>6. CASE WriteStep(h)
    <3>1. /\ Current(h).status \in Status /\ val[h].status \in Status
          /\ Current(h).token \in BOOLEAN /\ Current(h).email \in Emails
      BY DEF Current, IInv, TypeOK
    <3>2. Writes(h) \/ GivesUp(h)
      BY <2>6, <3>1 DEF WriteStep, WriteCreate, WriteUpdate, MappedStatus, WriteRefresh,
         WriteDeactivate, WriteVerify, WriteReissue, WriteEmailFlag, Writes, Status,
         WriteFails, ErrorReturn, GivesUp, Working
    <3> QED
      BY <2>3, <2>4, <3>2
  <2>7. CASE RedisFails(h) \/ Abort(h) \/ DeactivateForgets(h)
    BY <2>3, <2>7 DEF RedisFails, Abort, DeactivateForgets, ErrorReturn, GivesUp, Working,
       CallSteps, SetSteps
  <2>8. CASE Answer(h) \/ AnswerFails(h)
    BY <1>2, <2>8 DEF OwnWrites, Written, Answer, AnswerFails, Exists
  <2> QED
    BY <1>4, <2>2, <2>3, <2>5, <2>6, <2>7, <2>8, MoveShape DEF Progress, Fault
<1>5. ASSUME NEW l \in Handlers, BeginInherits(h, l) \/ BeginRejected(h, l)
      PROVE  OwnWrites'
  <2>1. ~Exists(tx[l]) /\ pc[h] = "begin" /\ pc[l] = "leaked"
    BY <1>5 DEF OwnWrites, BeginInherits, BeginRejected, Leaked
  <2> QED
    BY <1>2, <1>5, <2>1 DEF OwnWrites, Written, BeginInherits, AfterBegin, BeginRejected, Exists
<1>6. CASE Elsewhere(h)
  BY <1>2, <1>6 DEF OwnWrites, Written, Elsewhere, Exists
<1> QED
  BY <1>1, <1>3, <1>4, <1>5, <1>6


\* A row found by anybody but the creator is there: the user exists.
LEMMA FoundExists ==
  ASSUME IInv, OwnWrites, CreatedFirst, NEW h \in Handlers, op[h] # "create",
         NEW row \in Views(h), Exists(row)
  PROVE  Exists(db)
<1> USE NoRowFacts DEF IInv
<1>1. \A r \in committed : r.ver <= db.ver /\ r.ver \in Nat \ {0}
  BY DEF VersionNamesOneCommit, TypeOK, Row
<1>2. Exists(snap[h]) => Exists(db)
  BY <1>1 DEF Phases, TypeOK, Exists
<1>3. \A l \in Leaked : ~Exists(tx[l])
  BY DEF OwnWrites, Leaked
<1>4. Exists(tx[h]) => Exists(db)
  BY DEF CreatedFirst
<1> QED
  BY <1>2, <1>3, <1>4 DEF Views, TxView

\* Where the steps that write nothing to the database lead.
LEMMA CreatedFirstMove ==
  ASSUME IInv, OwnWrites, CreatedFirst, NEW h \in Handlers, Moves(h),
         \/ LookupClientId(h) \/ CheckToken(h) \/ BeginClean(h)
         \/ CacheCall(h) \/ SetSwallowed(h)
  PROVE  /\ pc'[h] \notin {"lookup", "token"}
         /\ op[h] # "create" /\ \/ pc'[h] \in SetSteps
                                \/ pc'[h] = "write" /\ op[h] \notin {"update", "refresh"}
                                \/ pc'[h] = "begin" /\ op[h] = "deactivate"
            => Exists(db)
<1>1. /\ pc \in [Handlers -> Places]
      /\ op[h] \in AllOps
      /\ AfterCall(h) \in {"commit", "done", "begin", "write"}
      /\ pc[h] \in SetSteps /\ op[h] # "create" => Exists(db)
      /\ "commit" \notin SetSteps /\ "done" \notin SetSteps /\ "begin" \notin SetSteps
      /\ "write" \notin SetSteps /\ "get" \notin SetSteps /\ "check" \notin SetSteps
      /\ "load" \notin SetSteps
  BY AfterCallFacts DEF IInv, TypeOK, CreatedFirst, SetSteps
<1>2. CASE LookupClientId(h)
  <2>1. pc'[h] = "begin" /\ op[h] \in {"update", "refresh"}
    BY <1>1, <1>2 DEF LookupClientId, Rollback, CreatedFirst, Moves, Working, CallSteps, SetSteps
  <2> QED
    BY <1>1, <2>1
<1>3. CASE CheckToken(h)
  <2>1. pc'[h] = "begin" /\ op[h] \in Forgetful
    BY <1>1, <1>3 DEF CheckToken, Rollback, CreatedFirst, Moves, Working, CallSteps, SetSteps
  <2> QED
    BY <1>1, <2>1 DEF Forgetful
<1>4. CASE BeginClean(h)
  <2>1. pc[h] = "begin" /\ pc'[h] = AfterBegin(h) /\ op[h] # "read"
    BY <1>1, <1>4 DEF BeginClean, IInv, Phases
  <2>2. op[h] = "deactivate" => Exists(db)
    BY <2>1 DEF CreatedFirst
  <2> QED
    BY <1>1, <2>1, <2>2 DEF AfterBegin, TxFirst, AllOps
<1>5. CASE GetPrimary(h)
  BY <1>1, <1>5 DEF GetPrimary
<1>6. CASE CheckVersion(h)
  <2>1. PICK row \in Views(h) :
          /\ pc'[h] \in {AfterCall(h), "load"}
          /\ Exists(row)
    BY <1>1, <1>6 DEF CheckVersion, ErrorReturn, Rollback, Leak, Found, Moves, Working, CallSteps, SetSteps
  <2> QED
    BY <1>1, <2>1, FoundExists
<1>7. CASE LoadUser(h)
  <2>1. PICK row \in Views(h) : pc'[h] = "setIdentifier" /\ Exists(row)
    BY <1>1, <1>7 DEF LoadUser, ErrorReturn, Rollback, Leak, Found, Moves, Working, CallSteps, SetSteps
  <2> QED
    BY <1>1, <2>1, FoundExists
<1>8. CASE SetIdentifier(h) \/ SetClientId(h) \/ SetEmail(h) \/ SetSwallowed(h)
  <2>1. pc[h] \in SetSteps /\ pc'[h] \in {"setClientId", "setEmail", AfterCall(h)}
    BY <1>1, <1>8 DEF SetIdentifier, SetClientId, SetEmail, SetKey, SetSwallowed, SetSteps
  <2> QED
    BY <1>1, <2>1
<1> QED
  BY <1>2, <1>3, <1>4, <1>5, <1>6, <1>7, <1>8 DEF CacheCall


\* What the writes take from the row as it is.
LEMMA WritesOver ==
  ASSUME IInv, OwnWrites, CreatedFirst, NEW h \in Handlers, WriteStep(h), ~GivesUp(h)
  PROVE  /\ pc[h] = "write" /\ pc' = [pc EXCEPT ![h] = "get"]
         /\ tx' = [tx EXCEPT ![h] = tx'[h]]
         /\ UNCHANGED <<db, committed, redis, op, val>>
         /\ op[h] # "create" => Exists(db)
         /\ op[h] \notin StatusChangers => tx'[h].status = db.status
         /\ op[h] = "update" => tx'[h].status = val[h].status
         /\ op[h] = "verify" => tx'[h].status = "ACTIVE"
<1> USE NoRowFacts DEF IInv
<1>1. /\ pc[h] = "write" /\ ~Exists(tx[h]) /\ Current(h) = db /\ ~WriteFails(h)
      /\ tx \in [Handlers -> Row \cup {NoRow}] /\ op[h] \in AllOps /\ db \in Row \cup {NoRow}
      /\ op[h] # "read"
  BY DEF WriteStep, WriteCreate, WriteUpdate, WriteRefresh, WriteDeactivate, WriteVerify, WriteReissue,
     WriteEmailFlag, WriteFails, ErrorReturn, GivesUp, Working, OwnWrites, Phases, Current, TypeOK
<1>2. op[h] \notin {"create", "update", "refresh"} => Exists(db)
  BY <1>1 DEF CreatedFirst
<1>3. op[h] = "create" => db = NoRow
  BY <1>1 DEF CreatedFirst, Working, Exists, Row
<1>4. NoRow.status = "INACTIVE"
  BY DEF NoRow
<1>5. CASE WriteCreate(h)
  BY <1>1, <1>3, <1>4, <1>5 DEF WriteCreate, Write
<1>6. CASE WriteUpdate(h)
  BY <1>1, <1>6 DEF WriteUpdate, MappedStatus, Write, StatusChangers
<1>7. CASE WriteRefresh(h)
  BY <1>1, <1>7 DEF WriteRefresh, Write
<1>8. CASE WriteDeactivate(h)
  BY <1>1, <1>2, <1>8 DEF WriteDeactivate, Write, StatusChangers
<1>9. CASE WriteVerify(h)
  BY <1>1, <1>2, <1>9 DEF WriteVerify, Write, StatusChangers
<1>10. CASE WriteReissue(h)
  BY <1>1, <1>2, <1>10 DEF WriteReissue, Write
<1>11. CASE WriteEmailFlag(h)
  BY <1>1, <1>2, <1>11 DEF WriteEmailFlag, Write
<1> QED
  BY <1>1, <1>5, <1>6, <1>7, <1>8, <1>9, <1>10, <1>11 DEF WriteStep

\* The steps of a handler, with what each needs to be known by.
LEMMA StepKinds ==
  ASSUME IInv, Next
  PROVE  \E h \in Handlers :
           \/ Arrive(h)
           \/ Moves(h) /\ \/ LookupClientId(h) \/ CheckToken(h) \/ BeginClean(h)
                          \/ CacheCall(h) \/ SetSwallowed(h)
           \/ GivesUp(h)
           \/ WriteStep(h) /\ ~GivesUp(h)
           \/ Commit(h)
           \/ Responds(h) \/ Elsewhere(h)
           \/ \E l \in Handlers : BeginInherits(h, l) \/ BeginRejected(h, l)
<1>1. PICK h \in Handlers :
        \/ Arrive(h) \/ Progress(h) \/ Fault(h) \/ Elsewhere(h)
        \/ \E l \in Handlers : BeginInherits(h, l) \/ BeginRejected(h, l)
  BY DEF Next
<1>2. RedisFails(h) \/ Abort(h) \/ DeactivateForgets(h) => GivesUp(h)
  BY DEF RedisFails, Abort, DeactivateForgets, ErrorReturn, GivesUp, Working, CallSteps, SetSteps
<1> QED
  BY <1>1, <1>2, MoveShape DEF Progress, Fault, Responds

\* Under OwnWrites a response, or a stranger on a leaked connection, changes
\* where one handler is and nothing else.
LEMMA AftermathStep ==
  ASSUME IInv, OwnWrites, NEW h \in Handlers, Responds(h) \/ Elsewhere(h)
  PROVE  /\ pc' = [pc EXCEPT ![h] = pc'[h]] /\ pc'[h] \in {"done", "failed"}
         /\ pc[h] \in {"answer", "leaked"}
         /\ tx' = tx
         /\ UNCHANGED <<db, committed, redis, op, val>>
<1>1. pc \in [Handlers -> Places] /\ tx \in [Handlers -> Row \cup {NoRow}]
  BY DEF IInv, TypeOK
<1>2. CASE Responds(h)
  BY <1>1, <1>2 DEF Responds, Answer, AnswerFails
<1>3. CASE Elsewhere(h)
  <2>1. ~Exists(tx[h]) /\ tx[h] = NoRow
    BY <1>1, <1>3, NoRowFacts DEF Elsewhere, OwnWrites
  <2> QED
    BY <1>1, <1>3, <2>1 DEF Elsewhere
<1> QED
  BY <1>2, <1>3

LEMMA CreatedFirstStep ==
  ASSUME IInv, OwnWrites, CreatedFirst, Next
  PROVE  CreatedFirst'
<1> USE NoRowFacts, HandlersAssumption
<1>1. PICK h \in Handlers :
           \/ Arrive(h)
           \/ Moves(h) /\ \/ LookupClientId(h) \/ CheckToken(h) \/ BeginClean(h)
                          \/ CacheCall(h) \/ SetSwallowed(h)
           \/ GivesUp(h)
           \/ WriteStep(h) /\ ~GivesUp(h)
           \/ Commit(h)
           \/ Responds(h) \/ Elsewhere(h)
           \/ \E l \in Handlers : BeginInherits(h, l) \/ BeginRejected(h, l)
  BY StepKinds
<1>2. /\ pc \in [Handlers -> Places]
      /\ op \in [Handlers -> AllOps]
      /\ tx \in [Handlers -> Row \cup {NoRow}]
      /\ {"idle", "answer", "done", "failed", "leaked"} \cap (Working \cup SetSteps) = {}
      /\ {"get", "write"} \cap SetSteps = {}
      /\ {"get", "write", "begin", "commit"} \subseteq Working
  BY DEF IInv, TypeOK, Working, CallSteps, SetSteps
<1>3. CASE Arrive(h)
  <2>1. pc[h] = "idle" /\ ~Exists(tx[h])
    BY <1>3 DEF Arrive, Start, StartCreate, StartGetUser, StartUpdate, StartRefresh,
       StartDeactivate, StartVerify, StartEmailFlag, IInv, Phases
  <2>2. PICK o \in AllOps, first \in {"get", "lookup", "token", "begin"} :
          /\ op' = [op EXCEPT ![h] = o] /\ pc' = [pc EXCEPT ![h] = first]
          /\ UNCHANGED <<db, tx>>
          /\ first = "lookup" => o \in {"update", "refresh"}
          /\ first = "token" => o \in Forgetful
          /\ first = "begin" => o # "deactivate"
          /\ o = "create" => ~Exists(db) /\ \A k \in Handlers : op[k] # "create"
    BY <1>3 DEF Arrive, Start, StartCreate, StartGetUser, StartUpdate, StartRefresh,
       StartDeactivate, StartVerify, StartEmailFlag, Forgetful, AllOps
  <2>3. first \notin SetSteps /\ first # "write"
    BY DEF SetSteps
  <2> QED
    BY <1>2, <2>1, <2>2, <2>3 DEF CreatedFirst, Exists
<1>4. CASE Moves(h) /\ \/ LookupClientId(h) \/ CheckToken(h) \/ BeginClean(h)
                       \/ CacheCall(h) \/ SetSwallowed(h)
  <2>1. /\ pc'[h] \notin {"lookup", "token"}
        /\ op[h] # "create" /\ \/ pc'[h] \in SetSteps
                               \/ pc'[h] = "write" /\ op[h] \notin {"update", "refresh"}
                               \/ pc'[h] = "begin" /\ op[h] = "deactivate"
           => Exists(db)
    BY <1>4, CreatedFirstMove
  <2> QED
    BY <1>2, <1>4, <2>1 DEF Moves, CreatedFirst, Exists
<1>5. CASE GivesUp(h)
  BY <1>2, <1>5 DEF CreatedFirst, GivesUp, Rollback, Leak, Exists
<1>6. CASE WriteStep(h) /\ ~GivesUp(h)
  <2>1. /\ pc[h] = "write" /\ pc' = [pc EXCEPT ![h] = "get"]
        /\ tx' = [tx EXCEPT ![h] = tx'[h]]
        /\ db' = db /\ op' = op
        /\ op[h] # "create" => Exists(db)
    BY <1>6, WritesOver
  <2> QED
    BY <1>2, <2>1 DEF CreatedFirst, Exists
<1>7. CASE Commit(h)
  <2>1. /\ pc[h] = "commit" /\ pc' = [pc EXCEPT ![h] = "answer"] /\ op' = op
        /\ Exists(db)' /\ Exists(tx[h])
    BY <1>7 DEF Commit, IInv, Phases, Written, Exists
  <2>2. op[h] # "create" => Exists(db)
    BY <2>1 DEF CreatedFirst
  <2> QED
    BY <1>2, <2>1, <2>2 DEF CreatedFirst
<1>8. ASSUME NEW l \in Handlers, BeginInherits(h, l)
      PROVE  CreatedFirst'
  <2>1. /\ pc[h] = "begin" /\ pc[l] = "leaked" /\ h # l
        /\ tx[l] = NoRow /\ op[h] \notin {"create", "deactivate", "update"}
        /\ op[h] # "read" /\ op' = op /\ db' = db
        /\ pc' = [pc EXCEPT ![h] = AfterBegin(h), ![l] = "failed"]
        /\ tx' = [tx EXCEPT ![h] = NoRow, ![l] = NoRow]
    BY <1>2, <1>8 DEF BeginInherits, Leaked, OwnWrites, Serializable, IInv, Phases
  <2>2. AfterBegin(h) = "get" \/ (AfterBegin(h) = "write" /\ op[h] = "refresh")
    BY <1>2, <2>1 DEF AfterBegin, TxFirst, AllOps
  <2> QED
    BY <1>2, <2>1, <2>2 DEF CreatedFirst, Exists
<1>9. ASSUME NEW l \in Handlers, BeginRejected(h, l)
      PROVE  CreatedFirst'
  BY <1>2, <1>9 DEF CreatedFirst, BeginRejected, Leaked, Exists
<1>10. CASE Responds(h) \/ Elsewhere(h)
  BY <1>2, <1>10, AftermathStep DEF CreatedFirst, Exists
<1> QED
  BY <1>1, <1>3, <1>4, <1>5, <1>6, <1>7, <1>8, <1>9, <1>10

LEMMA OthersKeepStatusStep ==
  ASSUME IInv, OwnWrites, CreatedFirst, OthersKeepStatus, Next
  PROVE  OthersKeepStatus'
<1> USE NoRowFacts, HandlersAssumption
<1>1. PICK h \in Handlers :
           \/ Arrive(h)
           \/ Moves(h) /\ \/ LookupClientId(h) \/ CheckToken(h) \/ BeginClean(h)
                          \/ CacheCall(h) \/ SetSwallowed(h)
           \/ GivesUp(h)
           \/ WriteStep(h) /\ ~GivesUp(h)
           \/ Commit(h)
           \/ Responds(h) \/ Elsewhere(h)
           \/ \E l \in Handlers : BeginInherits(h, l) \/ BeginRejected(h, l)
  BY StepKinds
<1>2. /\ tx \in [Handlers -> Row \cup {NoRow}]
      /\ op \in [Handlers -> AllOps]
  BY DEF IInv, TypeOK
<1>3. CASE Arrive(h)
  <2>1. /\ ~Exists(tx[h]) /\ UNCHANGED <<db, tx>>
        /\ \A k \in Handlers : k # h => op'[k] = op[k]
    BY <1>2, <1>3 DEF Arrive, Start, StartCreate, StartGetUser, StartUpdate, StartRefresh,
       StartDeactivate, StartVerify, StartEmailFlag, IInv, Phases
  <2> QED
    BY <2>1 DEF OthersKeepStatus, Exists
<1>4. CASE Moves(h) \/ GivesUp(h)
  BY <1>2, <1>4 DEF OthersKeepStatus, Moves, GivesUp, Rollback, Leak, Exists
<1>5. CASE WriteStep(h) /\ ~GivesUp(h)
  <2>1. /\ tx' = [tx EXCEPT ![h] = tx'[h]] /\ db' = db /\ op' = op
        /\ op[h] \notin StatusChangers => tx'[h].status = db.status
    BY <1>5, WritesOver
  <2> QED
    BY <1>2, <2>1 DEF OthersKeepStatus, Exists
<1>6. CASE Commit(h)
  <2>1. \A k \in Handlers : ~Exists(tx'[k])
    BY <1>2, <1>6 DEF Commit, IInv, Phases, Written, OpenWriteHoldsLock
  <2> QED
    BY <2>1 DEF OthersKeepStatus, Exists
<1>7. ASSUME NEW l \in Handlers, BeginInherits(h, l) \/ BeginRejected(h, l)
      PROVE  OthersKeepStatus'
  BY <1>2, <1>7 DEF OthersKeepStatus, BeginInherits, BeginRejected, Leaked, OwnWrites, Exists
<1>8. CASE Responds(h) \/ Elsewhere(h)
  BY <1>8, AftermathStep DEF OthersKeepStatus, Exists
<1> QED
  BY <1>1, <1>3, <1>4, <1>5, <1>6, <1>7, <1>8


LEMMA StatusInit == Init => StatusInv
<1> SUFFICES ASSUME Init PROVE StatusInv
  OBVIOUS
<1>1. \A h \in Handlers : ~Exists(tx[h]) /\ pc[h] = "idle" /\ op[h] = "read"
  BY NoRowFacts DEF Init
<1> QED
  BY <1>1 DEF StatusInv, OpsOnly, OwnWrites, CreatedFirst, OthersKeepStatus, Working, CallSteps, SetSteps

LEMMA StatusStep ==
  ASSUME LeaksCarryNoRow, IInv, StatusInv, [Next]_vars
  PROVE  StatusInv'
<1>1. CASE Next
  BY <1>1, OpsStep, OwnWritesStep, CreatedFirstStep, OthersKeepStatusStep DEF StatusInv
<1>2. CASE UNCHANGED vars
  BY <1>2 DEF vars, StatusInv, OpsOnly, OwnWrites, CreatedFirst, OthersKeepStatus, Written, Exists
<1> QED
  BY <1>1, <1>2

\* Only a commit changes the row, and it is signed by who commits.
LEMMA OnlyCommitChangesRow ==
  ASSUME IInv, OwnWrites, Next, db' # db
  PROVE  \E h \in Handlers : Commit(h) /\ db' = tx[h] /\ Exists(tx[h]) /\ tx[h].by = h /\ tx[h].ver > db.ver
<1>1. PICK h \in Handlers : Shape(h)
  BY StepShape
<1>2. Commit(h)
  BY <1>1, AftermathStep DEF Shape, Arrive, Start, StartCreate, StartGetUser, StartUpdate, StartRefresh,
     StartDeactivate, StartVerify, StartEmailFlag, Moves, Writes, Write, GivesUp,
     BeginInherits, BeginRejected
<1> QED
  BY <1>2 DEF Commit, IInv, Phases, Written, OpenWriteHoldsLock

\* A writer that is not meant to change the status commits over the status it
\* read or not at all, whoever races it.
THEOREM TokenWritersAreHarmless ==
  ASSUME LeaksCarryNoRow
  PROVE  Spec => TokenWritersKeepStatus
<1>1. IInv /\ StatusInv /\ [Next]_vars => [db'.status # db.status => op[db'.by] \in StatusChangers]_db
  <2> SUFFICES ASSUME IInv, StatusInv, [Next]_vars, db' # db, db'.status # db.status
               PROVE  op[db'.by] \in StatusChangers
    OBVIOUS
  <2>1. Next
    BY DEF vars
  <2>2. PICK h \in Handlers : db' = tx[h] /\ Exists(tx[h]) /\ tx[h].by = h
    BY <2>1, OnlyCommitChangesRow DEF StatusInv
  <2> QED
    BY <2>2 DEF StatusInv, OthersKeepStatus
<1>2. IInv /\ StatusInv /\ [Next]_vars => StatusInv'
  BY StatusStep
<1> QED
  BY <1>1, <1>2, StatusInit, Inductive, PTL DEF Spec, TokenWritersKeepStatus


-----------------------------------------------------------------------------
(* What reads see while nothing fails. *)

\* Races alone never stop a handler that has written: it is served by the cache
\* service, and commits.
LEMMA WrittenGoesOn ==
  ASSUME IInv, NEW h \in Handlers, Progress(h), Written(h)
  PROVE  pc'[h] \notin {"failed", "leaked"} /\ ~WriteStep(h)
<1>1. /\ pc \in [Handlers -> Places]
      /\ AfterCall(h) \notin {"failed", "leaked"}
      /\ pc[h] \notin {"lookup", "token", "begin", "write", "answer"}
  BY AfterCallFacts DEF IInv, TypeOK, Phases, Written
<1>2. ~WriteStep(h)
  BY <1>1 DEF WriteStep, WriteCreate, WriteUpdate, WriteRefresh, WriteDeactivate, WriteVerify,
     WriteReissue, WriteEmailFlag, WriteFails
<1>3. CASE GetPrimary(h) \/ SetIdentifier(h) \/ SetClientId(h) \/ SetEmail(h)
  BY <1>1, <1>2, <1>3 DEF GetPrimary, SetIdentifier, SetClientId, SetEmail, SetKey
<1>4. CASE CheckVersion(h)
  <2>1. PICK row \in Views(h) :
          ~Found(h, row) \/ ~Accepted(h) \/ pc'[h] \in {AfterCall(h), "load"}
    BY <1>1, <1>4 DEF CheckVersion
  <2> QED
    BY <1>1, <1>2, <2>1, WriterIsServed
<1>5. CASE LoadUser(h)
  <2>1. PICK row \in Views(h) : ~Found(h, row) \/ pc'[h] = "setIdentifier"
    BY <1>1, <1>5 DEF LoadUser
  <2> QED
    BY <1>2, <2>1, WriterIsServed
<1>6. CASE Commit(h) \/ Answer(h)
  BY <1>1, <1>2, <1>6 DEF Commit, Answer
<1> QED
  BY <1>1, <1>2, <1>3, <1>4, <1>5, <1>6 DEF Progress, CacheCall, LookupClientId, CheckToken, BeginClean

\* What a query returns, when nobody leaves a written row behind.
LEMMA CleanQuery ==
  ASSUME IInv, OwnWrites, NEW h \in Handlers, NEW row \in Views(h), Exists(row)
  PROVE  Promised(row)
<1> USE NoRowFacts DEF IInv
<1>1. /\ Exists(db) => db \in committed
      /\ Exists(snap[h]) => snap[h] \in committed
  BY DEF VersionNamesOneCommit, Phases
<1>2. Exists(tx[h]) => tx[h].by = h
  BY DEF OwnWrites, Written
<1>3. \A l \in Leaked : ~Exists(tx[l])
  BY DEF OwnWrites, Leaked
<1> QED
  BY <1>1, <1>2, <1>3 DEF Views, TxView, Promised

\* What a handler takes is what redis or a query gives it.
LEMMA CleanMove ==
  ASSUME IInv, OwnWrites, CleanCopies, NEW h \in Handlers, Moves(h),
         LookupClientId(h) \/ CheckToken(h) \/ BeginClean(h) \/ CacheCall(h)
  PROVE  CleanCopies'
<1> USE NoRowFacts, EmailsAssumption
<1>1. /\ pc \in [Handlers -> Places]
      /\ val \in [Handlers -> Row \cup {NoRow}]
      /\ redis \in [Keys -> Row \cup {NoRow}]
      /\ {"identifier", "clientId", val[h].email} \subseteq Keys
      /\ "failed" \notin Working /\ "leaked" \notin Working
  BY DEF IInv, TypeOK, Keys, Working, CallSteps, SetSteps
<1>2. \A r : Promised(r)' <=> Promised(r)
  BY DEF Moves, Promised
<1>3. /\ \A k \in Handlers : k # h => val'[k] = val[k]
      /\ pc'[h] \notin {"failed", "leaked"}
  BY <1>1 DEF Moves
<1>4. CASE LookupClientId(h) \/ GetPrimary(h)
  <2>1. /\ redis' = redis
        /\ val'[h] = redis["clientId"] \/ val'[h] = redis["identifier"]
    BY <1>1, <1>3, <1>4 DEF LookupClientId, GetPrimary, Rollback
  <2> QED
    BY <1>1, <1>2, <1>3, <2>1 DEF CleanCopies, Exists
<1>5. CASE CheckToken(h) \/ BeginClean(h) \/ CheckVersion(h)
  <2>1. redis' = redis /\ val' = val
    BY <1>1, <1>3, <1>5 DEF CheckToken, BeginClean, CheckVersion, ErrorReturn, Rollback, Leak
  <2> QED
    BY <1>2, <2>1 DEF CleanCopies, Exists
<1>6. CASE LoadUser(h)
  <2>1. PICK row \in Views(h) : redis' = redis /\ val'[h] = row /\ Exists(row)
    BY <1>1, <1>3, <1>6 DEF LoadUser, ErrorReturn, Rollback, Leak, Found
  <2> QED
    BY <1>2, <1>3, <2>1, CleanQuery DEF CleanCopies, Exists
<1>7. CASE SetIdentifier(h) \/ SetClientId(h) \/ SetEmail(h)
  <2>1. PICK key \in Keys : redis' = [redis EXCEPT ![key] = val[h]] /\ val' = val
    BY <1>1, <1>7 DEF SetIdentifier, SetClientId, SetEmail, SetKey
  <2> QED
    BY <1>1, <1>2, <2>1 DEF CleanCopies, Exists
<1> QED
  BY <1>4, <1>5, <1>6, <1>7 DEF CacheCall

LEMMA CleanStep ==
  ASSUME Faults = {}, IInv, OwnWrites, CleanCopies, Next
  PROVE  CleanCopies'
<1> USE NoRowFacts
<1>1. PICK h \in Handlers :
        \/ Arrive(h) \/ Progress(h) \/ Fault(h) \/ Elsewhere(h)
        \/ \E l \in Handlers : BeginInherits(h, l) \/ BeginRejected(h, l)
  BY DEF Next
<1>2. /\ pc \in [Handlers -> Places]
      /\ tx \in [Handlers -> Row \cup {NoRow}]
      /\ val \in [Handlers -> Row \cup {NoRow}]
  BY DEF IInv, TypeOK
<1>3. CASE Arrive(h)
  <2>1. UNCHANGED <<db, committed, redis, tx, val>>
    BY <1>3 DEF Arrive, Start, StartCreate, StartGetUser, StartUpdate, StartRefresh,
       StartDeactivate, StartVerify, StartEmailFlag
  <2> QED
    BY <2>1 DEF CleanCopies, Promised, Exists
<1>4. Fault(h) => AnswerFails(h)
  BY DEF Fault, SetSwallowed, RedisFails, Abort, DeactivateForgets, FaultsAssumption
<1>5. CASE Progress(h) /\ GivesUp(h)
  <2>1. ~Written(h) /\ UNCHANGED <<committed, redis>>
    BY <1>2, <1>5, WrittenGoesOn DEF GivesUp, Rollback, Leak
  <2>2. ~Exists(tx[h])
    BY <2>1 DEF OwnWrites
  <2>3. /\ \A k \in Handlers : k # h => tx'[k] = tx[k] /\ val'[k] = val[k]
        /\ ~Exists(val'[h])
    BY <1>2, <1>5 DEF GivesUp, Rollback, Leak
  <2>4. \A r : Exists(r) /\ Promised(r) => Promised(r)'
    BY <2>1, <2>2, <2>3 DEF Promised
  <2> QED
    BY <2>1, <2>3, <2>4 DEF CleanCopies, Exists
<1>6. CASE Progress(h) /\ ~GivesUp(h) /\ WriteStep(h)
  <2>1. /\ ~Exists(tx[h]) /\ UNCHANGED <<committed, redis, val>>
        /\ \A k \in Handlers : k # h => tx'[k] = tx[k]
    <3>1. ~Exists(tx[h])
      BY <1>6, WrittenGoesOn DEF OwnWrites
    <3>2. ~WriteFails(h)
      BY <1>6 DEF WriteFails, ErrorReturn, GivesUp, Working
    <3> QED
      BY <1>2, <1>6, <3>1, <3>2 DEF WriteStep, WriteCreate, WriteUpdate, WriteRefresh, WriteDeactivate,
         WriteVerify, WriteReissue, WriteEmailFlag, Write
  <2>2. \A r : Exists(r) /\ Promised(r) => Promised(r)'
    BY <2>1 DEF Promised
  <2> QED
    BY <2>1, <2>2 DEF CleanCopies, Exists
<1>7. CASE Commit(h)
  <2>1. /\ committed' = committed \cup {tx[h]} /\ redis' = redis
        /\ \A k \in Handlers : k # h => tx'[k] = tx[k] /\ val'[k] = val[k]
        /\ ~Exists(val'[h])
    BY <1>2, <1>7 DEF Commit
  <2>2. \A r : Promised(r) => Promised(r)'
    BY <2>1 DEF Promised
  <2> QED
    BY <2>1, <2>2 DEF CleanCopies, Exists
<1>8. CASE Progress(h) /\ ~GivesUp(h) /\ ~WriteStep(h) /\ ~Commit(h) /\ ~Answer(h)
  BY <1>8, MoveShape, CleanMove DEF Progress
<1>10. CASE Answer(h) \/ AnswerFails(h) \/ Elsewhere(h)
  BY <1>10, AftermathStep DEF Responds, CleanCopies, Promised, Exists
<1>9. ASSUME NEW l \in Handlers, BeginInherits(h, l) \/ BeginRejected(h, l)
      PROVE  CleanCopies'
  <2>1. /\ ~Exists(tx[l]) /\ ~Exists(tx[h]) /\ UNCHANGED <<committed, redis>>
        /\ \A k \in Handlers : k # h /\ k # l => tx'[k] = tx[k]
        /\ \A k \in Handlers : Exists(val'[k]) => val'[k] = val[k]
    BY <1>2, <1>9 DEF BeginInherits, BeginRejected, Leaked, OwnWrites, IInv, Phases
  <2>2. \A r : Exists(r) /\ Promised(r) => Promised(r)'
    BY <2>1 DEF Promised
  <2> QED
    BY <2>1, <2>2 DEF CleanCopies, Exists
<1> QED
  BY <1>1, <1>3, <1>4, <1>5, <1>6, <1>7, <1>8, <1>9, <1>10

LEMMA CleanInit == Init => CleanCopies
<1> SUFFICES ASSUME Init PROVE CleanCopies
  OBVIOUS
<1> QED
  BY NoRowFacts DEF Init, CleanCopies, Promised

\* While nothing fails every read answers with a committed row: no race of
\* requests and jobs alone, and no error it ends in, shows a row that is rolled
\* back.
THEOREM RacesAreInvisible ==
  ASSUME Faults = {}
  PROVE  Spec => []RolledBackIsInvisible
<1>1. LeaksCarryNoRow
  BY DEF LeaksCarryNoRow
<1>2. IInv /\ StatusInv /\ CleanCopies /\ [Next]_vars => CleanCopies'
  <2>1. CASE UNCHANGED vars
    BY <2>1 DEF vars, CleanCopies, Promised, Exists
  <2> QED
    BY <2>1, CleanStep DEF StatusInv
<1>3. IInv /\ StatusInv /\ [Next]_vars => StatusInv'
  BY <1>1, StatusStep
<1>4. IInv /\ StatusInv /\ CleanCopies => RolledBackIsInvisible
  <2> SUFFICES ASSUME IInv, StatusInv, CleanCopies, NEW h \in Handlers, pc[h] = "done", op[h] = "read"
               PROVE  val[h] \in committed
    BY DEF RolledBackIsInvisible
  <2>1. Exists(val[h]) /\ Settled(val[h])
    BY DEF IInv, ReadAnswers
  <2>2. Promised(val[h])
    BY <2>1 DEF CleanCopies
  <2> QED
    BY <2>1, <2>2 DEF Settled, Promised, StatusInv, OwnWrites, IInv, Phases
<1> QED
  BY <1>2, <1>3, <1>4, StatusInit, CleanInit, Inductive, PTL DEF Spec


-----------------------------------------------------------------------------
(* What an update may do to the status, when nobody deactivates the user. *)

\* A user that was active once is active, and an update carries the status of
\* an active copy.
ActiveStays ==
    /\ \A r \in committed : r.status = "ACTIVE" => db.status = "ACTIVE"
    /\ \A h \in Handlers :
         /\ op[h] = "update" /\ pc[h] \in {"begin", "write"} => Exists(val[h]) /\ val[h].status = "ACTIVE"
         /\ op[h] = "update" /\ pc[h] \in CallSteps => Exists(tx[h])
         /\ op[h] = "update" /\ Exists(tx[h]) => db.status = "ACTIVE"
         /\ op[h] \in {"update", "verify"} /\ Exists(tx[h]) => tx[h].status = "ACTIVE"


\* The lookup answers 403 for a copy that says INACTIVE: what goes on to the
\* transaction is an active copy.
LEMMA UpdateMove ==
  ASSUME IInv, OwnWrites, CreatedFirst, ActiveStays, NEW h \in Handlers, Moves(h), op[h] = "update",
         \/ LookupClientId(h) \/ CheckToken(h) \/ BeginClean(h)
         \/ CacheCall(h) \/ SetSwallowed(h)
  PROVE  /\ pc'[h] \in {"begin", "write"} => Exists(val'[h]) /\ val'[h].status = "ACTIVE"
         /\ pc'[h] \in CallSteps => Exists(tx[h])
<1> USE NoRowFacts, EmailsAssumption
<1>1. /\ pc \in [Handlers -> Places]
      /\ val \in [Handlers -> Row \cup {NoRow}]
      /\ redis["clientId"] \in Row \cup {NoRow}
      /\ "failed" \notin Working
      /\ {"begin", "write", "commit", "done"} \cap CallSteps = {}
      /\ {"get", "check", "load", "setIdentifier", "setClientId", "setEmail"} = CallSteps
  BY DEF IInv, TypeOK, Keys, Working, CallSteps, SetSteps
<1>2. CASE LookupClientId(h)
  BY <1>1, <1>2 DEF LookupClientId, Rollback, Moves, Status
<1>3. CASE BeginClean(h)
  BY <1>1, <1>3 DEF BeginClean, AfterBegin, TxFirst, ActiveStays
<1>4. CASE CheckToken(h)
  BY <1>4 DEF CheckToken, CreatedFirst, Forgetful
<1>5. CASE CacheCall(h) \/ SetSwallowed(h)
  <2>1. pc[h] \in CallSteps
    BY <1>1, <1>5 DEF CacheCall, GetPrimary, CheckVersion, LoadUser, SetIdentifier, SetClientId,
       SetEmail, SetKey, SetSwallowed, SetSteps
  <2>2. Written(h) /\ Exists(tx[h])
    BY <2>1 DEF ActiveStays, OwnWrites
  <2>3. pc'[h] \notin {"begin", "write"}
    <3>1. AfterCall(h) = "commit"
      BY <2>2 DEF AfterCall
    <3>2. CASE CheckVersion(h)
      <4>1. PICK row \in Views(h) : ~Found(h, row) \/ ~Accepted(h) \/ pc'[h] \in {AfterCall(h), "load"}
        BY <1>1, <3>2 DEF CheckVersion
      <4> QED
        BY <2>2, <3>1, <4>1, WriterIsServed
    <3>3. CASE LoadUser(h)
      <4>1. PICK row \in Views(h) : ~Found(h, row) \/ pc'[h] = "setIdentifier"
        BY <1>1, <3>3 DEF LoadUser
      <4> QED
        BY <2>2, <4>1, WriterIsServed
    <3> QED
      BY <1>1, <1>5, <3>1, <3>2, <3>3 DEF CacheCall, GetPrimary, SetIdentifier, SetClientId, SetEmail,
         SetKey, SetSwallowed
  <2> QED
    BY <2>2, <2>3
<1> QED
  BY <1>2, <1>3, <1>4, <1>5

LEMMA ActiveStep ==
  ASSUME "deactivate" \notin Ops, IInv, StatusInv, CleanCopies, ActiveStays, Next
  PROVE  ActiveStays'
<1> USE NoRowFacts, HandlersAssumption DEF StatusInv
<1>1. PICK h \in Handlers :
           \/ Arrive(h)
           \/ Moves(h) /\ \/ LookupClientId(h) \/ CheckToken(h) \/ BeginClean(h)
                          \/ CacheCall(h) \/ SetSwallowed(h)
           \/ GivesUp(h)
           \/ WriteStep(h) /\ ~GivesUp(h)
           \/ Commit(h)
           \/ Responds(h) \/ Elsewhere(h)
           \/ \E l \in Handlers : BeginInherits(h, l) \/ BeginRejected(h, l)
  BY StepKinds
<1>2. /\ pc \in [Handlers -> Places]
      /\ op \in [Handlers -> AllOps]
      /\ tx \in [Handlers -> Row \cup {NoRow}]
      /\ val \in [Handlers -> Row \cup {NoRow}]
      /\ {"idle", "answer", "done", "failed", "leaked", "lookup", "token", "begin", "write"} \cap CallSteps = {}
  BY DEF IInv, TypeOK, Working, CallSteps, SetSteps
<1>3. CASE Arrive(h)
  <2>1. /\ ~Exists(tx[h]) /\ UNCHANGED <<db, committed, tx, val>>
        /\ pc' = [pc EXCEPT ![h] = pc'[h]] /\ op' = [op EXCEPT ![h] = op'[h]]
        /\ op'[h] = "update" => pc'[h] = "lookup"
    BY <1>2, <1>3 DEF Arrive, Start, StartCreate, StartGetUser, StartUpdate, StartRefresh,
       StartDeactivate, StartVerify, StartEmailFlag, IInv, Phases
  <2> QED
    BY <1>2, <2>1 DEF ActiveStays, Exists
<1>4. CASE Moves(h) /\ \/ LookupClientId(h) \/ CheckToken(h) \/ BeginClean(h)
                       \/ CacheCall(h) \/ SetSwallowed(h)
  <2>1. op[h] = "update" =>
          /\ pc'[h] \in {"begin", "write"} => Exists(val'[h]) /\ val'[h].status = "ACTIVE"
          /\ pc'[h] \in CallSteps => Exists(tx[h])
    BY <1>4, UpdateMove
  <2> QED
    BY <1>2, <1>4, <2>1 DEF ActiveStays, Moves, Exists
<1>5. CASE GivesUp(h)
  BY <1>2, <1>5 DEF ActiveStays, GivesUp, Rollback, Leak, Exists
<1>6. CASE WriteStep(h) /\ ~GivesUp(h)
  <2>1. /\ pc[h] = "write" /\ pc' = [pc EXCEPT ![h] = "get"]
        /\ tx' = [tx EXCEPT ![h] = tx'[h]] /\ lock \in {"free", h}
        /\ UNCHANGED <<db, committed, op, val>>
        /\ Exists(tx'[h])
        /\ op[h] = "update" => tx'[h].status = val[h].status
        /\ op[h] = "verify" => tx'[h].status = "ACTIVE"
    <3>1. ~WriteFails(h)
      BY <1>6 DEF WriteFails, ErrorReturn, GivesUp, Working
    <3>2. Current(h).ver \in Nat
      BY DEF Current, IInv, TypeOK
    <3>3. lock \in {"free", h} /\ Exists(tx'[h])
      BY <1>2, <1>6, <3>1, <3>2 DEF WriteStep, WriteCreate, WriteUpdate, WriteRefresh, WriteDeactivate,
         WriteVerify, WriteReissue, WriteEmailFlag, Write, CanLock, Exists
    <3> QED
      BY <1>6, <3>3, WritesOver
  <2>2. op[h] = "update" => Exists(val[h]) /\ val[h].status = "ACTIVE" /\ db.status = "ACTIVE"
    <3> SUFFICES ASSUME op[h] = "update"
                 PROVE  Exists(val[h]) /\ val[h].status = "ACTIVE" /\ db.status = "ACTIVE"
      OBVIOUS
    <3>1. Exists(val[h]) /\ val[h].status = "ACTIVE"
      BY <2>1 DEF ActiveStays
    <3>2. \A k \in Handlers : ~Exists(tx[k])
      BY <2>1 DEF IInv, OpenWriteHoldsLock, Phases, OwnWrites
    <3>3. val[h] \in committed
      BY <3>1, <3>2 DEF CleanCopies, Promised
    <3> QED
      BY <3>1, <3>3 DEF ActiveStays
  <2> QED
    BY <1>2, <2>1, <2>2 DEF ActiveStays, Exists
<1>7. CASE Commit(h)
  <2>1. /\ pc' = [pc EXCEPT ![h] = "answer"] /\ op' = op
        /\ db' = tx[h] /\ committed' = committed \cup {tx[h]}
        /\ \A k \in Handlers : k # h => val'[k] = val[k]
        /\ Exists(tx[h]) /\ op[h] \in Ops /\ lock = h
    BY <1>2, <1>7 DEF Commit, IInv, Phases, Written, OpenWriteHoldsLock, OpsOnly
  <2>2. /\ \A k \in Handlers : ~Exists(tx'[k])
        /\ \A k \in Handlers : k # h => ~Exists(tx[k])
    BY <1>2, <1>7, <2>1 DEF Commit, IInv, OpenWriteHoldsLock
  <2>3. db.status = "ACTIVE" => tx[h].status = "ACTIVE"
    BY <2>1 DEF ActiveStays, OthersKeepStatus, StatusChangers
  <2>4. ASSUME NEW k \in Handlers, op[k] = "update"
        PROVE  /\ pc'[k] \notin CallSteps
               /\ pc'[k] \in {"begin", "write"} => Exists(val'[k]) /\ val'[k].status = "ACTIVE"
    BY <1>2, <2>1, <2>2, <2>4 DEF ActiveStays
  <2> QED
    BY <2>1, <2>2, <2>3, <2>4 DEF ActiveStays, Exists
<1>8. ASSUME NEW l \in Handlers, BeginInherits(h, l) \/ BeginRejected(h, l)
      PROVE  ActiveStays'
  <2>1. /\ pc[h] = "begin" /\ pc[l] = "leaked" /\ ~Exists(tx[h]) /\ ~Exists(tx[l])
        /\ BeginInherits(h, l) => op[h] # "update"
    BY <1>8 DEF BeginInherits, BeginRejected, Leaked, OwnWrites, IInv, Phases, Serializable
  <2> QED
    BY <1>2, <1>8, <2>1 DEF ActiveStays, BeginInherits, BeginRejected, Exists
<1>9. CASE Responds(h) \/ Elsewhere(h)
  BY <1>2, <1>9, AftermathStep DEF ActiveStays, Exists
<1> QED
  BY <1>1, <1>3, <1>4, <1>5, <1>6, <1>7, <1>8, <1>9

\* An update never brings an inactive user back while nothing fails and nobody
\* deactivates the user: it takes a deactivation, or a write that is rolled back
\* after it reached redis.
THEOREM UpdateIsHarmlessAlone ==
  ASSUME Faults = {}, "deactivate" \notin Ops
  PROVE  Spec => UpdateNeverActivates
<1>1. LeaksCarryNoRow
  BY DEF LeaksCarryNoRow
<1> DEFINE Inv == IInv /\ StatusInv /\ CleanCopies /\ ActiveStays
<1>2. Init => Inv
  <2> SUFFICES ASSUME Init PROVE ActiveStays
    BY InitInv, StatusInit, CleanInit
  <2>1. /\ \A h \in Handlers : op[h] = "read" /\ ~Exists(tx[h])
        /\ committed \subseteq {db}
    BY NoRowFacts DEF Init
  <2> QED
    BY <2>1 DEF ActiveStays
<1>3. Inv /\ [Next]_vars => Inv'
  <2> SUFFICES ASSUME Inv, [Next]_vars PROVE Inv'
    OBVIOUS
  <2>1. CASE UNCHANGED vars
    <3>1. (CleanCopies /\ ActiveStays)'
      BY <2>1 DEF vars, CleanCopies, Promised, ActiveStays, Exists
    <3> QED
      BY <1>1, <3>1, NextInv, StatusStep
  <2>2. CASE Next
    BY <1>1, <2>2, NextInv, StatusStep, CleanStep, ActiveStep DEF StatusInv
  <2> QED
    BY <2>1, <2>2
<1>4. Inv /\ [Next]_vars => [db.status = "INACTIVE" /\ db'.status = "ACTIVE" => op[db'.by] # "update"]_db
  <2> SUFFICES ASSUME Inv, [Next]_vars, db' # db, db.status = "INACTIVE", db'.status = "ACTIVE"
               PROVE  op[db'.by] # "update"
    OBVIOUS
  <2>1. PICK h \in Handlers : db' = tx[h] /\ Exists(tx[h]) /\ tx[h].by = h
    BY OnlyCommitChangesRow DEF vars, StatusInv
  <2> QED
    BY <2>1 DEF ActiveStays
<1> HIDE DEF Inv
<1> QED
  BY <1>2, <1>3, <1>4, PTL DEF Spec, UpdateNeverActivates


-----------------------------------------------------------------------------
\* What cache_writers checks beside these properties: all the invariants above
\* hold together for writers that nothing fails.
THEOREM WritersInductive ==
  ASSUME Faults = {}, "read" \notin Ops
  PROVE  Spec => []WritersInv
<1>1. LeaksCarryNoRow
  BY DEF LeaksCarryNoRow
<1>2. IInv /\ FreshInv /\ [Next]_vars => FreshInv'
  <2>1. CASE UNCHANGED vars
    BY <2>1 DEF vars, FreshInv, OpsOnly, GaveUp, OwnRowUnseen, RefreshReachesKeys, Unwritten,
       Written, Exists, QuiescentCacheIsFresh, Quiescent
  <2> QED
    BY <2>1, FreshStep
<1>3. IInv /\ StatusInv /\ [Next]_vars => StatusInv'
  BY <1>1, StatusStep
<1>4. IInv /\ StatusInv /\ CleanCopies /\ [Next]_vars => CleanCopies'
  <2>1. CASE UNCHANGED vars
    BY <2>1 DEF vars, CleanCopies, Promised, Exists
  <2> QED
    BY <2>1, CleanStep DEF StatusInv
<1> QED
  BY <1>2, <1>3, <1>4, FreshInit, StatusInit, CleanInit, Inductive, PTL DEF Spec, WritersInv

================================================================================
