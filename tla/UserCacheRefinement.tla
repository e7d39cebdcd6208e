--------------------------- MODULE UserCacheRefinement ---------------------------
(***************************************************************************)
(* UserCache implements VersionedUser: every step of a handler is a step   *)
(* of the abstract user or changes nothing of it.                          *)
(***************************************************************************)
EXTENDS UserCacheProofs

\* A handler has at most one row committed, never works again after that, and
\* a row that is still open, with its writer or with whoever took over its
\* connection, is of a handler that has none.
OneRowEach ==
    /\ \A r \in committed : r.by \in Handlers => pc[r.by] \in {"answer", "done", "failed"}
    /\ \A r, s \in committed : r.by \in Handlers /\ r.by = s.by => r = s
    /\ \A h \in Handlers : Exists(tx[h]) =>
         op[tx[h].by] # "read" /\ \A r \in committed : r.by # tx[h].by

\* A handler that has committed or ended does nothing more but answer.
LEMMA OverIsFinal ==
  ASSUME IInv, NEW k \in Handlers, pc[k] \in {"answer", "done", "failed"}, Next
  PROVE  pc'[k] \in {"answer", "done", "failed"}
<1>1. PICK h \in Handlers :
        \/ Arrive(h) \/ Progress(h) \/ Fault(h) \/ Elsewhere(h)
        \/ \E l \in Handlers : BeginInherits(h, l) \/ BeginRejected(h, l)
  BY DEF Next
<1>2. pc \in [Handlers -> Places]
  BY DEF IInv, TypeOK
<1>3. CASE Arrive(h)
  BY <1>2, <1>3 DEF Arrive, Start, StartCreate, StartGetUser, StartUpdate, StartRefresh,
     StartDeactivate, StartVerify, StartEmailFlag
<1>4. CASE CacheCall(h)
  BY <1>2, <1>4 DEF CacheCall, GetPrimary, CheckVersion, LoadUser, SetIdentifier, SetClientId,
     SetEmail, SetKey, ErrorReturn, Leak, Rollback
<1>5. CASE WriteStep(h)
  BY <1>2, <1>5 DEF WriteStep, WriteCreate, WriteUpdate, WriteRefresh, WriteDeactivate,
     WriteVerify, WriteReissue, WriteEmailFlag, WriteFails, Write, ErrorReturn, Leak, Rollback
<1>6. CASE LookupClientId(h) \/ CheckToken(h) \/ BeginClean(h) \/ Commit(h) \/ Answer(h)
  BY <1>2, <1>6 DEF LookupClientId, CheckToken, BeginClean, Commit, Answer, Rollback
<1>7. CASE Fault(h) \/ Elsewhere(h)
  BY <1>2, <1>7 DEF Fault, SetSwallowed, RedisFails, Abort, DeactivateForgets, AnswerFails,
     Elsewhere, ErrorReturn, Leak, Rollback, SetSteps, Working, CallSteps
<1>8. ASSUME NEW l \in Handlers, BeginInherits(h, l) \/ BeginRejected(h, l)
      PROVE  pc'[k] \in {"answer", "done", "failed"}
  BY <1>2, <1>8 DEF BeginInherits, BeginRejected, Leaked
<1> QED
  BY <1>1, <1>3, <1>4, <1>5, <1>6, <1>7, <1>8 DEF Progress

\* What a step does to the committed rows and to the open ones.
LEMMA RowsStep ==
  ASSUME IInv, Next
  PROVE  \/ UNCHANGED <<db, committed>> /\ \A k \in Handlers : Exists(tx'[k]) =>
              \/ \E l \in Handlers : tx'[k] = tx[l]
              \/ tx'[k].by = k /\ pc[k] = "write"
         \/ \E h \in Handlers :
              /\ Exists(tx[h]) /\ tx[h].ver > db.ver
              /\ db' = tx[h] /\ committed' = committed \cup {tx[h]}
              /\ pc'[tx[h].by] \in {"answer", "failed"}
              /\ \A k \in Handlers : ~Exists(tx'[k])
<1> USE NoRowFacts, HandlersAssumption
<1>0. /\ tx \in [Handlers -> Row \cup {NoRow}]
      /\ pc \in [Handlers -> Places]
      /\ \A h, k \in Handlers : Exists(tx[h]) /\ Exists(tx[k]) => h = k
      /\ \A h \in Handlers : Exists(tx[h]) => tx[h].ver > db.ver
  BY DEF IInv, TypeOK, OpenWriteHoldsLock
<1>1. ASSUME NEW h \in Handlers, Arrive(h)
      PROVE  UNCHANGED <<db, committed, tx>>
  BY <1>1 DEF Arrive, Start, StartCreate, StartGetUser, StartUpdate, StartRefresh,
     StartDeactivate, StartVerify, StartEmailFlag
<1>2. ASSUME NEW h \in Handlers, WriteStep(h)
      PROVE  /\ UNCHANGED <<db, committed>>
             /\ tx' = tx \/ tx' = [tx EXCEPT ![h] = tx'[h]]
             /\ Exists(tx'[h]) => tx'[h] = tx[h] \/ (tx'[h].by = h /\ pc[h] = "write")
  BY <1>0, <1>2 DEF WriteStep, WriteCreate, WriteUpdate, WriteRefresh, WriteDeactivate,
     WriteVerify, WriteReissue, WriteEmailFlag, WriteFails, Write, ErrorReturn, Leak, Rollback
<1>3. ASSUME NEW h \in Handlers,
             \/ LookupClientId(h) \/ CheckToken(h) \/ BeginClean(h) \/ CacheCall(h)
             \/ Answer(h) \/ Fault(h)
      PROVE  UNCHANGED <<db, committed>> /\ (tx' = tx \/ tx' = [tx EXCEPT ![h] = NoRow])
  BY <1>3 DEF LookupClientId, CheckToken, BeginClean, CacheCall, GetPrimary, CheckVersion,
     LoadUser, SetIdentifier, SetClientId, SetEmail, SetKey, Answer, Fault, SetSwallowed,
     RedisFails, Abort, DeactivateForgets, AnswerFails, ErrorReturn, Leak, Rollback
<1>4. ASSUME NEW h \in Handlers, Commit(h)
      PROVE  /\ Exists(tx[h]) /\ tx[h].ver > db.ver
             /\ db' = tx[h] /\ committed' = committed \cup {tx[h]}
             /\ pc'[tx[h].by] \in {"answer", "failed"}
             /\ \A k \in Handlers : ~Exists(tx'[k])
  <2>1. Exists(tx[h]) /\ tx[h].by = h
    BY <1>4 DEF Commit, IInv, Phases, Written
  <2> QED
    BY <1>0, <1>4, <2>1 DEF Commit
<1>5. ASSUME NEW l \in Handlers, Elsewhere(l), ~UNCHANGED <<db, committed>>
      PROVE  /\ Exists(tx[l]) /\ tx[l].ver > db.ver
             /\ db' = tx[l] /\ committed' = committed \cup {tx[l]}
             /\ pc'[tx[l].by] \in {"answer", "failed"}
             /\ \A k \in Handlers : ~Exists(tx'[k])
  <2>1. Exists(tx[l]) /\ db' = tx[l] /\ committed' = committed \cup {tx[l]}
    BY <1>5 DEF Elsewhere
  <2>2. tx[l].by = l \/ (tx[l].by \in Handlers /\ pc[tx[l].by] = "failed")
    BY <2>1 DEF IInv, OpenWriteAuthor
  <2> QED
    BY <1>0, <1>5, <2>1, <2>2 DEF Elsewhere
<1>6. ASSUME NEW l \in Handlers, Elsewhere(l), UNCHANGED <<db, committed>>
      PROVE  tx' = [tx EXCEPT ![l] = NoRow]
  BY <1>6 DEF Elsewhere
<1>7. ASSUME NEW h \in Handlers, NEW l \in Handlers, BeginInherits(h, l) \/ BeginRejected(h, l)
      PROVE  /\ UNCHANGED <<db, committed>>
             /\ tx' = [tx EXCEPT ![h] = tx[l], ![l] = NoRow] \/ tx' = [tx EXCEPT ![l] = NoRow]
  BY <1>7 DEF BeginInherits, BeginRejected
<1>8. PICK h \in Handlers :
        \/ Arrive(h) \/ Progress(h) \/ Fault(h) \/ Elsewhere(h)
        \/ \E l \in Handlers : BeginInherits(h, l) \/ BeginRejected(h, l)
  BY DEF Next
<1>9. CASE Commit(h) \/ (Elsewhere(h) /\ ~UNCHANGED <<db, committed>>)
  BY <1>4, <1>5, <1>9
<1>10. CASE ~(Commit(h) \/ (Elsewhere(h) /\ ~UNCHANGED <<db, committed>>))
  <2>1. UNCHANGED <<db, committed>>
    BY <1>1, <1>2, <1>3, <1>7, <1>8, <1>10 DEF Progress
  <2>2. ASSUME NEW k \in Handlers, Exists(tx'[k])
        PROVE  \/ \E l \in Handlers : tx'[k] = tx[l]
               \/ tx'[k].by = k /\ pc[k] = "write"
    <3>1. CASE Arrive(h) \/ Fault(h) \/ Elsewhere(h) \/ LookupClientId(h) \/ CheckToken(h)
               \/ BeginClean(h) \/ CacheCall(h) \/ Answer(h)
      BY <1>0, <1>1, <1>3, <1>6, <2>1, <2>2, <3>1
    <3>2. CASE WriteStep(h)
      BY <1>0, <1>2, <2>2, <3>2
    <3>3. CASE \E l \in Handlers : BeginInherits(h, l) \/ BeginRejected(h, l)
      BY <1>0, <1>7, <2>2, <3>3
    <3> QED
      BY <1>8, <1>10, <3>1, <3>2, <3>3 DEF Progress
  <2> QED
    BY <2>1, <2>2
<1> QED
  BY <1>9, <1>10

\* Nobody that has a row open or committed starts again.
LEMMA WritersKeepOp ==
  ASSUME IInv, Next, NEW k \in Handlers, pc[k] # "idle"
  PROVE  op'[k] = op[k]
BY DEF Next, Arrive, Progress, Fault, CacheCall, WriteStep, Start, StartCreate, StartGetUser,
   StartUpdate, StartRefresh, StartDeactivate, StartVerify, StartEmailFlag, GetPrimary, CheckVersion,
   LoadUser, SetIdentifier, SetClientId, SetEmail, SetKey, WriteCreate, WriteUpdate, WriteRefresh,
   WriteDeactivate, WriteVerify, WriteReissue, WriteEmailFlag, WriteFails, Write, LookupClientId,
   CheckToken, BeginClean, Commit, Answer, SetSwallowed, RedisFails, Abort, DeactivateForgets,
   AnswerFails, Elsewhere, BeginInherits, BeginRejected, IInv, TypeOK

LEMMA OneRowEachStep ==
  ASSUME IInv, OneRowEach, Next
  PROVE  OneRowEach'
<1> USE NoRowFacts, HandlersAssumption
<1>1. \A k \in Handlers : pc[k] \in {"answer", "done", "failed"} => pc'[k] \in {"answer", "done", "failed"}
  BY OverIsFinal
<1>2. CASE \E h \in Handlers :
              /\ Exists(tx[h]) /\ tx[h].ver > db.ver
              /\ db' = tx[h] /\ committed' = committed \cup {tx[h]}
              /\ pc'[tx[h].by] \in {"answer", "failed"}
              /\ \A k \in Handlers : ~Exists(tx'[k])
  BY <1>1, <1>2 DEF OneRowEach, Exists
<1>3. CASE UNCHANGED <<db, committed>> /\ \A k \in Handlers : Exists(tx'[k]) =>
              \/ \E l \in Handlers : tx'[k] = tx[l]
              \/ tx'[k].by = k /\ pc[k] = "write"
  <2>1. ASSUME NEW k \in Handlers, Exists(tx'[k])
        PROVE  op'[tx'[k].by] # "read" /\ \A r \in committed : r.by # tx'[k].by
    <3>1. CASE tx'[k].by = k /\ pc[k] = "write"
      BY <3>1, WritersKeepOp DEF OneRowEach, IInv, Phases
    <3>2. ASSUME NEW l \in Handlers, tx'[k] = tx[l]
          PROVE  op'[tx'[k].by] # "read" /\ \A r \in committed : r.by # tx'[k].by
      <4>1. Exists(tx[l])
        BY <2>1, <3>2 DEF Exists
      <4>2. tx[l].by \in Handlers /\ pc[tx[l].by] # "idle"
        BY <4>1 DEF IInv, OpenWriteAuthor, Phases
      <4> QED
        BY <3>2, <4>1, <4>2, WritersKeepOp DEF OneRowEach
    <3> QED
      BY <1>3, <2>1, <3>1, <3>2
  <2> QED
    BY <1>1, <1>3, <2>1 DEF OneRowEach, Exists
<1> QED
  BY <1>2, <1>3, RowsStep

-----------------------------------------------------------------------------
(* What a step of a handler is for the abstract user. *)

AbstractStep == [User!Next]_(User!vars)

LEMMA StutterStep ==
  ASSUME UNCHANGED <<db, committed>>, GaveUp' = GaveUp, Pending' = Pending, Answered' = Answered
  PROVE  AbstractStep
BY DEF AbstractStep, User!vars

\* A handler moves on to another await.
LEMMA WorkStep ==
  ASSUME TypeOK, NEW h \in Handlers, pc[h] \in Working, pc'[h] \in Working,
         \A k \in Handlers \ {h} : pc'[k] = pc[k] /\ val'[k] = val[k],
         UNCHANGED <<db, committed, op, asOf>>
  PROVE  AbstractStep
<1>1. \A k \in Handlers : (pc[k] \in Working <=> pc'[k] \in Working)
                          /\ (pc[k] = "done" <=> pc'[k] = "done")
                          /\ (pc[k] \in {"failed", "leaked"} <=> pc'[k] \in {"failed", "leaked"})
  BY DEF Working, CallSteps, SetSteps
<1>2. \A k \in Handlers : pc[k] = "done" => val'[k] = val[k]
  BY DEF Working, CallSteps, SetSteps
<1>3. GaveUp' = GaveUp
  BY <1>1 DEF GaveUp
<1>4. Pending' = Pending
  BY <1>1 DEF Pending
<1>5. Answered' = Answered
  BY <1>1, <1>2 DEF Answered
<1> QED
  BY <1>3, <1>4, <1>5, StutterStep

\* A handler gives up.
LEMMA GiveUpStep ==
  ASSUME TypeOK, NEW h \in Handlers,
         pc[h] \in Working \cup {"leaked", "answer"}, pc'[h] \in {"failed", "leaked"},
         \A k \in Handlers \ {h} : pc'[k] = pc[k] /\ val'[k] = val[k],
         UNCHANGED <<db, committed, op, asOf>>
  PROVE  AbstractStep
<1>1. Answered' = Answered
  <2>1. \A k \in Handlers : (pc[k] = "done" <=> pc'[k] = "done") /\ (pc[k] = "done" => val'[k] = val[k])
    BY DEF Working, CallSteps, SetSteps
  <2> QED
    BY <2>1 DEF Answered
<1>2. Pending' = {q \in Pending : q[1] # h}
  <2>1. \A k \in Handlers : pc'[k] \in Working <=> pc[k] \in Working /\ k # h
    BY DEF Working, CallSteps, SetSteps
  <2> QED
    BY <2>1 DEF Pending
<1>3. GaveUp' = GaveUp \cup {h}
  BY DEF GaveUp
<1>4. CASE pc[h] = "leaked"
  <2>1. GaveUp' = GaveUp
    BY <1>3, <1>4 DEF GaveUp
  <2>2. Pending' = Pending
    BY <1>2, <1>4 DEF Pending, Working, CallSteps, SetSteps
  <2> QED
    BY <1>1, <2>1, <2>2, StutterStep
<1>5. CASE pc[h] \in Working \cup {"answer"}
  <2>1. h \notin GaveUp
    BY <1>5 DEF GaveUp, Working, CallSteps, SetSteps
  <2>2. Answered[h] = NoRow
    BY <1>5 DEF Answered, Working, CallSteps, SetSteps
  <2>3. User!GiveUp(h)
    BY <1>1, <1>2, <1>3, <2>1, <2>2 DEF User!GiveUp
  <2> QED
    BY <2>3 DEF AbstractStep, User!Next
<1> QED
  BY <1>4, <1>5

\* A read answers.
LEMMA AnswerStep ==
  ASSUME IInv, IInv', NEW h \in Handlers, pc[h] \in Working, op[h] = "read", pc'[h] = "done",
         \A k \in Handlers \ {h} : pc'[k] = pc[k] /\ val'[k] = val[k],
         UNCHANGED <<db, committed, op, asOf>>
  PROVE  AbstractStep
<1> DEFINE q == <<h, asOf[h]>>
<1>1. /\ val'[h] # NoRow /\ val'[h].ver >= asOf[h]
      /\ val'[h] \in committed \/ val'[h].by \in GaveUp
  <2>1. Exists(val'[h]) /\ Settled(val[h])' /\ val'[h].ver >= asOf[h]
    BY DEF IInv, ReadAnswers, Exists
  <2>2. val'[h] \in committed \/ (val'[h].by \in Handlers /\ pc'[val'[h].by] \in {"failed", "leaked"})
    BY <2>1 DEF Settled
  <2>3. \A k \in Handlers : pc'[k] \in {"failed", "leaked"} => pc[k] \in {"failed", "leaked"}
    OBVIOUS
  <2> QED
    BY <2>1, <2>2, <2>3, NoRowFacts DEF GaveUp
<1>2. Pending' = Pending \ {q}
  <2>1. \A k \in Handlers : pc'[k] \in Working <=> pc[k] \in Working /\ k # h
    BY DEF Working, CallSteps, SetSteps
  <2> QED
    BY <2>1 DEF Pending
<1>3. GaveUp' = GaveUp
  <2>1. \A k \in Handlers : pc'[k] \in {"failed", "leaked"} <=> pc[k] \in {"failed", "leaked"}
    BY DEF Working, CallSteps, SetSteps
  <2> QED
    BY <2>1 DEF GaveUp
<1>4. Answered' = [Answered EXCEPT ![h] = val'[h]]
  <2>1. \A k \in Handlers \ {h} : Answered'[k] = Answered[k]
    BY DEF Answered
  <2>2. Answered'[h] = val'[h]
    BY DEF Answered
  <2> QED
    BY <2>1, <2>2 DEF Answered
<1>5. q \in Pending /\ q[1] = h /\ q[2] = asOf[h]
  BY DEF Pending
<1>6. Answered'[h] = val'[h]
  BY DEF Answered
<1>7. User!Answers(q[2], Answered'[h])
  BY <1>1, <1>5, <1>6 DEF User!Answers
<1>8. User!Answer(h)
  BY <1>2, <1>3, <1>4, <1>5, <1>6, <1>7 DEF User!Answer
<1> QED
  BY <1>8 DEF AbstractStep, User!Next

\* A handler starts: a read is asked, anything else is not yet to be seen.
LEMMA AskStep ==
  ASSUME IInv, OneRowEach, NEW h \in Handlers, Arrive(h)
  PROVE  AbstractStep
<1>1. PICK o \in AllOps, first \in {"get", "lookup", "token", "begin"} : Start(h, o, first)
  BY DEF Arrive, StartCreate, StartGetUser, StartUpdate, StartRefresh, StartDeactivate,
     StartVerify, StartEmailFlag, AllOps
<1>2. /\ pc[h] = "idle" /\ pc'[h] \in Working /\ op'[h] = o
      /\ o = "read" => asOf'[h] = db.ver
      /\ \A k \in Handlers \ {h} : pc'[k] = pc[k] /\ op'[k] = op[k] /\ asOf'[k] = asOf[k]
      /\ UNCHANGED <<db, committed, val>>
  BY <1>1 DEF Start, IInv, TypeOK, Working, CallSteps
<1>3. GaveUp' = GaveUp
  BY <1>2 DEF GaveUp, Working, CallSteps, SetSteps
<1>4. Answered' = Answered
  BY <1>2 DEF Answered, Working, CallSteps, SetSteps
<1>5. pc[h] \notin Working /\ pc[h] # "done" /\ pc[h] \notin {"failed", "leaked"}
  BY <1>2 DEF Working, CallSteps, SetSteps
<1>6. CASE o # "read"
  <2>1. Pending' = Pending
    BY <1>2, <1>5, <1>6 DEF Pending
  <2> QED
    BY <1>2, <1>3, <1>4, <2>1, StutterStep
<1>7. CASE o = "read"
  <2>1. Pending' = Pending \cup {<<h, db.ver>>}
    BY <1>2, <1>5, <1>7 DEF Pending
  <2>2. ~User!HasCommitted(h) /\ ~User!HasAsked(h) /\ h \notin GaveUp
    <3>1. h \notin GaveUp /\ Answered[h] = NoRow
      BY <1>5 DEF GaveUp, Answered
    <3>2. \A r \in committed : r.by # h
      BY <1>2 DEF OneRowEach
    <3>3. \A q \in Pending : q[1] # h
      BY <1>5 DEF Pending
    <3> QED
      BY <3>1, <3>2, <3>3 DEF User!HasCommitted, User!HasAsked
  <2>3. User!Ask(h)
    BY <1>2, <1>3, <1>4, <2>1, <2>2 DEF User!Ask
  <2> QED
    BY <2>3 DEF AbstractStep, User!Next
<1> QED
  BY <1>6, <1>7

\* A row that is committed, by its handler or by a stranger on the connection
\* it left, is a commit of the client that wrote it.
LEMMA CommitIsCommit ==
  ASSUME IInv, OneRowEach, NEW h \in Handlers, Exists(tx[h]),
         db' = tx[h], committed' = committed \cup {tx[h]},
         GaveUp' = GaveUp, Pending' = Pending, Answered' = Answered
  PROVE  AbstractStep
<1> DEFINE c == tx[h].by
<1>1. c \in Handlers /\ tx[h].ver > db.ver
  BY DEF IInv, OpenWriteAuthor, OpenWriteHoldsLock
<1>2. \A r \in committed : r.by # c
  BY DEF OneRowEach
<1>3. op[c] # "read"
  BY DEF OneRowEach
<1>4. Answered[c] = NoRow /\ \A q \in Pending : q[1] # c
  BY <1>1, <1>3 DEF Answered, Pending
<1>5. ~User!HasCommitted(c) /\ ~User!HasAsked(c)
  BY <1>2, <1>4 DEF User!HasCommitted, User!HasAsked
<1>6. User!Commit(c)
  BY <1>1, <1>5 DEF User!Commit
<1> QED
  BY <1>1, <1>6 DEF AbstractStep, User!Next

\* The commit of a handler.
LEMMA CommitAbstract ==
  ASSUME IInv, OneRowEach, NEW h \in Handlers, Commit(h)
  PROVE  AbstractStep
<1>1. /\ Exists(tx[h]) /\ op[h] # "read"
      /\ pc[h] = "commit" /\ pc'[h] = "answer"
      /\ db' = tx[h] /\ committed' = committed \cup {tx[h]}
      /\ \A k \in Handlers \ {h} : pc'[k] = pc[k] /\ val'[k] = val[k]
      /\ UNCHANGED <<op, asOf>>
  BY DEF IInv, Phases, Written, Commit, TypeOK
<1>2. GaveUp' = GaveUp
  BY <1>1 DEF GaveUp
<1>3. Pending' = Pending
  BY <1>1 DEF Pending
<1>4. Answered' = Answered
  BY <1>1 DEF Answered
<1> QED
  BY <1>1, <1>2, <1>3, <1>4, CommitIsCommit

\* A leaked transaction ends elsewhere: nothing, or the late commit of a client
\* that gave up.
LEMMA ElsewhereAbstract ==
  ASSUME IInv, OneRowEach, NEW l \in Handlers, Elsewhere(l)
  PROVE  AbstractStep
<1>1. /\ pc[l] = "leaked" /\ pc'[l] = "failed"
      /\ \A k \in Handlers \ {l} : pc'[k] = pc[k]
      /\ UNCHANGED <<op, asOf, val>>
  BY DEF IInv, TypeOK, Elsewhere
<1>2. GaveUp' = GaveUp
  BY <1>1 DEF GaveUp
<1>3. Pending' = Pending
  BY <1>1 DEF Pending, Working, CallSteps, SetSteps
<1>4. Answered' = Answered
  BY <1>1 DEF Answered
<1>5. CASE UNCHANGED <<db, committed>>
  BY <1>2, <1>3, <1>4, <1>5, StutterStep
<1>6. CASE Exists(tx[l]) /\ db' = tx[l] /\ committed' = committed \cup {tx[l]}
  BY <1>2, <1>3, <1>4, <1>6, CommitIsCommit
<1> QED
  BY <1>5, <1>6 DEF Elsewhere

\* The response of a writer is nothing to the abstract user, an error in its
\* place is giving up.
LEMMA ResponseAbstract ==
  ASSUME IInv, NEW h \in Handlers, Answer(h) \/ AnswerFails(h)
  PROVE  AbstractStep
<1>0. /\ TypeOK /\ pc[h] = "answer" /\ op[h] # "read"
      /\ UNCHANGED <<db, committed, op, asOf, val>>
      /\ \A k \in Handlers \ {h} : pc'[k] = pc[k]
  BY DEF IInv, Phases, TypeOK, Answer, AnswerFails
<1>1. CASE Answer(h)
  <2>1. pc'[h] = "done"
    BY <1>0, <1>1 DEF Answer, TypeOK
  <2>2. GaveUp' = GaveUp
    BY <1>0, <2>1 DEF GaveUp
  <2>3. Pending' = Pending
    BY <1>0, <2>1 DEF Pending
  <2>4. Answered' = Answered
    BY <1>0, <2>1 DEF Answered
  <2> QED
    BY <1>0, <2>2, <2>3, <2>4, StutterStep
<1>2. CASE AnswerFails(h)
  <2>1. pc'[h] = "failed"
    BY <1>0, <1>2 DEF AnswerFails, TypeOK
  <2> QED
    BY <1>0, <2>1, GiveUpStep
<1> QED
  BY <1>1, <1>2

-----------------------------------------------------------------------------
\* The error paths.
LEMMA RollbackOrLeakAbstract ==
  ASSUME TypeOK, NEW h \in Handlers, pc[h] \in Working \cup {"leaked"},
         Rollback(h) \/ Leak(h) \/ ErrorReturn(h),
         UNCHANGED <<db, committed, op, asOf>>
  PROVE  AbstractStep
<1>1. /\ pc'[h] \in {"failed", "leaked"}
      /\ \A k \in Handlers \ {h} : pc'[k] = pc[k] /\ val'[k] = val[k]
  BY DEF TypeOK, Rollback, Leak, ErrorReturn
<1> QED
  BY <1>1, GiveUpStep

\* Every step of the cache service that succeeds.
LEMMA CacheStep ==
  ASSUME IInv, IInv', OneRowEach, NEW h \in Handlers, pc[h] \in Working,
         NEW next, pc' = [pc EXCEPT ![h] = next],
         next \in Working \/ next = AfterCall(h),
         \A k \in Handlers \ {h} : val'[k] = val[k],
         UNCHANGED <<db, committed, op, asOf>>
  PROVE  AbstractStep
<1>1. TypeOK /\ pc'[h] = next /\ \A k \in Handlers \ {h} : pc'[k] = pc[k]
  BY DEF IInv, TypeOK
<1>2. next \in Working \/ (next = "done" /\ op[h] = "read")
  BY DEF AfterCall, Working
<1> QED
  BY <1>1, <1>2, WorkStep, AnswerStep

LEMMA CacheCallAbstract ==
  ASSUME IInv, IInv', OneRowEach, NEW h \in Handlers, CacheCall(h)
  PROVE  AbstractStep
<1> USE DEF Working, CallSteps, SetSteps
<1>0. TypeOK
  BY DEF IInv
<1>1. CASE GetPrimary(h)
  <2>1. PICK next \in {"check", "load"} : pc' = [pc EXCEPT ![h] = next]
    BY <1>1 DEF GetPrimary
  <2> QED
    BY <1>0, <1>1, <2>1, CacheStep DEF GetPrimary, TypeOK
<1>2. CASE CheckVersion(h)
  <2>1. CASE ErrorReturn(h)
    BY <1>0, <1>2, <2>1, RollbackOrLeakAbstract DEF CheckVersion
  <2>2. CASE ~ErrorReturn(h)
    <3>1. PICK next \in {AfterCall(h), "load"} : pc' = [pc EXCEPT ![h] = next]
      BY <1>2, <2>2 DEF CheckVersion
    <3> QED
      BY <1>2, <2>2, <3>1, CacheStep DEF CheckVersion
  <2> QED
    BY <2>1, <2>2
<1>3. CASE LoadUser(h)
  <2>1. CASE ErrorReturn(h)
    BY <1>0, <1>3, <2>1, RollbackOrLeakAbstract DEF LoadUser
  <2>2. CASE ~ErrorReturn(h)
    BY <1>0, <1>3, <2>2, CacheStep DEF LoadUser, TypeOK
  <2> QED
    BY <2>1, <2>2
<1>4. CASE SetIdentifier(h) \/ SetClientId(h) \/ SetEmail(h)
  BY <1>4, CacheStep DEF SetIdentifier, SetClientId, SetEmail, SetKey
<1> QED
  BY <1>1, <1>2, <1>3, <1>4 DEF CacheCall

LEMMA WriteStepAbstract ==
  ASSUME IInv, IInv', OneRowEach, NEW h \in Handlers, WriteStep(h)
  PROVE  AbstractStep
<1>0. TypeOK
  BY DEF IInv
<1>1. CASE WriteFails(h)
  BY <1>0, <1>1, RollbackOrLeakAbstract DEF WriteFails, Working
<1>2. ASSUME NEW status, NEW token, NEW email, pc[h] = "write", Write(h, status, token, email)
      PROVE  AbstractStep
  BY <1>2, CacheStep DEF Write, Working, CallSteps
<1> QED
  BY <1>1, <1>2 DEF WriteStep, WriteCreate, WriteUpdate, WriteRefresh, WriteDeactivate,
     WriteVerify, WriteReissue, WriteEmailFlag

LEMMA EntryAbstract ==
  ASSUME IInv, IInv', OneRowEach, NEW h \in Handlers,
         LookupClientId(h) \/ CheckToken(h) \/ BeginClean(h)
  PROVE  AbstractStep
<1>0. TypeOK
  BY DEF IInv
<1>1. pc[h] \in Working
  BY DEF LookupClientId, CheckToken, BeginClean, Working
<1>2. CASE Rollback(h)
  BY <1>0, <1>1, <1>2, RollbackOrLeakAbstract DEF LookupClientId, CheckToken, BeginClean
<1>3. CASE ~Rollback(h)
  <2>1. PICK next \in {"begin", "get", "write"} : pc' = [pc EXCEPT ![h] = next]
    BY <1>3 DEF LookupClientId, CheckToken, BeginClean, AfterBegin
  <2>2. next \in Working
    BY DEF Working, CallSteps
  <2>3. \A k \in Handlers \ {h} : val'[k] = val[k]
    BY <1>0, <1>3 DEF LookupClientId, CheckToken, BeginClean, TypeOK
  <2>4. UNCHANGED <<db, committed, op, asOf>>
    BY DEF LookupClientId, CheckToken, BeginClean
  <2> QED
    BY <1>1, <2>1, <2>2, <2>3, <2>4, CacheStep
<1> QED
  BY <1>2, <1>3

LEMMA FaultAbstract ==
  ASSUME IInv, IInv', OneRowEach, NEW h \in Handlers, Fault(h)
  PROVE  AbstractStep
<1>0. TypeOK
  BY DEF IInv
<1>1. CASE SetSwallowed(h)
  BY <1>1, CacheStep DEF SetSwallowed, Working, CallSteps
<1>2. CASE RedisFails(h) \/ Abort(h) \/ DeactivateForgets(h)
  BY <1>0, <1>2, RollbackOrLeakAbstract
     DEF RedisFails, Abort, DeactivateForgets, Working, CallSteps
<1>3. CASE AnswerFails(h)
  BY <1>3, ResponseAbstract
<1> QED
  BY <1>1, <1>2, <1>3 DEF Fault

\* Taking over the connection of a handler that has given up changes nothing
\* of the user; being rejected on it is giving up.
LEMMA InheritAbstract ==
  ASSUME IInv, OneRowEach, NEW h \in Handlers, NEW l \in Handlers,
         BeginInherits(h, l) \/ BeginRejected(h, l)
  PROVE  AbstractStep
<1>0. /\ TypeOK /\ pc[h] = "begin" /\ pc[l] = "leaked" /\ h # l
      /\ UNCHANGED <<db, committed, op, asOf>>
      /\ pc'[l] = "failed"
      /\ \A k \in Handlers \ {h, l} : pc'[k] = pc[k]
      /\ \A k \in Handlers \ {h} : val'[k] = val[k]
  BY DEF IInv, TypeOK, BeginInherits, BeginRejected, Leaked
<1> USE DEF Working, CallSteps, SetSteps
<1>1. CASE BeginInherits(h, l)
  <2>1. pc'[h] \in {"get", "write"}
    BY <1>0, <1>1 DEF BeginInherits, AfterBegin, TypeOK
  <2>2. GaveUp' = GaveUp
    BY <1>0, <2>1 DEF GaveUp
  <2>3. Pending' = Pending
    BY <1>0, <2>1 DEF Pending
  <2>4. Answered' = Answered
    BY <1>0, <2>1 DEF Answered
  <2> QED
    BY <1>0, <2>2, <2>3, <2>4, StutterStep
<1>2. CASE BeginRejected(h, l)
  <2>1. pc'[h] = "failed"
    BY <1>0, <1>2 DEF BeginRejected, TypeOK
  <2>2. GaveUp' = GaveUp \cup {h}
    BY <1>0, <2>1 DEF GaveUp
  <2>3. Pending' = {q \in Pending : q[1] # h}
    BY <1>0, <2>1 DEF Pending
  <2>4. Answered' = Answered /\ Answered[h] = NoRow /\ h \notin GaveUp
    BY <1>0, <2>1 DEF Answered, GaveUp
  <2>5. User!GiveUp(h)
    BY <1>0, <2>2, <2>3, <2>4 DEF User!GiveUp
  <2> QED
    BY <2>5 DEF AbstractStep, User!Next
<1> QED
  BY <1>1, <1>2

-----------------------------------------------------------------------------
LEMMA InitAbstract == Init => User!Init /\ OneRowEach
<1> SUFFICES ASSUME Init PROVE User!Init /\ OneRowEach
  OBVIOUS
<1>1. \A h \in Handlers : pc[h] = "idle"
  BY DEF Init
<1>2. GaveUp = {} /\ Pending = {}
  BY <1>1 DEF GaveUp, Pending, Working, CallSteps, SetSteps
<1>3. Answered = [h \in Handlers |-> NoRow]
  BY <1>1 DEF Answered
<1>4. committed = {db} \ {NoRow}
  BY DEF Init
<1>5. \A r \in committed : r.by = "earlier"
  BY <1>4 DEF Init
<1>6. OneRowEach
  BY <1>5, HandlersAssumption, NoRowFacts DEF OneRowEach, Init
<1> QED
  BY <1>2, <1>3, <1>4, <1>6 DEF User!Init

LEMMA NextAbstract ==
  ASSUME IInv, IInv', OneRowEach, [Next]_vars
  PROVE  AbstractStep /\ OneRowEach'
<1>1. CASE UNCHANGED vars
  BY <1>1, StutterStep DEF vars, GaveUp, Pending, Answered, OneRowEach, Exists
<1>2. CASE Next
  <2>1. ASSUME NEW h \in Handlers, Arrive(h) PROVE AbstractStep
    BY <2>1, AskStep
  <2>2. ASSUME NEW h \in Handlers, Progress(h) PROVE AbstractStep
    BY <2>2, EntryAbstract, CacheCallAbstract, WriteStepAbstract, CommitAbstract,
       ResponseAbstract DEF Progress
  <2>3. ASSUME NEW h \in Handlers, Fault(h) PROVE AbstractStep
    BY <2>3, FaultAbstract
  <2>4. ASSUME NEW h \in Handlers, NEW l \in Handlers, BeginInherits(h, l) \/ BeginRejected(h, l)
        PROVE  AbstractStep
    BY <2>4, InheritAbstract
  <2>5. ASSUME NEW h \in Handlers, Elsewhere(h) PROVE AbstractStep
    BY <2>5, ElsewhereAbstract
  <2>6. AbstractStep
    BY <1>2, <2>1, <2>2, <2>3, <2>4, <2>5 DEF Next
  <2> QED
    BY <1>2, <2>6, OneRowEachStep
<1> QED
  BY <1>1, <1>2

\* No row is committed twice and no handler commits two, whatever error it is
\* answered with and whoever goes on in the transaction it left: a handler with
\* a committed row never works again.
THEOREM CommitsAreUnique == Spec => []OneRowEach
<1>1. IInv /\ IInv' /\ OneRowEach /\ [Next]_vars => OneRowEach'
  BY NextAbstract
<1>2. Init => OneRowEach
  BY InitAbstract
<1> QED
  BY <1>1, <1>2, Inductive, PTL DEF Spec

\* The module implements the versioned user, for any handlers, addresses,
\* operations and faults.
THEOREM Refinement == Spec => ImplementsVersionedUser
<1>1. Init => User!Init
  BY InitAbstract
<1>2. IInv /\ IInv' /\ OneRowEach /\ [Next]_vars => [User!Next]_(User!vars)
  BY NextAbstract DEF AbstractStep
<1> QED
  BY <1>1, <1>2, Inductive, CommitsAreUnique, PTL DEF Spec, User!Spec, ImplementsVersionedUser

================================================================================
