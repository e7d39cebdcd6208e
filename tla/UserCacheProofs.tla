---------------------------- MODULE UserCacheProofs ----------------------------
(***************************************************************************)
(* IInv is an inductive invariant of UserCache, for any set of handlers,   *)
(* of addresses, of operations and of faults.                              *)
(***************************************************************************)
EXTENDS UserCache, TLAPS

LEMMA NoRowFacts == /\ ~Exists(NoRow)
                    /\ \A r \in Row : Exists(r) /\ r.ver \in Nat \ {0} /\ r.by \in Writers
                                      /\ r.status \in Status /\ r.token \in BOOLEAN /\ r.email \in Emails
                    /\ \A r \in Row \cup {NoRow} : /\ Exists(r) => r \in Row
                                                 /\ r.ver \in Nat
                                                 /\ r.status \in Status
                                                 /\ r.token \in BOOLEAN
                                                 /\ r.email \in Emails
<1>1. (CHOOSE e \in Emails : TRUE) \in Emails
  BY EmailsAssumption, Zenon
<1>2. /\ NoRow.ver = 0 /\ NoRow.status \in Status /\ NoRow.token \in BOOLEAN
      /\ NoRow.email \in Emails
  BY <1>1 DEF NoRow, Status
<1>3. \A r \in Row : Exists(r) /\ r.ver \in Nat /\ r.ver \in Nat \ {0} /\ r.by \in Writers
                      /\ r.status \in Status /\ r.token \in BOOLEAN /\ r.email \in Emails
  BY DEF Exists, Row
<1> QED
  BY <1>2, <1>3 DEF Exists

\* A handler whose transaction ends keeps nothing, and its rows become settled.
LEMMA RollbackStep ==
  ASSUME IInv, NEW h \in Handlers, pc[h] \in Working \cup {"leaked"}, Rollback(h),
         UNCHANGED <<db, committed, redis, op, asOf>>
  PROVE  IInv'
<1> USE NoRowFacts, HandlersAssumption DEF IInv
<1>1. TypeOK'
  BY DEF TypeOK, Rollback, FreeLock, Working, Places, Ended
<1>2. VersionNamesOneCommit'
  BY DEF VersionNamesOneCommit
<1>3. OpenWriteHoldsLock'
  BY DEF OpenWriteHoldsLock, Rollback, FreeLock, TypeOK
<1>4. OpenWriteAuthor'
  BY DEF OpenWriteAuthor, Rollback, TypeOK
<1>5. Phases'
  BY DEF Phases, Rollback, TypeOK, Written
<1>6. \A r : Settled(r) => Settled(r)'
  BY DEF Settled, Rollback, TypeOK
<1>7. \A r : Accounted(r) => Accounted(r)'
  BY <1>6 DEF Accounted, Settled, Rollback, TypeOK
<1>8. Provenance'
  BY <1>7 DEF Provenance, Rollback, TypeOK
<1>9. ReadAnswers'
  BY <1>6 DEF ReadAnswers, Rollback, TypeOK, SetSteps
<1> QED
  BY <1>1, <1>2, <1>3, <1>4, <1>5, <1>8, <1>9

\* A handler that releases its connection without a rollback keeps the
\* transaction open, the lock with it, and its rows become settled.
LEMMA LeakStep ==
  ASSUME IInv, NEW h \in Handlers, pc[h] \in Working, op[h] # "read", Leak(h),
         UNCHANGED <<db, committed, redis, op, asOf>>
  PROVE  IInv'
<1> USE NoRowFacts, HandlersAssumption DEF IInv
<1>1. TypeOK'
  BY DEF TypeOK, Leak, Working, Places, Ended
<1>2. VersionNamesOneCommit'
  BY DEF VersionNamesOneCommit
<1>3. OpenWriteHoldsLock'
  BY DEF OpenWriteHoldsLock, Leak, TypeOK
<1>4. OpenWriteAuthor'
  BY DEF OpenWriteAuthor, Leak, TypeOK, Working, CallSteps, SetSteps
<1>5. Phases'
  BY DEF Phases, Leak, TypeOK, Written
<1>6. \A r : Settled(r) => Settled(r)'
  BY DEF Settled, Leak, TypeOK
<1>7. \A r : Accounted(r) => Accounted(r)'
  BY <1>6 DEF Accounted, Settled, Leak, TypeOK
<1>8. Provenance'
  BY <1>7 DEF Provenance, Leak, TypeOK
<1>9. ReadAnswers'
  BY <1>6 DEF ReadAnswers, Leak, TypeOK, SetSteps
<1> QED
  BY <1>1, <1>2, <1>3, <1>4, <1>5, <1>8, <1>9

LEMMA ErrorReturnStep ==
  ASSUME IInv, NEW h \in Handlers, pc[h] \in Working, ErrorReturn(h),
         UNCHANGED <<db, committed, redis, op, asOf>>
  PROVE  IInv'
<1>1. CASE op[h] \in Forgetful /\ InTx(h)
  BY <1>1, LeakStep DEF ErrorReturn, Forgetful
<1>2. CASE ~(op[h] \in Forgetful /\ InTx(h))
  BY <1>2, RollbackStep DEF ErrorReturn
<1> QED
  BY <1>1, <1>2

\* What a query returns is a row or nothing; outside a transaction the row is
\* the committed one, or the newer row of a leaked transaction.
LEMMA QueryResult ==
  ASSUME IInv, NEW h \in Handlers, NEW row \in Views(h)
  PROVE  /\ row \in Row \cup {NoRow}
         /\ Exists(row) => Accounted(row)
         /\ op[h] = "read" =>
              /\ Exists(row) => Settled(row)
              /\ row.ver >= db.ver
              /\ row = db \/ \E l \in Leaked : lock = l /\ row = tx[l]
<1> USE NoRowFacts DEF IInv
<1>1. db \in Row \cup {NoRow} /\ (Exists(db) => Settled(db)) /\ db.ver \in Nat
  BY DEF TypeOK, VersionNamesOneCommit, Settled
<1>2. ASSUME NEW k \in Handlers, Exists(tx[k])
      PROVE  tx[k] \in Row /\ Accounted(tx[k])
  BY <1>2 DEF TypeOK, OpenWriteAuthor, Accounted, Settled
<1>3. ASSUME NEW l \in Leaked, Exists(tx[l])
      PROVE  /\ tx[l] \in Row
             /\ Settled(tx[l])
             /\ tx[l].ver >= db.ver
             /\ lock = l
  BY <1>1, <1>3 DEF TypeOK, Leaked, OpenWriteAuthor, OpenWriteHoldsLock, Settled
<1>4. CASE InTx(h)
  <2>1. row = TxView(h)
    BY <1>4 DEF Views
  <2>2. op[h] # "read"
    BY <1>4 DEF InTx, Phases, Written, TxFirst
  <2>3. Exists(snap[h]) => snap[h] \in Row /\ Settled(snap[h])
    BY DEF Phases, TypeOK, Settled
  <2> QED
    BY <1>1, <1>2, <2>1, <2>2, <2>3 DEF TxView, Accounted
<1>5. CASE ~InTx(h)
  <2>1. row = db \/ \E l \in Leaked : Exists(tx[l]) /\ row = tx[l]
    BY <1>5 DEF Views
  <2> QED
    BY <1>1, <1>3, <2>1 DEF Accounted
<1> QED
  BY <1>4, <1>5

\* The start of a handler.
LEMMA StartStep ==
  ASSUME IInv, NEW h \in Handlers, NEW o \in AllOps, NEW first,
         Start(h, o, first),
         \/ first = "get" /\ o \in {"read", "deactivate"}
         \/ first \in {"lookup", "token", "begin"} /\ o # "read"
  PROVE  IInv'
<1> USE NoRowFacts, HandlersAssumption DEF IInv, Start
<1>1. TypeOK'
  BY DEF TypeOK, Places, Working, CallSteps, Row
<1>2. VersionNamesOneCommit'
  BY DEF VersionNamesOneCommit
<1>3. OpenWriteHoldsLock'
  BY DEF OpenWriteHoldsLock
<1>4. OpenWriteAuthor'
  BY DEF OpenWriteAuthor, TypeOK
<1>5. Phases'
  BY DEF Phases, TypeOK, Written
<1>6. \A r : Settled(r) => Settled(r)'
  BY DEF Settled, TypeOK
<1>7. \A r : Accounted(r) => Accounted(r)'
  BY <1>6 DEF Accounted
<1>8. Provenance'
  BY <1>7 DEF Provenance
<1>9. ReadAnswers'
  BY <1>6 DEF ReadAnswers, TypeOK, SetSteps, Row
<1> QED
  BY <1>1, <1>2, <1>3, <1>4, <1>5, <1>8, <1>9

\* Where the cache service returns to.
LEMMA AfterCallFacts ==
  ASSUME IInv, NEW h \in Handlers
  PROVE  /\ AfterCall(h) \in {"commit", "done", "begin", "write"}
         /\ AfterCall(h) = "commit" <=> Written(h)
         /\ AfterCall(h) = "done" => op[h] = "read"
         /\ AfterCall(h) \in {"begin", "done"} => ~Exists(tx[h])
         /\ op[h] = "read" => AfterCall(h) = "done"
<1> USE NoRowFacts DEF IInv
<1>1. op[h] = "read" => ~Exists(tx[h])
  BY DEF Phases
<1>2. op[h] = "deactivate" /\ ~Written(h) => ~Exists(tx[h])
  BY DEF Phases, Serializable, Written
<1> QED
  BY <1>1, <1>2 DEF AfterCall, Written

\* A step that moves a handler on and may change the user it holds, its
\* snapshot and one redis key, but writes nothing to the database.
LEMMA MoveStep ==
  ASSUME IInv, NEW h \in Handlers, NEW next, NEW user \in Row \cup {NoRow},
         pc[h] \in Working,
         pc' = [pc EXCEPT ![h] = next],
         next \in Working \cup {"done"},
         next \in {"lookup", "token", "begin", "done"} => ~Exists(tx[h]),
         next = "write" => ~Written(h),
         next = "commit" => Written(h),
         op[h] = "read" => next \in CallSteps \cup {"done"},
         op[h] = "read" /\ next \in SetSteps \cup {"done"} =>
           Exists(user) /\ Settled(user) /\ user.ver >= asOf[h],
         val' = [val EXCEPT ![h] = user],
         Exists(user) => Accounted(user),
         snap' = snap \/ snap' = [snap EXCEPT ![h] = db],
         redis' = redis \/ \E k \in Keys : redis' = [redis EXCEPT ![k] = val[h]],
         UNCHANGED <<db, committed, lock, tx, op, asOf>>
  PROVE  IInv'
<1> USE NoRowFacts, HandlersAssumption DEF IInv
<1>1. TypeOK'
  <2>1. redis' \in [Keys -> Row \cup {NoRow}]
    BY DEF TypeOK
  <2>2. snap' \in [Handlers -> Row \cup {NoRow}]
    BY DEF TypeOK
  <2> QED
    BY <2>1, <2>2 DEF TypeOK, Places, Ended
<1>2. VersionNamesOneCommit'
  BY DEF VersionNamesOneCommit
<1>3. OpenWriteHoldsLock'
  BY DEF OpenWriteHoldsLock
<1>4. OpenWriteAuthor'
  BY DEF OpenWriteAuthor, TypeOK, Working, CallSteps, SetSteps
<1>5. Phases'
  <2>1. \A k \in Handlers : Exists(snap[k])' => snap'[k] \in committed
    BY DEF Phases, TypeOK, VersionNamesOneCommit, Exists
  <2>2. ASSUME NEW k \in Handlers
        PROVE  (pc[k] \in {"idle", "lookup", "token", "begin", "answer", "done", "failed"} => ~Exists(tx[k]))'
    BY DEF Phases, TypeOK, Working, CallSteps, SetSteps, Exists
  <2>3. ASSUME NEW k \in Handlers
        PROVE  /\ (pc[k] = "write" => ~Written(k))'
               /\ (pc[k] = "commit" => Written(k))'
               /\ (op[k] \in Serializable /\ Exists(tx[k]) => tx[k].by = k)'
               /\ (op[k] = "read" => ~Exists(tx[k])
                     /\ pc[k] \notin {"lookup", "token", "begin", "write", "commit", "answer", "leaked"})'
    BY DEF Phases, TypeOK, Written, Exists, CallSteps, SetSteps
  <2> QED
    BY <2>1, <2>2, <2>3 DEF Phases
<1>6. \A r : Settled(r) => Settled(r)'
  BY DEF Settled, TypeOK, Working, CallSteps, SetSteps
<1>7. \A r : Accounted(r) => Accounted(r)'
  BY <1>6 DEF Accounted
<1>8. Provenance'
  <2>1. \A k \in Keys : Exists(redis'[k]) => Accounted(redis'[k])
    BY DEF Provenance, TypeOK
  <2>2. \A k \in Handlers : Exists(val'[k]) => Accounted(val'[k])
    BY DEF Provenance, TypeOK
  <2> QED
    BY <1>7, <2>1, <2>2 DEF Provenance, Exists
<1>9. ReadAnswers'
  <2> SUFFICES ASSUME NEW k \in Handlers
               PROVE  /\ (asOf[k] <= db.ver)'
                      /\ (op[k] = "read" /\ pc[k] \in SetSteps \cup {"done"} =>
                           Exists(val[k]) /\ Settled(val[k]) /\ val[k].ver >= asOf[k])'
    BY DEF ReadAnswers
  <2>1. CASE k = h
    BY <1>6, <2>1 DEF ReadAnswers, TypeOK, Exists
  <2>2. CASE k # h
    BY <1>6, <2>2 DEF ReadAnswers, TypeOK, Exists
  <2> QED
    BY <2>1, <2>2
<1> QED
  BY <1>1, <1>2, <1>3, <1>4, <1>5, <1>8, <1>9

LEMMA LookupStep ==
  ASSUME IInv, NEW h \in Handlers, LookupClientId(h)  PROVE IInv'
<1> USE NoRowFacts, EmailsAssumption DEF IInv, LookupClientId
<1> DEFINE user == redis["clientId"]
<1>1. pc[h] \in Working /\ user \in Row \cup {NoRow} /\ (Exists(user) => Accounted(user))
  BY DEF Working, TypeOK, Keys, Provenance
<1>2. CASE ~Exists(user) \/ (op[h] = "update" /\ user.status = "INACTIVE")
  BY <1>1, <1>2, RollbackStep
<1>3. CASE ~(~Exists(user) \/ (op[h] = "update" /\ user.status = "INACTIVE"))
  <2>1. op[h] # "read" /\ ~Exists(tx[h])
    BY DEF Phases
  <2>2. /\ pc' = [pc EXCEPT ![h] = "begin"]
        /\ val' = [val EXCEPT ![h] = user]
        /\ UNCHANGED <<db, committed, redis, lock, tx, snap, op, asOf>>
    BY <1>3
  <2> QED
    BY <1>1, <2>1, <2>2, MoveStep DEF Working
<1> QED
  BY <1>2, <1>3

LEMMA CheckTokenStep ==
  ASSUME IInv, NEW h \in Handlers, CheckToken(h)  PROVE IInv'
<1> USE NoRowFacts DEF IInv
<1>1. PICK row \in Views(h) :
        IF row.token
          THEN /\ pc' = [pc EXCEPT ![h] = "begin"]
               /\ UNCHANGED <<lock, tx, snap, val>>
          ELSE Rollback(h)
  BY DEF CheckToken
<1>2. /\ pc[h] \in Working /\ op[h] # "read" /\ ~Exists(tx[h])
      /\ UNCHANGED <<db, committed, redis, op, asOf>>
  BY DEF CheckToken, Working, Phases
<1>3. CASE ~row.token
  BY <1>1, <1>2, <1>3, RollbackStep
<1>4. CASE row.token
  <2>1. /\ val[h] \in Row \cup {NoRow}
        /\ Exists(val[h]) => Accounted(val[h])
        /\ val' = [val EXCEPT ![h] = val[h]]
    BY <1>1, <1>4 DEF TypeOK, Provenance
  <2>2. /\ pc' = [pc EXCEPT ![h] = "begin"]
        /\ UNCHANGED <<lock, tx, snap, val>>
    BY <1>1, <1>4
  <2> QED
    BY <1>2, <2>1, <2>2, MoveStep DEF Working
<1> QED
  BY <1>3, <1>4

LEMMA BeginCleanStep ==
  ASSUME IInv, NEW h \in Handlers, BeginClean(h)  PROVE IInv'
<1> USE DEF IInv, BeginClean
<1>1. pc[h] \in Working /\ op[h] # "read" /\ ~Exists(tx[h])
  BY DEF Working, Phases
<1>2. /\ val[h] \in Row \cup {NoRow}
      /\ Exists(val[h]) => Accounted(val[h])
      /\ val' = [val EXCEPT ![h] = val[h]]
  BY DEF TypeOK, Provenance
<1>3. AfterBegin(h) \in {"get", "write"}
  BY DEF AfterBegin
<1> QED
  BY <1>1, <1>2, <1>3, MoveStep DEF Working, CallSteps, SetSteps, Written

LEMMA GetPrimaryStep ==
  ASSUME IInv, NEW h \in Handlers, GetPrimary(h)  PROVE IInv'
<1> USE NoRowFacts, EmailsAssumption DEF IInv, GetPrimary
<1> DEFINE user == redis["identifier"]
           next == IF Exists(user) THEN "check" ELSE "load"
<1>1. pc[h] \in Working /\ user \in Row \cup {NoRow} /\ (Exists(user) => Accounted(user))
  BY DEF Working, CallSteps, TypeOK, Keys, Provenance
<1>2. /\ pc' = [pc EXCEPT ![h] = next]
      /\ val' = [val EXCEPT ![h] = user]
      /\ next \in {"check", "load"}
  OBVIOUS
<1> QED
  BY <1>1, <1>2, MoveStep DEF Working, CallSteps, SetSteps

\* The version check: a read takes a hit only for a row it can answer with.
LEMMA CheckVersionStep ==
  ASSUME IInv, NEW h \in Handlers, CheckVersion(h)  PROVE IInv'
<1> USE NoRowFacts DEF IInv
<1> DEFINE rejected(row) == ~Found(h, row) \/ (row.ver = val[h].ver /\ ~Accepted(h))
<1>1. PICK row \in Views(h) :
        IF rejected(row)
          THEN ErrorReturn(h)
          ELSE /\ pc' = [pc EXCEPT ![h] = IF row.ver = val[h].ver THEN AfterCall(h) ELSE "load"]
               /\ snap' = Snapshot(h)
               /\ UNCHANGED <<lock, tx, val>>
  BY DEF CheckVersion
<1>2. /\ pc[h] = "check" /\ pc[h] \in Working
      /\ UNCHANGED <<db, committed, redis, op, asOf>>
  BY DEF CheckVersion, Working, CallSteps
<1>3. CASE rejected(row)
  BY <1>1, <1>2, <1>3, ErrorReturnStep
<1>4. CASE ~rejected(row)
  <2> DEFINE next == IF row.ver = val[h].ver THEN AfterCall(h) ELSE "load"
  <2>1. /\ row \in Row
        /\ op[h] = "read" =>
             /\ row.ver >= db.ver
             /\ row = db \/ \E l \in Leaked : lock = l /\ row = tx[l]
    BY <1>4, QueryResult DEF Found
  <2>2. /\ val[h] \in Row \cup {NoRow}
        /\ Exists(val[h]) => Accounted(val[h])
        /\ val' = [val EXCEPT ![h] = val[h]]
    BY <1>1, <1>4 DEF TypeOK, Provenance
  <2>3. ASSUME op[h] = "read", next \in SetSteps \cup {"done"}
        PROVE  Exists(val[h]) /\ Settled(val[h]) /\ val[h].ver >= asOf[h]
    <3>1. row.ver = val[h].ver
      BY <2>3 DEF SetSteps
    <3>2. Exists(val[h]) /\ Accounted(val[h]) /\ val[h] \in Row
      BY <2>1, <2>2, <3>1 DEF Exists
    <3>3. val[h].ver >= asOf[h]
      BY <2>1, <2>3, <3>1 DEF ReadAnswers, TypeOK
    <3>4. CASE val[h] = tx[val[h].by] /\ val[h].by \in Handlers
      <4>1. lock = val[h].by /\ val[h].ver > db.ver
        BY <3>2, <3>4 DEF OpenWriteHoldsLock
      <4>2. row # db
        BY <2>1, <3>1, <4>1 DEF TypeOK
      <4>3. val[h].by \in Leaked
        BY <2>1, <2>3, <4>1, <4>2
      <4> QED
        BY <3>2, <3>3, <4>3 DEF Leaked, Settled
    <3> QED
      BY <3>2, <3>3, <3>4 DEF Accounted
  <2>4. next \in Working \cup {"done"}
    BY AfterCallFacts DEF Working, CallSteps
  <2>5. snap' = snap \/ snap' = [snap EXCEPT ![h] = db]
    BY <1>1, <1>4 DEF Snapshot
  <2>6. /\ next \in {"lookup", "token", "begin", "done"} => ~Exists(tx[h])
        /\ next = "write" => ~Written(h)
        /\ next = "commit" => Written(h)
        /\ op[h] = "read" => next \in CallSteps \cup {"done"}
    BY AfterCallFacts DEF CallSteps
  <2>7. pc' = [pc EXCEPT ![h] = next] /\ UNCHANGED <<lock, tx>>
    BY <1>1, <1>4
  <2> HIDE DEF next
  <2> QED
    BY <1>2, <2>2, <2>3, <2>4, <2>5, <2>6, <2>7, MoveStep
<1> QED
  BY <1>3, <1>4

LEMMA LoadUserStep ==
  ASSUME IInv, NEW h \in Handlers, LoadUser(h)  PROVE IInv'
<1> USE NoRowFacts DEF IInv
<1>1. PICK row \in Views(h) :
        IF ~Found(h, row)
          THEN ErrorReturn(h)
          ELSE /\ val' = [val EXCEPT ![h] = row]
               /\ pc' = [pc EXCEPT ![h] = "setIdentifier"]
               /\ snap' = Snapshot(h)
               /\ UNCHANGED <<lock, tx>>
  BY DEF LoadUser
<1>2. /\ pc[h] \in Working
      /\ UNCHANGED <<db, committed, redis, op, asOf>>
  BY DEF LoadUser, Working, CallSteps
<1>3. CASE ~Found(h, row)
  BY <1>1, <1>2, <1>3, ErrorReturnStep
<1>4. CASE Found(h, row)
  <2>1. /\ row \in Row
        /\ Accounted(row)
        /\ op[h] = "read" => Settled(row) /\ row.ver >= db.ver
    BY <1>4, QueryResult DEF Found
  <2>2. op[h] = "read" => row.ver >= asOf[h]
    BY <2>1 DEF ReadAnswers, TypeOK
  <2>3. snap' = snap \/ snap' = [snap EXCEPT ![h] = db]
    BY <1>1, <1>4 DEF Snapshot
  <2> QED
    BY <1>1, <1>2, <1>4, <2>1, <2>2, <2>3, MoveStep DEF Working, CallSteps, SetSteps
<1> QED
  BY <1>3, <1>4

\* A set that succeeds, or that fails and is swallowed.
LEMMA SetStep ==
  ASSUME IInv, NEW h \in Handlers, NEW next,
         pc[h] \in SetSteps,
         next \in SetSteps \/ next = AfterCall(h),
         pc' = [pc EXCEPT ![h] = next],
         redis' = redis \/ \E k \in Keys : redis' = [redis EXCEPT ![k] = val[h]],
         UNCHANGED <<db, committed, lock, tx, snap, op, val, asOf>>
  PROVE  IInv'
<1> USE DEF IInv
<1>1. /\ val[h] \in Row \cup {NoRow}
      /\ Exists(val[h]) => Accounted(val[h])
      /\ val' = [val EXCEPT ![h] = val[h]]
  BY DEF TypeOK, Provenance
<1>2. op[h] = "read" => Exists(val[h]) /\ Settled(val[h]) /\ val[h].ver >= asOf[h]
  BY DEF ReadAnswers
<1>3. /\ pc[h] \in Working
      /\ next \in Working \cup {"done"}
      /\ next \in {"lookup", "token", "begin", "done"} => ~Exists(tx[h])
      /\ next = "write" => ~Written(h)
      /\ next = "commit" => Written(h)
      /\ op[h] = "read" => next \in CallSteps \cup {"done"}
  BY AfterCallFacts DEF Working, CallSteps, SetSteps
<1> QED
  BY <1>1, <1>2, <1>3, MoveStep

LEMMA CacheSetSteps ==
  ASSUME IInv, NEW h \in Handlers,
         SetIdentifier(h) \/ SetClientId(h) \/ SetEmail(h) \/ SetSwallowed(h)
  PROVE  IInv'
<1>1. val[h].email \in Keys
  BY EmailsAssumption DEF IInv, TypeOK, Row, NoRow, Keys
<1>2. CASE SetIdentifier(h)
  BY <1>2, SetStep DEF SetIdentifier, SetKey, SetSteps, Keys
<1>3. CASE SetClientId(h)
  BY <1>3, SetStep DEF SetClientId, SetKey, SetSteps, Keys
<1>4. CASE SetEmail(h)
  <2>1. /\ pc[h] \in SetSteps
        /\ pc' = [pc EXCEPT ![h] = AfterCall(h)]
        /\ redis' = [redis EXCEPT ![val[h].email] = val[h]]
        /\ UNCHANGED <<db, committed, lock, tx, snap, op, val, asOf>>
    BY <1>4 DEF SetEmail, SetKey, SetSteps
  <2> QED
    BY <1>1, <2>1, SetStep
<1>5. CASE SetSwallowed(h)
  BY <1>5, SetStep DEF SetSwallowed
<1> QED
  BY <1>2, <1>3, <1>4, <1>5

\* The transaction of a leaked connection goes to the handler that begins on it.
LEMMA BeginInheritsStep ==
  ASSUME IInv, NEW h \in Handlers, NEW l \in Handlers, BeginInherits(h, l)
  PROVE  IInv'
<1> USE NoRowFacts, HandlersAssumption DEF IInv, BeginInherits
<1>0. /\ h # l /\ pc[h] = "begin" /\ pc[l] = "leaked"
      /\ ~Exists(tx[h]) /\ op[h] # "read" /\ op[l] # "read"
      /\ op[h] \notin Serializable
      /\ AfterBegin(h) \in {"get", "write"}
  BY DEF Leaked, Phases, AfterBegin
<1>1. TypeOK'
  BY <1>0 DEF TypeOK, Working, CallSteps, Places, Ended
<1>2. VersionNamesOneCommit'
  BY DEF VersionNamesOneCommit
<1>3. OpenWriteHoldsLock'
  BY <1>0 DEF OpenWriteHoldsLock, TypeOK
<1>4. OpenWriteAuthor'
  <2> SUFFICES ASSUME NEW k \in Handlers, Exists(tx'[k])
               PROVE  \/ tx'[k].by = k
                      \/ tx'[k].by \in Handlers /\ pc'[tx'[k].by] = "failed"
    BY DEF OpenWriteAuthor, Exists
  <2>1. CASE k = h
    BY <1>0, <2>1 DEF OpenWriteAuthor, TypeOK
  <2>2. CASE k # h
    BY <1>0, <2>2 DEF OpenWriteAuthor, TypeOK
  <2> QED
    BY <2>1, <2>2
<1>5. Phases'
  <2> SUFFICES ASSUME NEW k \in Handlers
               PROVE  /\ (pc[k] \in {"idle", "lookup", "token", "begin", "answer", "done", "failed"} => ~Exists(tx[k]))'
                      /\ (pc[k] = "write" => ~Written(k))'
                      /\ (pc[k] = "commit" => Written(k))'
                      /\ (op[k] \in Serializable /\ Exists(tx[k]) => tx[k].by = k)'
                      /\ (op[k] = "read" => ~Exists(tx[k])
                            /\ pc[k] \notin {"lookup", "token", "begin", "write", "commit", "answer", "leaked"})'
                      /\ (Exists(snap[k]) => snap[k] \in committed)'
    BY DEF Phases
  <2>1. CASE k = h
    <3>1. Exists(tx'[k]) => tx'[k].by # h
      BY <1>0, <2>1 DEF OpenWriteAuthor, TypeOK
    <3> QED
      BY <1>0, <2>1, <3>1 DEF Phases, TypeOK, Written, Exists
  <2>2. CASE k = l
    BY <1>0, <2>2 DEF Phases, TypeOK, Written, Exists
  <2>3. CASE k # h /\ k # l
    BY <1>0, <2>3 DEF Phases, TypeOK, Written, Exists
  <2> QED
    BY <2>1, <2>2, <2>3
<1>6. \A r : Settled(r) => Settled(r)'
  BY <1>0 DEF Settled, TypeOK
<1>7. \A r : Accounted(r) => Accounted(r)'
  <2>1. tx[h] = NoRow /\ NoRow.by \notin Handlers
    BY <1>0 DEF TypeOK, NoRow
  <2>2. ASSUME NEW r, r.by \in Handlers, r = tx[r.by], r.by # l
        PROVE  Accounted(r)'
    BY <1>0, <2>1, <2>2 DEF Accounted, TypeOK
  <2>3. ASSUME NEW r, r.by = l
        PROVE  Settled(r)'
    BY <1>0, <2>3 DEF Settled, TypeOK
  <2> QED
    BY <1>6, <2>2, <2>3 DEF Accounted
<1>8. Provenance'
  BY <1>7 DEF Provenance, Exists
<1>9. ReadAnswers'
  BY <1>0, <1>6 DEF ReadAnswers, TypeOK, SetSteps
<1> QED
  BY <1>1, <1>2, <1>3, <1>4, <1>5, <1>8, <1>9

LEMMA BeginRejectedStep ==
  ASSUME IInv, NEW h \in Handlers, NEW l \in Handlers, BeginRejected(h, l)
  PROVE  IInv'
<1> USE NoRowFacts, HandlersAssumption DEF IInv, BeginRejected
<1>0. /\ h # l /\ pc[h] = "begin" /\ pc[l] = "leaked" /\ ~Exists(tx[h])
      /\ op[h] # "read" /\ op[l] # "read"
  BY DEF Leaked, Phases
<1>1. TypeOK'
  BY DEF TypeOK, FreeLock, Places, Ended
<1>2. VersionNamesOneCommit'
  BY DEF VersionNamesOneCommit
<1>3. OpenWriteHoldsLock'
  BY DEF OpenWriteHoldsLock, FreeLock, TypeOK
<1>4. OpenWriteAuthor'
  BY <1>0 DEF OpenWriteAuthor, TypeOK
<1>5. Phases'
  BY <1>0 DEF Phases, TypeOK, Written
<1>6. \A r : Settled(r) => Settled(r)'
  BY DEF Settled, TypeOK
<1>7. \A r : Accounted(r) => Accounted(r)'
  BY <1>0, <1>6 DEF Accounted, Settled, TypeOK
<1>8. Provenance'
  BY <1>7 DEF Provenance, TypeOK
<1>9. ReadAnswers'
  BY <1>0, <1>6 DEF ReadAnswers, TypeOK, SetSteps
<1> QED
  BY <1>1, <1>2, <1>3, <1>4, <1>5, <1>8, <1>9

\* The row lock makes the new row the only open one, one version ahead.
LEMMA RowWritten ==
  ASSUME IInv, NEW h \in Handlers, NEW status \in Status, NEW token \in BOOLEAN, NEW email \in Emails,
         pc[h] = "write", Write(h, status, token, email)
  PROVE  IInv'
<1> USE NoRowFacts, HandlersAssumption DEF IInv
<1> DEFINE new == [ver |-> Current(h).ver + 1, by |-> h, status |-> status,
                   token |-> token, email |-> email]
<1>0. /\ tx' = [tx EXCEPT ![h] = new]
      /\ pc' = [pc EXCEPT ![h] = "get"]
      /\ lock' = h /\ lock \in {"free", h}
      /\ UNCHANGED <<db, committed, redis, snap, op, val, asOf>>
  BY DEF Write, CanLock
<1>a. /\ new \in Row /\ new.ver > db.ver /\ new.by = h
      /\ Exists(new)
  <2>1. Current(h).ver \in Nat /\ Current(h).ver >= db.ver
    BY DEF Current, TypeOK, OpenWriteHoldsLock
  <2> QED
    BY <2>1 DEF TypeOK, Row, Writers, Exists
<1>b. \A k \in Handlers : k # h => ~Exists(tx[k])
  BY <1>0 DEF OpenWriteHoldsLock
<1>c. ~Written(h) /\ op[h] # "read" /\ pc[h] # "failed"
  BY DEF Phases
<1> HIDE DEF new
<1>1. TypeOK'
  BY <1>0, <1>a DEF TypeOK, Places, Working, CallSteps
<1>2. VersionNamesOneCommit'
  BY <1>0 DEF VersionNamesOneCommit
<1>3. OpenWriteHoldsLock'
  BY <1>0, <1>a, <1>b DEF OpenWriteHoldsLock, TypeOK
<1>4. OpenWriteAuthor'
  BY <1>0, <1>a, <1>b DEF OpenWriteAuthor, TypeOK
<1>5. Phases'
  BY <1>0, <1>a, <1>c DEF Phases, TypeOK, Written
<1>6. \A r : Settled(r) => Settled(r)'
  BY <1>0 DEF Settled, TypeOK
<1>7. ASSUME NEW r, Exists(r), Accounted(r)
      PROVE  Accounted(r)'
  <2>1. CASE Settled(r)
    BY <1>6, <2>1 DEF Accounted
  <2>2. CASE r.by \in Handlers /\ r = tx[r.by]
    <3>1. r.by = h
      BY <1>7, <1>b, <2>2
    <3> QED
      BY <1>7, <1>c, <2>2, <3>1 DEF Written
  <2> QED
    BY <1>7, <2>1, <2>2 DEF Accounted
<1>8. Provenance'
  BY <1>0, <1>7 DEF Provenance, Exists
<1>9. ReadAnswers'
  BY <1>0, <1>6, <1>c DEF ReadAnswers, TypeOK, SetSteps
<1> QED
  BY <1>1, <1>2, <1>3, <1>4, <1>5, <1>8, <1>9

LEMMA WriteStepInv ==
  ASSUME IInv, NEW h \in Handlers, WriteStep(h)  PROVE IInv'
<1> USE NoRowFacts DEF IInv
<1>0. Current(h) \in Row \cup {NoRow} /\ val[h] \in Row \cup {NoRow}
  BY DEF Current, TypeOK
<1>1. /\ Current(h).status \in Status /\ val[h].status \in Status
      /\ Current(h).token \in BOOLEAN /\ Current(h).email \in Emails
  BY <1>0
<1>2. CASE WriteCreate(h)
  BY <1>1, <1>2, RowWritten DEF WriteCreate, Status
<1>3. CASE WriteUpdate(h)
  BY <1>1, <1>3, RowWritten DEF WriteUpdate, MappedStatus, Status
<1>4. CASE WriteRefresh(h)
  BY <1>1, <1>4, RowWritten DEF WriteRefresh, Status
<1>5. CASE WriteDeactivate(h)
  BY <1>1, <1>5, RowWritten DEF WriteDeactivate, Status
<1>6. CASE WriteVerify(h)
  BY <1>1, <1>6, RowWritten DEF WriteVerify, Status
<1>7. CASE WriteReissue(h)
  BY <1>1, <1>7, RowWritten DEF WriteReissue, Status
<1>8. CASE WriteEmailFlag(h)
  BY <1>1, <1>8, RowWritten DEF WriteEmailFlag, Status
<1>9. CASE WriteFails(h)
  BY <1>9, RollbackStep, ErrorReturnStep DEF WriteFails, Working
<1> QED
  BY <1>2, <1>3, <1>4, <1>5, <1>6, <1>7, <1>8, <1>9 DEF WriteStep

\* The commit makes the only open row, newer than every committed one, the
\* committed row.
LEMMA CommitStep ==
  ASSUME IInv, NEW h \in Handlers, Commit(h)  PROVE IInv'
<1> USE NoRowFacts, HandlersAssumption DEF IInv, Commit
<1>0. /\ Exists(tx[h]) /\ tx[h] \in Row /\ tx[h].by = h
      /\ lock = h /\ tx[h].ver > db.ver
      /\ op[h] # "read"
      /\ db.ver \in Nat /\ tx[h].ver \in Nat
      /\ pc[h] = "commit"
  BY DEF Phases, Written, OpenWriteHoldsLock, TypeOK
<1>b. \A k \in Handlers : k # h => ~Exists(tx[k])
  BY <1>0 DEF OpenWriteHoldsLock
<1>1. TypeOK'
  BY <1>0 DEF TypeOK, FreeLock, Places, Ended
<1>2. VersionNamesOneCommit'
  <2>1. \A r \in committed : r.ver \in Nat /\ r.ver < tx[h].ver
    BY <1>0 DEF VersionNamesOneCommit, TypeOK
  <2> QED
    BY <1>0, <2>1 DEF VersionNamesOneCommit
<1>3. OpenWriteHoldsLock'
  BY <1>b DEF OpenWriteHoldsLock, TypeOK
<1>4. OpenWriteAuthor'
  BY <1>b DEF OpenWriteAuthor, TypeOK
<1>5. Phases'
  BY <1>0, <1>b DEF Phases, TypeOK, Written
<1>6. \A r : Settled(r) => Settled(r)'
  BY <1>0 DEF Settled, TypeOK
<1>7. ASSUME NEW r, Exists(r), Accounted(r)
      PROVE  Settled(r)'
  <2>1. CASE Settled(r)
    BY <1>6, <2>1
  <2>2. CASE r.by \in Handlers /\ r = tx[r.by]
    BY <1>7, <1>b, <2>2 DEF Settled
  <2> QED
    BY <1>7, <2>1, <2>2 DEF Accounted
<1>8. Provenance'
  BY <1>7 DEF Provenance, TypeOK, Accounted, Exists
<1>9. ReadAnswers'
  BY <1>0, <1>6 DEF ReadAnswers, TypeOK, SetSteps
<1> QED
  BY <1>1, <1>2, <1>3, <1>4, <1>5, <1>8, <1>9

\* The response, or the error answered in its place, changes nothing else.
LEMMA ResponseStep ==
  ASSUME IInv, NEW h \in Handlers, Answer(h) \/ AnswerFails(h)  PROVE IInv'
<1> USE NoRowFacts, HandlersAssumption DEF IInv
<1>0. /\ pc[h] = "answer" /\ op[h] # "read" /\ ~Exists(tx[h])
      /\ pc' = [pc EXCEPT ![h] = "done"] \/ pc' = [pc EXCEPT ![h] = "failed"]
      /\ UNCHANGED <<db, committed, redis, lock, tx, snap, op, val, asOf>>
  BY DEF Answer, AnswerFails, Phases
<1> HIDE DEF IInv
<1>1. TypeOK'
  BY <1>0 DEF IInv, TypeOK, Places, Ended
<1>2. VersionNamesOneCommit' /\ OpenWriteHoldsLock'
  BY <1>0 DEF IInv, VersionNamesOneCommit, OpenWriteHoldsLock
<1>3. OpenWriteAuthor'
  BY <1>0 DEF IInv, OpenWriteAuthor, TypeOK
<1>4. Phases'
  BY <1>0 DEF IInv, Phases, TypeOK, Written
<1>5. \A r : Settled(r) => Settled(r)'
  BY <1>0 DEF IInv, Settled, TypeOK
<1>6. Provenance'
  BY <1>0, <1>5 DEF IInv, Provenance, Accounted
<1>7. ReadAnswers'
  BY <1>0, <1>5 DEF IInv, ReadAnswers, TypeOK, SetSteps
<1> QED
  BY <1>1, <1>2, <1>3, <1>4, <1>6, <1>7 DEF IInv

\* A leaked transaction that a stranger rolls back or commits: its row was
\* settled already, and it was the only open one.
LEMMA ElsewhereStep ==
  ASSUME IInv, NEW l \in Handlers, Elsewhere(l)  PROVE IInv'
<1> USE NoRowFacts, HandlersAssumption DEF IInv
<1>0. /\ pc[l] = "leaked" /\ op[l] # "read"
      /\ pc' = [pc EXCEPT ![l] = "failed"]
      /\ tx' = [tx EXCEPT ![l] = NoRow]
      /\ snap' = [snap EXCEPT ![l] = NoRow]
      /\ lock' = FreeLock(l)
      /\ UNCHANGED <<redis, op, val, asOf>>
      /\ \/ UNCHANGED <<db, committed>>
         \/ Exists(tx[l]) /\ db' = tx[l] /\ committed' = committed \cup {tx[l]}
  BY DEF Elsewhere, Phases
<1>a. /\ db.ver \in Nat /\ db \in Row \cup {NoRow}
      /\ Exists(tx[l]) => /\ tx[l] \in Row /\ tx[l].ver \in Nat /\ tx[l].ver > db.ver
                         /\ lock = l /\ \A k \in Handlers : k # l => ~Exists(tx[k])
  BY DEF TypeOK, OpenWriteHoldsLock
<1> HIDE DEF IInv
<1>1. TypeOK'
  BY <1>0, <1>a DEF IInv, TypeOK, FreeLock, Places, Ended
<1>2. VersionNamesOneCommit'
  <2>1. Exists(tx[l]) => \A r \in committed : r.ver \in Nat /\ r.ver < tx[l].ver
    BY <1>a DEF IInv, VersionNamesOneCommit, TypeOK
  <2> QED
    BY <1>0, <1>a, <2>1 DEF IInv, VersionNamesOneCommit
<1>3. OpenWriteHoldsLock'
  BY <1>0, <1>a DEF IInv, OpenWriteHoldsLock, FreeLock, TypeOK
<1>4. OpenWriteAuthor'
  BY <1>0 DEF IInv, OpenWriteAuthor, TypeOK
<1>5. Phases'
  BY <1>0 DEF IInv, Phases, TypeOK, Written
<1>6. \A r : Settled(r) => Settled(r)'
  BY <1>0 DEF IInv, Settled, TypeOK
<1>7. \A r : Accounted(r) => Accounted(r)'
  BY <1>0, <1>6 DEF IInv, Accounted, Settled, TypeOK
<1>8. Provenance'
  BY <1>0, <1>7 DEF IInv, Provenance
<1>9. ReadAnswers'
  <2>1. db'.ver \in Nat /\ db'.ver >= db.ver
    BY <1>0, <1>a
  <2> QED
    BY <1>0, <1>a, <1>6, <2>1 DEF IInv, ReadAnswers, TypeOK, SetSteps
<1> QED
  BY <1>1, <1>2, <1>3, <1>4, <1>5, <1>8, <1>9 DEF IInv

LEMMA ArriveStep ==
  ASSUME IInv, NEW h \in Handlers, Arrive(h)  PROVE IInv'
  BY StartStep DEF Arrive, StartCreate, StartGetUser, StartUpdate, StartRefresh,
     StartDeactivate, StartVerify, StartEmailFlag, AllOps

LEMMA FaultStep ==
  ASSUME IInv, NEW h \in Handlers, Fault(h)  PROVE IInv'
<1>1. CASE SetSwallowed(h)
  BY <1>1, CacheSetSteps
<1>2. CASE RedisFails(h)
  BY <1>2, ErrorReturnStep DEF RedisFails, Working, CallSteps
<1>3. CASE Abort(h)
  BY <1>3, RollbackStep DEF Abort
<1>4. CASE DeactivateForgets(h)
  BY <1>4, LeakStep DEF DeactivateForgets, Working, CallSteps
<1>5. CASE AnswerFails(h)
  BY <1>5, ResponseStep
<1> QED
  BY <1>1, <1>2, <1>3, <1>4, <1>5 DEF Fault

LEMMA InitInv == Init => IInv
<1> SUFFICES ASSUME Init PROVE IInv
  OBVIOUS
<1> USE NoRowFacts, EmailsAssumption DEF Init
<1>1. db \in Row \cup {NoRow}
  BY DEF Row, Writers
<1>2. TypeOK
  BY <1>1 DEF TypeOK, Places, AllOps
<1>3. VersionNamesOneCommit
  BY <1>1 DEF VersionNamesOneCommit
<1>4. OpenWriteHoldsLock /\ OpenWriteAuthor
  BY DEF OpenWriteHoldsLock, OpenWriteAuthor
<1>5. Phases
  BY DEF Phases, Written
<1>6. Provenance
  BY DEF Provenance, Accounted, Settled
<1>7. ReadAnswers
  <2>1. \A h \in Handlers : asOf[h] = 0 /\ pc[h] = "idle"
    OBVIOUS
  <2>2. 0 <= db.ver
    BY <1>1
  <2> QED
    BY <2>1, <2>2 DEF ReadAnswers, SetSteps
<1> QED
  BY <1>2, <1>3, <1>4, <1>5, <1>6, <1>7 DEF IInv

LEMMA NextInv == IInv /\ [Next]_vars => IInv'
<1> SUFFICES ASSUME IInv, [Next]_vars PROVE IInv'
  OBVIOUS
<1>1. ASSUME NEW h \in Handlers, Arrive(h) PROVE IInv'
  BY <1>1, ArriveStep
<1>2. ASSUME NEW h \in Handlers, Progress(h) PROVE IInv'
  <2>1. CASE LookupClientId(h)
    BY <2>1, LookupStep
  <2>2. CASE BeginClean(h)
    BY <2>2, BeginCleanStep
  <2>3. CASE CacheCall(h)
    BY <2>3, GetPrimaryStep, CheckVersionStep, LoadUserStep, CacheSetSteps DEF CacheCall
  <2>4. CASE WriteStep(h)
    BY <2>4, WriteStepInv
  <2>5. CASE Commit(h)
    BY <2>5, CommitStep
  <2>6. CASE CheckToken(h)
    BY <2>6, CheckTokenStep
  <2>7. CASE Answer(h)
    BY <2>7, ResponseStep
  <2> QED
    BY <1>2, <2>1, <2>2, <2>3, <2>4, <2>5, <2>6, <2>7 DEF Progress
<1>3. ASSUME NEW h \in Handlers, Fault(h) PROVE IInv'
  BY <1>3, FaultStep
<1>4. ASSUME NEW h \in Handlers, NEW l \in Handlers, BeginInherits(h, l) \/ BeginRejected(h, l)
      PROVE IInv'
  BY <1>4, BeginInheritsStep, BeginRejectedStep
<1>5. ASSUME NEW h \in Handlers, Elsewhere(h) PROVE IInv'
  BY <1>5, ElsewhereStep
<1>6. CASE UNCHANGED vars
  BY <1>6 DEF vars, IInv, TypeOK, VersionNamesOneCommit, OpenWriteHoldsLock, OpenWriteAuthor,
     Phases, Written, Provenance, Accounted, Settled, ReadAnswers, Exists
<1> QED
  BY <1>1, <1>2, <1>3, <1>4, <1>5, <1>6 DEF Next

-----------------------------------------------------------------------------
\* The state of a user stays what the strengthened invariant says it is.
THEOREM Inductive == Spec => []IInv
  BY InitInv, NextInv, PTL DEF Spec

\* Every variable keeps its type.
THEOREM TypeCorrect == Spec => []TypeOK
<1>1. IInv => TypeOK
  BY DEF IInv
<1> QED
  BY <1>1, Inductive, PTL

\* A version number names one committed row, however many writers race and
\* however many of them fail or leak their transaction.
THEOREM VersionsAreUnique == Spec => []VersionNamesOneCommit
<1>1. IInv => VersionNamesOneCommit
  BY DEF IInv
<1> QED
  BY <1>1, Inductive, PTL

\* A read by identifier is never older than its request, whatever redis held.
THEOREM ReadsAreFresh == Spec => []ReadsNotStale
<1>1. IInv => ReadsNotStale
  BY DEF IInv, ReadAnswers, ReadsNotStale
<1> QED
  BY <1>1, Inductive, PTL

\* A read by identifier answers with a committed row or with the row of a
\* handler that failed.
THEOREM DirtyReadsAreOfFailed == Spec => []DirtyReadsOnlyOfFailed
<1>1. IInv => DirtyReadsOnlyOfFailed
  BY DEF IInv, ReadAnswers, Settled, DirtyReadsOnlyOfFailed
<1> QED
  BY <1>1, Inductive, PTL

================================================================================
