-------------------------- MODULE TokenRotationProofs --------------------------
(***************************************************************************)
(* IInv is an inductive invariant of TokenRotation, for any rotations,     *)
(* readers and number of seconds.                                          *)
(***************************************************************************)
EXTENDS TokenRotation, TLAPS

LEMMA RowFacts ==
  /\ NoRow.ver = 0 /\ ~Exists(NoRow) /\ NoRow.token = 1 /\ NoRow \notin Row
  /\ \A r \in Row : r.ver \in Nat \ {0} /\ r.token \in Tokens /\ Exists(r)
                    /\ r.by \in Rotations \cup {"signIn"}
  /\ \A r \in Row \cup {NoRow} : r.ver \in Nat /\ (Exists(r) => r \in Row)
  /\ 1 \in Tokens
  BY MaxSecondAssumption DEF NoRow, Row, Exists, Tokens

\* What the lock says about two open transactions.
LEMMA OneOpen ==
  ASSUME IInv, NEW h \in Rotations, pc[h] \in Open
  PROVE  /\ lock = h /\ tx[h] \in Row /\ tx[h].ver = db.ver + 1 /\ tx[h].token = signed[h]
         /\ tx[h].by = h /\ Exists(tx[h]) /\ h \in Passed
         /\ \A k \in Rotations : pc[k] \in Open => k = h
         /\ Exists(redis["clientId"])
<1> USE RowFacts DEF IInv, TypeOK, Transactions
<1>1. lock = h /\ tx[h] = [ver |-> db.ver + 1, token |-> signed[h], by |-> h] /\ db \in Row
  OBVIOUS
<1>2. tx[h].ver = db.ver + 1 /\ tx[h].token = signed[h] /\ tx[h].by = h /\ Exists(tx[h])
  BY <1>1 DEF Exists
<1>3. tx[h] \in Row
  BY <1>2
<1>4. h \in Passed
  BY DEF Passed
<1>5. \A k \in Rotations : pc[k] \in Open => k = h
  BY <1>1
<1> QED
  BY <1>1, <1>2, <1>3, <1>4, <1>5 DEF CopiesAreCurrent

\* Before anything goes wrong the copy of the identifier key is never one
\* version ahead when a transaction looks at it, so its refresh is no hit.
LEMMA NoEarlyHit ==
  ASSUME IInv, Unspoiled, NEW h \in Rotations, pc[h] = "get"
  PROVE  redis["identifier"].ver # tx[h].ver
<1>1. /\ tx[h].ver = db.ver + 1 /\ \A k \in Rotations : pc[k] \in Open => k = h
  BY OneOpen DEF Open
<1>2. redis["identifier"].ver <= db.ver
  BY <1>1 DEF IInv, CopiesAreCurrent, Open, SetSteps
<1>3. db.ver \in Nat /\ redis["identifier"].ver \in Nat
  BY RowFacts DEF IInv, TypeOK, Keys
<1> QED
  BY <1>1, <1>2, <1>3

\* A token on its way to the row is new to every client.
LEMMA PassedIsFresh ==
  ASSUME IInv, "sameSecond" \notin causes, NEW h \in Passed, pc[h] # "done"
  PROVE  /\ signed[h] \notin Held
         /\ \A k \in Rotations : pc[k] # "idle" => presented[k] # signed[h]
         /\ signed[h] \notin Spent
<1> USE DEF IInv, TokensAreFresh
<1>1. signed[h] # 1 /\ h \in Rotations
  BY DEF Passed
<1>2. signed[h] \notin Held
  BY <1>1 DEF Held
<1>3. \A k \in Rotations : pc[k] # "idle" => presented[k] # signed[h]
  BY <1>2
<1>4. signed[h] \notin Spent
  BY <1>3 DEF Spent, Committed
<1> QED
  BY <1>2, <1>3, <1>4

\* The token a comparison is made with was not spent, before anything goes wrong.
LEMMA ComparedIsFresh ==
  ASSUME IInv, Unspoiled, "sameSecond" \notin causes, Exists(redis["clientId"])
  PROVE  redis["clientId"].token \notin Spent
<1>1. CASE redis["clientId"] = db
  BY <1>1 DEF IInv, TokensAreFresh
<1>2. CASE redis["clientId"] # db
  <2>1. PICK h \in Rotations : pc[h] = "commit" /\ redis["clientId"] = tx[h]
    BY <1>2 DEF IInv, CopiesAreCurrent, ComparedCopyIsCurrent
  <2>2. tx[h].token = signed[h] /\ h \in Passed
    BY <2>1, OneOpen DEF Open
  <2> QED
    BY <2>1, <2>2, PassedIsFresh
<1> QED
  BY <1>1, <1>2

-----------------------------------------------------------------------------
LEMMA PresentStep ==
  ASSUME IInv, NEW h \in Rotations, Present(h)  PROVE IInv'
<1> USE DEF Present, Go, stored, IInv
<1>0. /\ pc[h] = "idle" /\ pc'[h] = "lookup" /\ presented'[h] \in Held
      /\ presented'[h] \in Tokens
      /\ \A k \in Requests \ {h} : pc'[k] = pc[k]
      /\ \A k \in Rotations \ {h} : presented'[k] = presented[k]
      /\ replays' \subseteq replays \cup {h} /\ replays \subseteq replays'
      /\ h \in replays' => h \in replays \/ presented'[h] \in Spent
      /\ h \in Requests
  BY RowFacts DEF TypeOK, Requests, Held, Tokens
<1>1. TypeOK'
  BY <1>0 DEF TypeOK, Requests, Working
<1>2. Transactions'
  <2>1. \A k \in Rotations : pc'[k] = pc[k] \/ (k = h /\ pc[k] = "idle" /\ pc'[k] = "lookup")
    BY <1>0 DEF Requests
  <2>2. \A r \in Readers : pc'[r] = pc[r]
    BY <1>0, RotationsAssumption DEF Requests
  <2> QED
    BY <2>1, <2>2 DEF Transactions, Open, SetSteps
<1>3. RowAuthor'
  BY <1>0 DEF RowAuthor, Committed, Requests
<1>4. Passed' = Passed /\ Held' = Held /\ Spent' = Spent
  <2>1. \A k \in Rotations : /\ pc'[k] \in {"write"} \cup Open \cup Committed <=> pc[k] \in {"write"} \cup Open \cup Committed
                             /\ pc'[k] = "done" <=> pc[k] = "done"
                             /\ pc'[k] \in Committed <=> pc[k] \in Committed
                             /\ pc[k] \in Committed => presented'[k] = presented[k]
    BY <1>0 DEF Open, Committed, SetSteps, Requests
  <2> QED
    BY <2>1 DEF Passed, Held, Spent
<1>5. CopiesAreCurrent'
  BY <1>0, <1>4 DEF CopiesAreCurrent, ComparedCopyIsCurrent, Unspoiled, Requests
<1>6. TokensAreFresh'
  <2>1. h \notin replays /\ h \notin Passed
    BY <1>0 DEF TokensAreFresh, Passed, Open, SetSteps, Committed
  <2> QED
    BY <1>0, <1>4, <2>1 DEF TokensAreFresh, Unspoiled, Requests
<1> QED
  BY <1>1, <1>2, <1>3, <1>5, <1>6

\* What moving a rotation about before its write leaves as it is.
LEMMA LookupStep ==
  ASSUME IInv, NEW h \in Rotations, Lookup(h)  PROVE IInv'
<1> USE DEF IInv
<1>0. /\ pc[h] = "lookup" /\ h \in Requests
      /\ pc'[h] \in {"failed", "refused", "write"}
      /\ \A k \in Requests \ {h} : pc'[k] = pc[k]
      /\ pc' = [pc EXCEPT ![h] = pc'[h]]
      /\ UNCHANGED <<db, redis, lock, tx, val, presented, replays>>
      /\ signed' = [signed EXCEPT ![h] = signed'[h]] /\ signed'[h] \in Tokens
      /\ pc'[h] # "write" => signed' = signed /\ causes' = causes
      /\ pc'[h] = "write" => /\ Exists(redis["clientId"])
                             /\ redis["clientId"].token = presented[h]
      /\ causes' \in {causes, causes \cup {"sameSecond"}}
      /\ pc'[h] = "write" /\ "sameSecond" \notin causes' => signed'[h] \notin Issued
  <2>1. TypeOK /\ h \in Requests
    BY DEF Requests
  <2>2. CASE ~Exists(redis["clientId"])
    BY <2>1, <2>2 DEF Lookup, IsValidRefreshToken, Go, stored, TypeOK
  <2>3. CASE Exists(redis["clientId"]) /\ redis["clientId"].token # presented[h]
    BY <2>1, <2>3 DEF Lookup, IsValidRefreshToken, Go, stored, TypeOK
  <2>4. CASE Exists(redis["clientId"]) /\ redis["clientId"].token = presented[h]
    BY <2>1, <2>4 DEF Lookup, IsValidRefreshToken, Sign, Go, stored, TypeOK
  <2> QED
    BY <2>2, <2>3, <2>4
<1>a. Unspoiled' <=> Unspoiled
  BY <1>0 DEF Unspoiled
<1>1. TypeOK'
  BY <1>0 DEF TypeOK, Working, Ended, Causes
<1>2. Transactions'
  BY <1>0 DEF Transactions, Open, SetSteps, Requests, TypeOK
<1>3. RowAuthor'
  BY <1>0 DEF RowAuthor, Committed, Requests, TypeOK
<1>4. /\ Passed' = IF pc'[h] = "write" THEN Passed \cup {h} ELSE Passed
      /\ Held' = Held /\ Spent' = Spent
  <2>1. \A k \in Rotations : /\ pc'[k] = "done" <=> pc[k] = "done"
                             /\ pc'[k] \in Committed <=> pc[k] \in Committed
                             /\ pc[k] = "done" => signed'[k] = signed[k]
    BY <1>0 DEF Committed, Requests, TypeOK
  <2>2. Held' = Held /\ Spent' = Spent
    BY <1>0, <2>1 DEF Held, Spent
  <2>3. Passed' = IF pc'[h] = "write" THEN Passed \cup {h} ELSE Passed
    BY <1>0 DEF Passed, Open, SetSteps, Committed, Requests
  <2> QED
    BY <2>2, <2>3
<1>5. CopiesAreCurrent'
  BY <1>0, <1>a, <1>4 DEF CopiesAreCurrent, ComparedCopyIsCurrent, Requests
<1>6. TokensAreFresh'
  <2>1. \A k \in Rotations : /\ pc'[k] \in {"idle", "lookup", "refused"} => signed'[k] = 1
                             /\ pc'[k] # "idle" => presented'[k] \in Held'
    BY <1>0, <1>4 DEF TokensAreFresh, Requests, TypeOK
  <2>2. replays' \subseteq {k \in Rotations : pc'[k] # "idle" /\ presented'[k] \in Spent'}
    BY <1>0, <1>4 DEF TokensAreFresh, Requests
  <2>3. ASSUME "sameSecond" \notin causes'
        PROVE  /\ \A k \in Passed' : signed'[k] # 1
               /\ \A k, l \in Rotations : k # l /\ signed'[k] = signed'[l] => signed'[k] = 1
               /\ db'.token \notin Spent'
               /\ Unspoiled' => replays' \cap Passed' = {}
    <3>1. "sameSecond" \notin causes
      BY <1>0, <2>3
    <3>2. CASE pc'[h] # "write"
      BY <1>0, <1>a, <1>4, <3>1, <3>2 DEF TokensAreFresh
    <3>3. CASE pc'[h] = "write"
      <4>1. signed'[h] # 1 /\ \A k \in Rotations : signed'[h] # signed[k]
        BY <1>0, <2>3, <3>3 DEF Issued
      <4>2. \A k \in Rotations \ {h} : signed'[k] = signed[k]
        BY <1>0 DEF TypeOK
      <4>3. \A k \in Passed' : signed'[k] # 1
        BY <1>4, <3>1, <3>3, <4>1, <4>2 DEF TokensAreFresh, Passed
      <4>4. \A k, l \in Rotations : k # l /\ signed'[k] = signed'[l] => signed'[k] = 1
        BY <3>1, <4>1, <4>2 DEF TokensAreFresh
      <4>5. ASSUME Unspoiled PROVE h \notin replays
        <5>1. presented[h] \notin Spent
          BY <1>0, <3>1, <3>3, <4>5, ComparedIsFresh
        <5> QED
          BY <5>1 DEF TokensAreFresh
      <4> QED
        BY <1>0, <1>a, <1>4, <3>1, <3>3, <4>3, <4>4, <4>5 DEF TokensAreFresh
    <3> QED
      BY <3>2, <3>3
  <2> QED
    BY <2>1, <2>2, <2>3 DEF TokensAreFresh
<1> QED
  BY <1>1, <1>2, <1>3, <1>5, <1>6

-----------------------------------------------------------------------------
\* Steps that sign, present and commit nothing keep the tokens fresh.
LEMMA TokensKept ==
  ASSUME IInv, UNCHANGED <<db, presented, signed, replays>>, causes \subseteq causes',
         \A h \in Rotations :
           /\ pc'[h] \in {"idle", "lookup", "refused"} => pc[h] = pc'[h]
           /\ pc[h] = "idle" => pc'[h] = "idle"
           /\ pc[h] = "done" => pc'[h] = "done"
           /\ pc'[h] \in Committed <=> pc[h] \in Committed
           /\ pc'[h] \in {"write"} \cup Open \cup Committed => pc[h] \in {"write"} \cup Open \cup Committed
  PROVE  TokensAreFresh'
<1> USE DEF IInv
<1>1. Spent' = Spent
  BY DEF Spent
<1>2. Held \subseteq Held'
  BY DEF Held
<1>3. Passed' \subseteq Passed
  BY DEF Passed
<1>4. Unspoiled' => Unspoiled
  BY DEF Unspoiled
<1>5. \A h \in Rotations : /\ pc'[h] \in {"idle", "lookup", "refused"} => signed'[h] = 1
                           /\ pc'[h] # "idle" => presented'[h] \in Held'
  BY <1>2 DEF TokensAreFresh
<1>6. replays' \subseteq {h \in Rotations : pc'[h] # "idle" /\ presented'[h] \in Spent'}
  BY <1>1 DEF TokensAreFresh
<1>7. "sameSecond" \notin causes' =>
         /\ \A h \in Passed' : signed'[h] # 1
         /\ \A h, k \in Rotations : h # k /\ signed'[h] = signed'[k] => signed'[h] = 1
         /\ db'.token \notin Spent'
         /\ Unspoiled' => replays' \cap Passed' = {}
  BY <1>1, <1>3, <1>4 DEF TokensAreFresh
<1> HIDE DEF IInv
<1> QED
  BY <1>5, <1>6, <1>7 DEF TokensAreFresh

LEMMA WriteStep ==
  ASSUME IInv, NEW h \in Rotations, Write(h)  PROVE IInv'
<1> USE DEF IInv
<1>0. /\ TypeOK /\ pc[h] = "write" /\ h \in Requests /\ lock = "free" /\ lock' = h
      /\ pc' = [pc EXCEPT ![h] = "get"] /\ pc'[h] = "get"
      /\ tx' = [tx EXCEPT ![h] = [ver |-> db.ver + 1, token |-> signed[h], by |-> h]]
      /\ \A k \in Requests \ {h} : pc'[k] = pc[k]
      /\ \A k \in Rotations : k # "free" /\ pc[k] \notin Open
      /\ UNCHANGED <<db, redis, val, presented, signed, replays, causes>>
  BY RotationsAssumption DEF Write, Go, history, Requests, TypeOK, Transactions
<1>1. TypeOK'
  <2>1. [ver |-> db.ver + 1, token |-> signed[h], by |-> h] \in Row
    BY <1>0, RowFacts DEF TypeOK, Row
  <2> QED
    BY <1>0, <2>1 DEF TypeOK, Working, Open
<1>2. Transactions'
  <2>1. \A k \in Rotations \ {h} : pc'[k] = pc[k] /\ tx'[k] = tx[k]
    BY <1>0 DEF TypeOK, Requests
  <2>2. \A r \in Readers : pc'[r] = pc[r]
    BY <1>0, RotationsAssumption DEF Requests
  <2>3. tx'[h] = [ver |-> db.ver + 1, token |-> signed[h], by |-> h]
    BY <1>0 DEF TypeOK
  <2> QED
    BY <1>0, <2>1, <2>2, <2>3 DEF Transactions, Open, SetSteps
<1>3. RowAuthor'
  BY <1>0 DEF RowAuthor, Committed, Requests
<1>4. CopiesAreCurrent'
  <2>1. Passed' = Passed
    BY <1>0 DEF Passed, Open, Requests
  <2>2. \A k \in Rotations : pc[k] \notin {"setClientId", "commit"} /\ pc'[k] \notin {"setClientId", "commit"}
    BY <1>0 DEF Open, SetSteps, Requests
  <2>3. Unspoiled' <=> Unspoiled
    BY <1>0 DEF Unspoiled
  <2> QED
    BY <1>0, <2>1, <2>2, <2>3 DEF CopiesAreCurrent, ComparedCopyIsCurrent
<1>5. TokensAreFresh'
  <2>1. \A k \in Rotations : pc'[k] = pc[k] \/ (pc[k] = "write" /\ pc'[k] = "get")
    BY <1>0 DEF Requests
  <2> QED
    BY <1>0, <2>1, TokensKept DEF Open, Committed
<1> QED
  BY <1>1, <1>2, <1>3, <1>4, <1>5

LEMMA RefreshStep ==
  ASSUME IInv, NEW h \in Rotations, Refresh(h)  PROVE IInv'
<1> USE DEF IInv
<1>0. /\ TypeOK /\ pc[h] = "get" /\ h \in Requests
      /\ pc'[h] \in {"commit", "setIdentifier"} /\ pc' = [pc EXCEPT ![h] = pc'[h]]
      /\ pc'[h] = "commit" => redis["identifier"].ver = tx[h].ver /\ val' = val
      /\ pc'[h] = "setIdentifier" => val' = [val EXCEPT ![h] = tx[h]]
      /\ \A k \in Requests \ {h} : pc'[k] = pc[k] /\ val'[k] = val[k]
      /\ UNCHANGED <<db, redis, lock, tx, presented, signed, replays, causes>>
  <2>1. TypeOK /\ h \in Requests
    BY DEF Requests
  <2>2. CASE redis["identifier"].ver = tx[h].ver
    BY <2>1, <2>2 DEF Refresh, Go, stored, history, TypeOK
  <2>3. CASE redis["identifier"].ver # tx[h].ver
    BY <2>1, <2>3 DEF Refresh, Go, stored, history, TypeOK
  <2> QED
    BY <2>2, <2>3
<1>a. Unspoiled' <=> Unspoiled
  BY <1>0 DEF Unspoiled
<1>b. Unspoiled => pc'[h] = "setIdentifier"
  BY <1>0, NoEarlyHit
<1>c. /\ lock = h /\ \A k \in Rotations \ {h} : pc[k] \notin Open
      /\ h \in Passed
  BY <1>0, OneOpen DEF Open
<1>1. TypeOK'
  BY <1>0 DEF TypeOK, Working, Open, SetSteps
<1>2. Transactions'
  <2>1. \A k \in Rotations \ {h} : pc'[k] = pc[k] /\ val'[k] = val[k]
    BY <1>0 DEF Requests
  <2>2. \A r \in Readers : pc'[r] = pc[r] /\ val'[r] = val[r]
    BY <1>0, RotationsAssumption DEF Requests
  <2>3. pc'[h] = "setIdentifier" => val'[h] = tx[h]
    BY <1>0 DEF TypeOK
  <2> QED
    BY <1>0, <2>1, <2>2, <2>3 DEF Transactions, Open, SetSteps
<1>3. RowAuthor'
  BY <1>0 DEF RowAuthor, Committed, Requests
<1>4. CopiesAreCurrent'
  <2>1. Passed' = Passed
    BY <1>0, <1>c DEF Passed, Open, SetSteps, Requests
  <2>2. \A k \in Rotations \ {h} : pc'[k] = pc[k]
    BY <1>0 DEF Requests
  <2> QED
    BY <1>0, <1>a, <1>b, <1>c, <2>1, <2>2
       DEF CopiesAreCurrent, ComparedCopyIsCurrent, Open, SetSteps
<1>5. TokensAreFresh'
  <2>1. \A k \in Rotations : pc'[k] = pc[k] \/ (pc[k] = "get" /\ pc'[k] \in {"commit", "setIdentifier"})
    BY <1>0 DEF Requests
  <2> QED
    BY <1>0, <2>1, TokensKept DEF Open, SetSteps, Committed
<1> QED
  BY <1>1, <1>2, <1>3, <1>4, <1>5

LEMMA CommitStep ==
  ASSUME IInv, NEW h \in Rotations, Commit(h)  PROVE IInv'
<1> USE DEF IInv
<1>0. /\ TypeOK /\ pc[h] = "commit" /\ h \in Requests
      /\ pc' = [pc EXCEPT ![h] = "answer"] /\ pc'[h] = "answer"
      /\ db' = tx[h] /\ tx' = [tx EXCEPT ![h] = NoRow] /\ lock' = "free"
      /\ \A k \in Requests \ {h} : pc'[k] = pc[k]
      /\ UNCHANGED <<redis, val, presented, signed, replays, causes>>
  BY DEF Commit, Go, history, Requests, TypeOK
<1>c. /\ tx[h] \in Row /\ tx[h].by = h /\ tx[h].token = signed[h] /\ tx[h].ver = db.ver + 1
      /\ lock = h /\ \A k \in Rotations \ {h} : pc[k] \notin Open
      /\ h \in Passed /\ Exists(redis["clientId"])
      /\ db \in Row /\ db.ver \in Nat
  BY <1>0, OneOpen, RowFacts DEF Open, TypeOK
<1>d. \A k \in Rotations : /\ k # "free"
                           /\ pc'[k] = pc[k] \/ (k = h /\ pc[k] = "commit" /\ pc'[k] = "answer")
  BY <1>0, RotationsAssumption DEF Requests
<1>e. \A k \in Rotations : pc'[k] \notin Open
  BY <1>0, <1>c, <1>d DEF Open, SetSteps
<1>1. TypeOK'
  BY <1>0, <1>c DEF TypeOK, Working
<1>2. Transactions'
  <2>1. \A k \in Rotations : tx'[k] = NoRow
    BY <1>0, <1>c DEF TypeOK, Transactions
  <2>2. \A r \in Readers : pc'[r] = pc[r]
    BY <1>0, RotationsAssumption DEF Requests
  <2>3. ASSUME NEW r \in Readers, pc'[r] \in SetSteps
        PROVE  Exists(val'[r]) /\ val'[r].ver < db'.ver
    <3>1. Exists(val[r]) /\ (val[r] = db \/ val[r].ver < db.ver) /\ val[r].ver \in Nat
      BY <2>2, <2>3, RowFacts DEF Transactions, TypeOK, Requests
    <3> QED
      BY <1>0, <1>c, <3>1
  <2>4. \A k \in Rotations : /\ pc'[k] \in Open <=> lock' = k
                             /\ pc'[k] \notin SetSteps \cup {"check", "load"}
                             /\ pc'[k] = "unanswered" => "answerLost" \in causes'
    <3>1. \A k \in Rotations : pc'[k] # pc[k] => pc'[k] = "answer"
      BY <1>d
    <3>2. \A k \in Rotations : pc[k] # "check" /\ pc[k] # "load"
                               /\ (pc[k] = "unanswered" => "answerLost" \in causes)
      BY DEF Transactions
    <3>3. \A k \in Rotations : pc'[k] # "check" /\ pc'[k] # "load"
                               /\ (pc'[k] = "unanswered" => "answerLost" \in causes')
      BY <1>0, <3>1, <3>2
    <3>4. \A k \in Rotations : ~(lock' = k) /\ pc'[k] \notin SetSteps
      BY <1>0, <1>d, <1>e DEF Open
    <3> QED
      BY <1>e, <3>3, <3>4
  <2>5. \A r \in Readers : pc'[r] \in {"idle", "check", "load", "done"} \cup SetSteps
    BY <2>2 DEF Transactions
  <2> QED
    BY <1>e, <2>1, <2>3, <2>4, <2>5 DEF Transactions
<1>3. RowAuthor'
  BY <1>0, <1>c DEF RowAuthor, Committed
<1>4. Passed' = Passed
  BY <1>0, <1>c, <1>d DEF Passed, Open, Committed
<1>5. CopiesAreCurrent'
  <2>1. Unspoiled' <=> Unspoiled
    BY <1>0 DEF Unspoiled
  <2>2. ASSUME Unspoiled
        PROVE  redis["clientId"] = db' /\ redis["identifier"].ver <= db'.ver
    <3>1. redis["clientId"] = tx[h]
      BY <1>0, <2>2 DEF CopiesAreCurrent
    <3>2. redis["identifier"].ver <= db.ver \/ redis["identifier"] = tx[h]
      BY <1>c, <2>2 DEF CopiesAreCurrent, Open, SetSteps
    <3>3. redis["identifier"].ver \in Nat
      BY RowFacts DEF TypeOK, Keys
    <3> QED
      BY <1>0, <1>c, <3>1, <3>2, <3>3
  <2> QED
    BY <1>0, <1>c, <1>e, <1>4, <2>1, <2>2 DEF CopiesAreCurrent, ComparedCopyIsCurrent, Open
<1>6. TokensAreFresh'
  <2>1. Spent' = Spent \cup {presented[h]} /\ Held' = Held
    BY <1>0, <1>d DEF Spent, Held, Committed
  <2>2. ASSUME "sameSecond" \notin causes
        PROVE  db'.token \notin Spent'
    BY <1>0, <1>c, <2>1, <2>2, PassedIsFresh
  <2>3. Unspoiled' <=> Unspoiled
    BY <1>0 DEF Unspoiled
  <2>4. \A k \in Rotations : /\ pc'[k] \in {"idle", "lookup", "refused"} => signed'[k] = 1
                             /\ pc'[k] # "idle" => presented'[k] \in Held'
    BY <1>0, <1>d, <2>1 DEF TokensAreFresh
  <2>5. replays' \subseteq {k \in Rotations : pc'[k] # "idle" /\ presented'[k] \in Spent'}
    BY <1>0, <1>d, <2>1 DEF TokensAreFresh
  <2>6. "sameSecond" \notin causes' =>
           /\ \A k \in Passed' : signed'[k] # 1
           /\ \A k, l \in Rotations : k # l /\ signed'[k] = signed'[l] => signed'[k] = 1
           /\ Unspoiled' => replays' \cap Passed' = {}
    BY <1>0, <1>4, <2>3 DEF TokensAreFresh
  <2> HIDE DEF IInv
  <2> QED
    BY <1>0, <2>2, <2>4, <2>5, <2>6 DEF TokensAreFresh
<1> QED
  BY <1>1, <1>2, <1>3, <1>5, <1>6

LEMMA AnswerStep ==
  ASSUME IInv, NEW h \in Rotations, Answer(h) \/ AnswerLost(h)  PROVE IInv'
<1> USE DEF IInv
<1>0. /\ TypeOK /\ pc[h] = "answer" /\ h \in Requests
      /\ pc'[h] \in {"done", "unanswered"} /\ pc' = [pc EXCEPT ![h] = pc'[h]]
      /\ pc'[h] = "unanswered" => "answerLost" \in causes'
      /\ causes' \in {causes, causes \cup {"answerLost"}}
      /\ UNCHANGED <<db, redis, lock, tx, val, presented, signed, replays>>
  BY DEF Answer, AnswerLost, Go, stored, history, Requests, TypeOK
<1>a. Unspoiled' <=> Unspoiled
  BY <1>0 DEF Unspoiled
<1>b. \A k \in Requests : pc'[k] = pc[k] \/ (k = h /\ pc[k] = "answer" /\ pc'[k] \in {"done", "unanswered"})
  BY <1>0 DEF TypeOK
<1>c. \A k \in Rotations : pc'[k] = pc[k] \/ (k = h /\ pc[k] = "answer" /\ pc'[k] \in {"done", "unanswered"})
  BY <1>b DEF Requests
<1>1. TypeOK'
  BY <1>0 DEF TypeOK, Ended, Causes
<1>2. Transactions'
  <2>1. \A r \in Readers : pc'[r] = pc[r]
    BY <1>b, RotationsAssumption DEF Requests
  <2> QED
    BY <1>0, <1>c, <2>1 DEF Transactions, Open, SetSteps
<1>3. RowAuthor'
  BY <1>0, <1>c DEF RowAuthor, Committed
<1>4. Passed' = Passed
  BY <1>c DEF Passed, Open, Committed
<1>5. CopiesAreCurrent'
  BY <1>0, <1>a, <1>c, <1>4 DEF CopiesAreCurrent, ComparedCopyIsCurrent, Open, SetSteps
<1>6. TokensAreFresh'
  BY <1>0, <1>c, TokensKept DEF Open, SetSteps, Committed
<1> QED
  BY <1>1, <1>2, <1>3, <1>5, <1>6

LEMMA FailStep ==
  ASSUME IInv, NEW h \in Rotations, Fail(h)  PROVE IInv'
<1> USE DEF IInv
<1>0. /\ TypeOK /\ pc[h] \in {"lookup", "write"} \cup Open /\ h \in Requests
      /\ pc'[h] = "failed" /\ pc' = [pc EXCEPT ![h] = "failed"]
      /\ tx' = [tx EXCEPT ![h] = NoRow]
      /\ val' = [val EXCEPT ![h] = NoRow]
      /\ lock' = IF lock = h THEN "free" ELSE lock
      /\ causes' \in {causes, causes \cup {"abandoned"}}
      /\ (\E k \in Keys : Exists(tx[h]) /\ redis[k] = tx[h]) => "abandoned" \in causes'
      /\ UNCHANGED <<db, redis, presented, signed, replays>>
  BY DEF Fail, Go, Requests, TypeOK
<1>a. Unspoiled' => Unspoiled /\ ~\E k \in Keys : Exists(tx[h]) /\ redis[k] = tx[h]
  BY <1>0 DEF Unspoiled
<1>b. \A k \in Requests : (pc'[k] = pc[k] /\ val'[k] = val[k]) \/ k = h
  BY <1>0 DEF TypeOK
<1>c. \A k \in Rotations : (pc'[k] = pc[k] /\ val'[k] = val[k] /\ tx'[k] = tx[k]) \/ k = h
  BY <1>0, <1>b DEF Requests, TypeOK
<1>1. TypeOK'
  BY <1>0 DEF TypeOK, Ended, Causes
<1>2. Transactions'
  <2>1. \A r \in Readers : pc'[r] = pc[r] /\ val'[r] = val[r]
    BY <1>b, RotationsAssumption DEF Requests
  <2>2. tx'[h] = NoRow
    BY <1>0 DEF TypeOK
  <2>3. \A k \in Rotations : k # "free"
    BY RotationsAssumption
  <2> QED
    BY <1>0, <1>c, <2>1, <2>2, <2>3 DEF Transactions, Open, SetSteps
<1>3. RowAuthor'
  BY <1>0, <1>c DEF RowAuthor, Committed, Open, SetSteps
<1>4. Passed' \subseteq Passed
  BY <1>0, <1>c DEF Passed, Open, SetSteps, Committed
<1>5. CopiesAreCurrent'
  <2>1. ~Exists(redis'["clientId"]) => Passed' = {} /\ db'.ver = 1
    BY <1>0, <1>4 DEF CopiesAreCurrent
  <2>2. ASSUME Unspoiled'
        PROVE  /\ redis["identifier"].ver <= db.ver
                  \/ \E k \in Rotations \ {h} : pc[k] \in {"setClientId", "commit"} /\ redis["identifier"] = tx[k]
               /\ \A k \in Rotations \ {h} : pc[k] = "commit" => redis["clientId"] = tx[k]
               /\ Exists(redis["clientId"]) =>
                    \/ redis["clientId"] = db
                    \/ \E k \in Rotations \ {h} : pc[k] = "commit" /\ redis["clientId"] = tx[k]
    <3>1. pc[h] \in Open => redis["identifier"] # tx[h] /\ redis["clientId"] # tx[h]
      BY <1>a, <2>2, OneOpen DEF Keys
    <3> QED
      BY <1>a, <2>2, <3>1 DEF CopiesAreCurrent, ComparedCopyIsCurrent, Open, SetSteps
  <2> QED
    BY <1>0, <1>c, <2>1, <2>2 DEF CopiesAreCurrent, ComparedCopyIsCurrent
<1>6. TokensAreFresh'
  BY <1>0, <1>c, TokensKept DEF Open, SetSteps, Committed
<1> QED
  BY <1>1, <1>2, <1>3, <1>5, <1>6

-----------------------------------------------------------------------------
\* A step of a reader, and of nobody else, that touches neither the row nor the
\* keys.
LEMMA ReaderMoves ==
  ASSUME IInv, NEW r \in Readers, NEW step \in {"check", "load", "done", "setIdentifier"},
         NEW row \in Row \cup {NoRow}, step = "setIdentifier" => row = db,
         pc' = [pc EXCEPT ![r] = step], val' = [val EXCEPT ![r] = row],
         UNCHANGED <<db, redis, lock, tx, presented, signed, replays>>,
         causes' \in {causes, causes \cup {"setSkipped"}}
  PROVE  IInv'
<1> USE DEF IInv
<1>1. TypeOK'
  BY DEF TypeOK, Working, Open, SetSteps, Ended, Causes
<1>2. \A h \in Rotations : pc'[h] = pc[h] /\ val'[h] = val[h]
  BY RotationsAssumption DEF TypeOK, Requests
<1>3. Transactions'
  <2>1. \A q \in Readers \ {r} : pc'[q] = pc[q] /\ val'[q] = val[q]
    BY DEF TypeOK, Requests
  <2>2. pc'[r] = step /\ val'[r] = row
    BY DEF TypeOK, Requests
  <2>3. Exists(db)
    BY RowFacts DEF TypeOK
  <2>4. \A h \in Rotations : pc'[h] = "unanswered" => "answerLost" \in causes'
    <3>1. "answerLost" \in causes => "answerLost" \in causes'
      OBVIOUS
    <3>2. \A h \in Rotations : pc[h] = "unanswered" => "answerLost" \in causes
      BY DEF Transactions
    <3> QED
      BY <1>2, <3>1, <3>2
  <2>5. \A q \in Readers : /\ pc'[q] \in {"idle", "check", "load", "done"} \cup SetSteps
                           /\ pc'[q] \in SetSteps => Exists(val'[q]) /\ (val'[q] = db' \/ val'[q].ver < db'.ver)
    BY <2>1, <2>2, <2>3 DEF Transactions, SetSteps
  <2> QED
    BY <1>2, <2>4, <2>5 DEF Transactions
<1>4. RowAuthor'
  BY <1>2 DEF RowAuthor
<1>5. CopiesAreCurrent'
  <2>1. Passed' = Passed /\ (Unspoiled' => Unspoiled)
    BY <1>2 DEF Passed, Unspoiled
  <2> QED
    BY <1>2, <2>1 DEF CopiesAreCurrent, ComparedCopyIsCurrent
<1>6. TokensAreFresh'
  BY <1>2, TokensKept
<1> QED
  BY <1>1, <1>3, <1>4, <1>5, <1>6

LEMMA ReaderStep ==
  ASSUME IInv, NEW r \in Readers, ReadGet(r) \/ ReadCheck(r) \/ ReadLoad(r)  PROVE IInv'
<1>0. TypeOK /\ NoRow \in Row \cup {NoRow}
  BY DEF IInv
<1>1. CASE ReadGet(r)
  <2>1. redis["identifier"] \in Row \cup {NoRow}
    BY <1>0 DEF TypeOK, Keys
  <2> QED
    BY <1>1, <2>1, ReaderMoves DEF ReadGet, Go, stored, history
<1>2. CASE ReadCheck(r)
  BY <1>0, <1>2, ReaderMoves DEF ReadCheck, Go, stored, history
<1>3. CASE ReadLoad(r)
  BY <1>0, <1>3, ReaderMoves DEF ReadLoad, Go, stored, history, TypeOK
<1> QED
  BY <1>1, <1>2, <1>3

-----------------------------------------------------------------------------
\* The user object a set puts under a key.
LEMMA ValueSet ==
  ASSUME IInv, NEW r \in Requests, pc[r] \in SetSteps
  PROVE  /\ val[r] \in Row /\ Exists(val[r])
         /\ r \in Rotations => val[r] = tx[r]
         /\ r \in Readers => val[r] = db \/ val[r].ver < db.ver
<1>1. CASE r \in Rotations
  BY <1>1, OneOpen, RotationsAssumption DEF IInv, Transactions, Open
<1>2. CASE r \in Readers
  BY <1>2, RotationsAssumption, RowFacts DEF IInv, Transactions, TypeOK
<1> QED
  BY <1>1, <1>2 DEF Requests

\* A set moves one request on; what it may disturb besides is the copies.
LEMMA SetMoves ==
  ASSUME IInv, NEW r \in Requests, pc[r] \in SetSteps,
         NEW step \in {"setClientId", AfterSets(r)}, pc' = [pc EXCEPT ![r] = step],
         NEW row \in {NoRow, val[r]}, step = "setClientId" => row = val[r],
         val' = [val EXCEPT ![r] = row],
         redis' \in [Keys -> Row \cup {NoRow}],
         UNCHANGED <<db, lock, tx, presented, signed, replays>>,
         causes' \in {causes} \cup {causes \cup {"setSkipped"}, causes \cup {"lateFill"}}
  PROVE  /\ TypeOK' /\ Transactions' /\ RowAuthor' /\ TokensAreFresh'
         /\ Passed' = Passed /\ (Unspoiled' => Unspoiled)
         /\ \A h \in Rotations \ {r} : pc'[h] = pc[h]
         /\ pc'[r] = step
<1> USE DEF IInv
<1>0. /\ \A q \in Requests \ {r} : pc'[q] = pc[q] /\ val'[q] = val[q]
      /\ pc'[r] = step /\ val'[r] = row
      /\ step \in {"setClientId", "commit", "done"}
      /\ r \in Rotations => step \in {"setClientId", "commit"}
      /\ r \notin Rotations => step \in {"setClientId", "done"}
  BY DEF TypeOK, AfterSets
<1>1. TypeOK'
  BY <1>0 DEF TypeOK, Working, Open, SetSteps, Ended, Causes
<1>2. \A h \in Rotations : \/ pc'[h] = pc[h] /\ val'[h] = val[h]
                           \/ /\ h = r /\ pc[h] \in SetSteps /\ pc'[h] \in {"setClientId", "commit"}
                              /\ pc'[h] = "setClientId" => val'[h] = val[h]
  BY <1>0 DEF Requests
<1>3. Transactions'
  <2>1. ASSUME NEW h \in Rotations
        PROVE  /\ pc'[h] \in Open <=> lock' = h
               /\ pc'[h] \in Open => tx'[h] = [ver |-> db'.ver + 1, token |-> signed'[h], by |-> h]
               /\ pc'[h] \notin Open => tx'[h] = NoRow
               /\ pc'[h] \in SetSteps => val'[h] = tx'[h]
               /\ pc'[h] \notin {"check", "load"}
               /\ pc'[h] = "unanswered" => "answerLost" \in causes'
    BY <1>2, <2>1 DEF Transactions, Open, SetSteps
  <2>2. ASSUME NEW q \in Readers
        PROVE  /\ pc'[q] \in {"idle", "check", "load", "done"} \cup SetSteps
               /\ pc'[q] \in SetSteps => Exists(val'[q]) /\ (val'[q] = db' \/ val'[q].ver < db'.ver)
    <3>1. CASE q # r
      BY <1>0, <2>2, <3>1 DEF Transactions, Requests
    <3>2. CASE q = r
      BY <1>0, <2>2, <3>2, RotationsAssumption DEF Transactions, SetSteps
    <3> QED
      BY <3>1, <3>2
  <2> QED
    BY <2>1, <2>2 DEF Transactions
<1>4. RowAuthor'
  BY <1>2 DEF RowAuthor, Committed, SetSteps
<1>5. Passed' = Passed
  BY <1>2 DEF Passed, Open, SetSteps
<1>6. Unspoiled' => Unspoiled
  BY DEF Unspoiled
<1>7. TokensAreFresh'
  BY <1>2, TokensKept DEF Open, SetSteps, Committed
<1> QED
  BY <1>0, <1>1, <1>3, <1>4, <1>5, <1>6, <1>7 DEF Requests

LEMMA SetIdentifierStep ==
  ASSUME IInv, NEW r \in Requests, SetIdentifier(r)  PROVE IInv'
<1>0. /\ TypeOK /\ pc[r] = "setIdentifier" /\ pc[r] \in SetSteps
      /\ redis' = [redis EXCEPT !["identifier"] = val[r]]
      /\ pc' = [pc EXCEPT ![r] = "setClientId"]
      /\ UNCHANGED <<db, lock, tx, val, presented, signed, replays, causes>>
  BY DEF SetIdentifier, Go, history, SetSteps, IInv
<1>1. /\ val[r] \in Row /\ Exists(val[r])
      /\ r \in Rotations => val[r] = tx[r]
      /\ r \in Readers => val[r] = db \/ val[r].ver < db.ver
  BY <1>0, ValueSet
<1>2. /\ redis' \in [Keys -> Row \cup {NoRow}]
      /\ redis'["identifier"] = val[r] /\ redis'["clientId"] = redis["clientId"]
      /\ val' = [val EXCEPT ![r] = val[r]]
  BY <1>0, <1>1 DEF TypeOK, Keys
<1>3. /\ TypeOK' /\ Transactions' /\ RowAuthor' /\ TokensAreFresh'
      /\ Passed' = Passed /\ (Unspoiled' => Unspoiled)
      /\ \A h \in Rotations \ {r} : pc'[h] = pc[h]
      /\ pc'[r] = "setClientId"
  BY <1>0, <1>2, SetMoves
<1>4. CopiesAreCurrent'
  <2>1. ~Exists(redis'["clientId"]) => Passed' = {} /\ db'.ver = 1
    BY <1>0, <1>2, <1>3 DEF IInv, CopiesAreCurrent
  <2>2. ASSUME Unspoiled'
        PROVE  redis'["identifier"].ver <= db'.ver
                \/ \E h \in Rotations : pc'[h] \in {"setClientId", "commit"} /\ redis'["identifier"] = tx'[h]
    <3>1. CASE r \in Rotations
      BY <1>0, <1>1, <1>2, <1>3, <3>1
    <3>2. CASE r \in Readers
      <4>1. val[r].ver \in Nat /\ db.ver \in Nat
        BY <1>0, <1>1, RowFacts DEF TypeOK
      <4> QED
        BY <1>0, <1>1, <1>2, <3>2, <4>1
    <3> QED
      BY <3>1, <3>2 DEF Requests
  <2>3. \A h \in Rotations : pc'[h] = "commit" <=> pc[h] = "commit"
    BY <1>0, <1>3
  <2>4. ASSUME Unspoiled'
        PROVE  (\A h \in Rotations : pc'[h] = "commit" => redis'["clientId"] = tx'[h])
               /\ ComparedCopyIsCurrent'
    BY <1>0, <1>2, <1>3, <2>3, <2>4 DEF IInv, CopiesAreCurrent, ComparedCopyIsCurrent
  <2> QED
    BY <2>1, <2>2, <2>4 DEF CopiesAreCurrent
<1> QED
  BY <1>3, <1>4 DEF IInv

\* The copy the tokens are compared with changes here only: to the row about to
\* be committed, or to the row a reader has loaded, which is the committed one
\* unless the key already held a later version.
LEMMA SetClientIdStep ==
  ASSUME IInv, NEW r \in Requests, SetClientId(r)  PROVE IInv'
<1>0. /\ TypeOK /\ pc[r] = "setClientId" /\ pc[r] \in SetSteps
      /\ redis' = [redis EXCEPT !["clientId"] = val[r]]
      /\ pc' = [pc EXCEPT ![r] = AfterSets(r)]
      /\ val' = [val EXCEPT ![r] = NoRow]
      /\ causes' \in {causes, causes \cup {"lateFill"}}
      /\ redis["clientId"].ver > val[r].ver => "lateFill" \in causes'
      /\ UNCHANGED <<db, lock, tx, presented, signed, replays>>
  BY DEF SetClientId, Go, SetSteps, IInv
<1>1. /\ val[r] \in Row /\ Exists(val[r])
      /\ r \in Rotations => val[r] = tx[r]
      /\ r \in Readers => val[r] = db \/ val[r].ver < db.ver
  BY <1>0, ValueSet
<1>2. /\ redis' \in [Keys -> Row \cup {NoRow}]
      /\ redis'["clientId"] = val[r] /\ redis'["identifier"] = redis["identifier"]
  BY <1>0, <1>1 DEF TypeOK, Keys
<1>a. AfterSets(r) # "setClientId"
  BY DEF AfterSets
<1>3. /\ TypeOK' /\ Transactions' /\ RowAuthor' /\ TokensAreFresh'
      /\ Passed' = Passed /\ (Unspoiled' => Unspoiled)
      /\ \A h \in Rotations \ {r} : pc'[h] = pc[h]
      /\ pc'[r] = AfterSets(r)
  BY <1>0, <1>2, <1>a, SetMoves
<1>4. ASSUME r \in Rotations PROVE CopiesAreCurrent'
  <2>1. pc'[r] = "commit" /\ \A h \in Rotations : pc[h] \in Open => h = r
    BY <1>0, <1>3, <1>4, OneOpen DEF AfterSets, Open
  <2>2. \A h \in Rotations : pc'[h] = "commit" => h = r
    BY <1>3, <2>1 DEF Open
  <2>3. ASSUME Unspoiled'
        PROVE  redis'["identifier"].ver <= db'.ver
                \/ \E h \in Rotations : pc'[h] \in {"setClientId", "commit"} /\ redis'["identifier"] = tx'[h]
    <3>1. redis["identifier"].ver <= db.ver
          \/ \E h \in Rotations : pc[h] \in {"setClientId", "commit"} /\ redis["identifier"] = tx[h]
      BY <1>3, <2>3 DEF IInv, CopiesAreCurrent
    <3>2. \A h \in Rotations : pc[h] \in {"setClientId", "commit"} => pc'[h] \in {"setClientId", "commit"}
      BY <1>3, <2>1
    <3> QED
      BY <1>0, <1>2, <3>1, <3>2
  <2> QED
    BY <1>0, <1>1, <1>2, <1>4, <2>1, <2>2, <2>3 DEF CopiesAreCurrent, ComparedCopyIsCurrent
<1>5. ASSUME r \in Readers PROVE CopiesAreCurrent'
  <2>1. \A h \in Rotations : pc'[h] = pc[h]
    BY <1>3, <1>5, RotationsAssumption
  <2>2. ASSUME Unspoiled'
        PROVE  val[r] = db /\ \A h \in Rotations : pc[h] # "commit"
    <3>1. redis["clientId"].ver <= val[r].ver /\ Unspoiled
      <4>1. "lateFill" \notin causes'
        BY <2>2 DEF Unspoiled
      <4>2. redis["clientId"].ver \in Nat /\ val[r].ver \in Nat
        BY <1>0, <1>1, RowFacts DEF TypeOK, Keys
      <4> QED
        BY <1>0, <1>3, <2>2, <4>1, <4>2
    <3>2. val[r].ver \in Nat \ {0} /\ db.ver \in Nat \ {0} /\ (val[r] = db \/ val[r].ver < db.ver)
      BY <1>0, <1>1, <1>5, RowFacts DEF TypeOK
    <3>3. ASSUME NEW h \in Rotations, pc[h] = "commit" PROVE FALSE
      <4>1. tx[h].ver = db.ver + 1
        BY <3>3, OneOpen DEF Open
      <4>2. redis["clientId"] = tx[h]
        BY <3>1, <3>3 DEF IInv, CopiesAreCurrent
      <4> QED
        BY <3>1, <3>2, <4>1, <4>2
    <3>4. CASE Exists(redis["clientId"])
      BY <3>1, <3>2, <3>3, <3>4 DEF IInv, CopiesAreCurrent, ComparedCopyIsCurrent
    <3>5. CASE ~Exists(redis["clientId"])
      <4>1. db.ver = 1
        BY <3>5 DEF IInv, CopiesAreCurrent
      <4>2. val[r] = db
        BY <3>2, <4>1
      <4>3. Passed = {}
        BY <3>5 DEF IInv, CopiesAreCurrent
      <4>4. \A h \in Rotations : pc[h] = "commit" => h \in Passed
        BY DEF Passed, Open
      <4> QED
        BY <4>2, <4>3, <4>4
    <3> QED
      BY <3>3, <3>4, <3>5
  <2>3. ASSUME Unspoiled'
        PROVE  redis'["identifier"].ver <= db'.ver
                \/ \E h \in Rotations : pc'[h] \in {"setClientId", "commit"} /\ redis'["identifier"] = tx'[h]
    BY <1>0, <1>2, <1>3, <2>1, <2>3 DEF IInv, CopiesAreCurrent
  <2> QED
    BY <1>0, <1>1, <1>2, <2>1, <2>2, <2>3 DEF CopiesAreCurrent, ComparedCopyIsCurrent
<1> QED
  BY <1>3, <1>4, <1>5 DEF IInv, Requests

LEMMA SetSkippedStep ==
  ASSUME IInv, NEW r \in Requests, SetSkipped(r)  PROVE IInv'
<1>0. /\ TypeOK /\ pc[r] \in SetSteps
      /\ pc' = [pc EXCEPT ![r] = AfterSets(r)]
      /\ val' = [val EXCEPT ![r] = NoRow]
      /\ causes' = causes \cup {"setSkipped"}
      /\ UNCHANGED <<db, redis, lock, tx, presented, signed, replays>>
  BY DEF SetSkipped, Go, stored, IInv
<1>1. ~Unspoiled' /\ AfterSets(r) # "setClientId" /\ redis' \in [Keys -> Row \cup {NoRow}]
  BY <1>0 DEF Unspoiled, AfterSets, TypeOK
<1>2. TypeOK' /\ Transactions' /\ RowAuthor' /\ TokensAreFresh' /\ Passed' = Passed
  BY <1>0, <1>1, SetMoves
<1>3. CopiesAreCurrent'
  BY <1>0, <1>1, <1>2 DEF IInv, CopiesAreCurrent
<1> QED
  BY <1>2, <1>3 DEF IInv

-----------------------------------------------------------------------------
LEMMA InitInv == Init => IInv
<1> SUFFICES ASSUME Init PROVE IInv
  OBVIOUS
<1>1. /\ db = [ver |-> 1, token |-> 1, by |-> "signIn"] /\ db \in Row /\ Exists(db)
      /\ \A r \in Requests : pc[r] = "idle"
      /\ \A h \in Rotations : h \in Requests /\ h # "free"
      /\ \A r \in Readers : r \in Requests
      /\ redis["clientId"] \in {db, NoRow} /\ redis["identifier"] \in {db, NoRow}
      /\ Held = {1} /\ Spent = {} /\ Passed = {} /\ causes = {} /\ replays = {}
  BY RotationsAssumption, RowFacts
     DEF Init, Row, Exists, Requests, Keys, Held, Spent, Passed, Open, SetSteps, Committed
<1>2. TypeOK
  BY <1>1, RowFacts DEF Init, TypeOK, Keys
<1>3. Transactions
  BY <1>1 DEF Init, Transactions, Open, SetSteps
<1>4. RowAuthor
  BY <1>1 DEF RowAuthor
<1>5. CopiesAreCurrent
  BY <1>1, RowFacts DEF CopiesAreCurrent, ComparedCopyIsCurrent, NoRow
<1>6. TokensAreFresh
  BY <1>1 DEF Init, TokensAreFresh
<1> QED
  BY <1>2, <1>3, <1>4, <1>5, <1>6 DEF IInv

LEMMA NextInv == IInv /\ [Next]_vars => IInv'
<1> SUFFICES ASSUME IInv, [Next]_vars PROVE IInv'
  OBVIOUS
<1>1. CASE \E h \in Rotations : \/ Present(h) \/ Lookup(h) \/ Write(h) \/ Refresh(h)
                                \/ Commit(h) \/ Answer(h) \/ AnswerLost(h) \/ Fail(h)
  BY <1>1, PresentStep, LookupStep, WriteStep, RefreshStep, CommitStep, AnswerStep, FailStep
<1>2. CASE \E r \in Readers : ReadGet(r) \/ ReadCheck(r) \/ ReadLoad(r)
  BY <1>2, ReaderStep
<1>3. CASE \E r \in Requests : SetIdentifier(r) \/ SetClientId(r) \/ SetSkipped(r)
  BY <1>3, SetIdentifierStep, SetClientIdStep, SetSkippedStep
<1>4. CASE UNCHANGED vars
  BY <1>4 DEF vars, IInv, TypeOK, Transactions, RowAuthor, CopiesAreCurrent,
              ComparedCopyIsCurrent, TokensAreFresh, Unspoiled, Passed, Held, Spent
<1> QED
  BY <1>1, <1>2, <1>3, <1>4 DEF Next

-----------------------------------------------------------------------------
\* The invariant of the rotations, as inductive as it stands.
THEOREM Inductive == Spec => []IInv
<1>1. Init => IInv
  BY InitInv
<1>2. IInv /\ [Next]_vars => IInv'
  BY NextInv
<1> QED
  BY <1>1, <1>2, PTL DEF Spec

\* Every variable has its type.
THEOREM TypeCorrect == Spec => []TypeOK
<1>1. IInv => TypeOK
  BY DEF IInv
<1> QED
  BY <1>1, Inductive, PTL

\* The token of the row is in a client's hands or in the answer under way,
\* unless an answer was lost.
THEOREM LiveTokenKept == Spec => []LiveTokenIsHeld
<1>1. IInv => LiveTokenIsHeld
  <2> SUFFICES ASSUME IInv, "answerLost" \notin causes
               PROVE  db.token \in Held \/ \E h \in Rotations : pc[h] = "answer" /\ signed[h] = db.token
    BY DEF LiveTokenIsHeld
  <2>1. CASE db = [ver |-> 1, token |-> 1, by |-> "signIn"]
    BY <2>1 DEF Held
  <2>2. CASE db.by \in Rotations /\ pc[db.by] \in Committed /\ db.token = signed[db.by]
    <3>1. pc[db.by] \in {"answer", "done"}
      BY <2>2 DEF Committed, IInv, Transactions
    <3>2. pc[db.by] = "done" => signed[db.by] \in Held
      BY <2>2 DEF Held
    <3> QED
      BY <2>2, <3>1, <3>2
  <2> QED
    BY <2>1, <2>2 DEF IInv, RowAuthor
<1> QED
  BY <1>1, Inductive, PTL

\* The compared copy is the committed row or the one about to be committed,
\* as long as nothing spoiled it.
THEOREM ComparedCopy == Spec => []ComparedCopyIsCurrent
<1>1. IInv => ComparedCopyIsCurrent
  BY DEF IInv, CopiesAreCurrent, ComparedCopyIsCurrent
<1> QED
  BY <1>1, Inductive, PTL

\* A spent token is refused, unless the compared copy was spoiled or two tokens
\* were signed in one second.
THEOREM ReplaysRefused == Spec => []ReplayIsRefused
<1>1. IInv => ReplayIsRefused
  BY DEF IInv, TypeOK, TokensAreFresh, ReplayIsRefused, Passed, Committed
<1> QED
  BY <1>1, Inductive, PTL
================================================================================
