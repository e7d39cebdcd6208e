-------------------------- MODULE ConnectionPoolProofs --------------------------
(***************************************************************************)
(* IInv is an inductive invariant of ConnectionPool, for any requests and  *)
(* any pool; what brings the service to a halt follows from it.            *)
(***************************************************************************)
EXTENDS ConnectionPool, TLAPS

LEMMA QueriesFacts ==
  \A k \in Kinds : /\ Queries(k) \subseteq 0 .. 2
                   /\ \A n \in Queries(k) : n > 0 => k \in Nesting \cup {"reader"}
                   /\ k = "reader" => \A n \in Queries(k) : n > 0
  BY DEF Kinds, Queries, Nesting

\* The connection of a transaction is a connection in the hands of its request.
LEMMA CurFacts ==
  ASSUME IInv, NEW r \in Requests, pc[r] \in {"begin"} \cup InTx
  PROVE  /\ Cur(r) \in Conns /\ Cur(r) # "none"
         /\ extra[r] = "none" => Cur(r) = main[r]
         /\ \A s \in Requests : pc[s] \in {"begin"} \cup InTx /\ Cur(s) = Cur(r) => s = r
  BY ConnsAssumption DEF IInv, TypeOK, Held, OwnConnections, Cur

\* Steps that move nothing between the pool and the requests keep the
\* connections apart.
LEMMA SameHands ==
  ASSUME IInv, UNCHANGED <<main, extra>>
  PROVE  OwnConnections' /\ Free' = Free /\ \A r \in Requests : Cur(r)' = Cur(r)
  BY DEF IInv, OwnConnections, Free, Cur

-----------------------------------------------------------------------------
LEMMA ArriveStep ==
  ASSUME IInv, NEW r \in Requests, Arrive(r)  PROVE IInv'
<1> USE DEF IInv
<1>k. PICK k \in Kinds :
        /\ pc[r] = "idle"
        /\ kind' = [kind EXCEPT ![r] = k]
        /\ \E n \in Queries(k) : left' = [left EXCEPT ![r] = n]
        /\ pc' = [pc EXCEPT ![r] = IF k = "reader" THEN "query" ELSE "connect"]
        /\ UNCHANGED <<main, extra, lock, open>>
  BY DEF Arrive, Go
<1>0. PICK n \in Queries(k) : left' = [left EXCEPT ![r] = n]
  BY <1>k
<1>1. /\ n \in 0 .. 2 /\ (k = "reader" => n > 0)
      /\ kind'[r] = k /\ left'[r] = n
      /\ \A s \in Requests \ {r} : pc'[s] = pc[s] /\ kind'[s] = kind[s] /\ left'[s] = left[s]
      /\ pc'[r] = IF k = "reader" THEN "query" ELSE "connect"
  BY <1>k, <1>0, QueriesFacts DEF TypeOK
<1>2. TypeOK'
  BY <1>k, <1>0, <1>1 DEF TypeOK, Steps
<1>3. OwnConnections'
  BY <1>k, <1>0, SameHands
<1>4. Held'
  BY <1>k, <1>0, <1>1 DEF Held, InTx
<1>5. Transactions'
  BY <1>k, <1>0, <1>1 DEF Transactions, InTx, Cur
<1> QED
  BY <1>2, <1>3, <1>4, <1>5

LEMMA ConnectStep ==
  ASSUME IInv, NEW r \in Requests, Connect(r)  PROVE IInv'
<1> USE DEF IInv
<1>0. PICK c \in Free, step \in {AfterConnect(r), "release"} :
        /\ pc[r] = "connect"
        /\ main' = [main EXCEPT ![r] = c] /\ pc' = [pc EXCEPT ![r] = step]
        /\ UNCHANGED <<kind, left, extra, lock, open>>
  BY DEF Connect, Go
<1>1. /\ c \in Conns /\ c # "none" /\ main'[r] = c /\ pc'[r] = step
      /\ main[r] = "none" /\ extra[r] = "none" /\ kind[r] # "reader"
      /\ \A s \in Requests : main[s] # c /\ extra[s] # c
      /\ \A s \in Requests \ {r} : pc'[s] = pc[s] /\ main'[s] = main[s]
      /\ step \in {"query", "release", "begin"}
      /\ step = "query" => kind[r] \in Nesting /\ left[r] > 0
  BY <1>0, ConnsAssumption, QueriesFacts DEF TypeOK, Free, AfterConnect, Held
<1>2. TypeOK'
  BY <1>0, <1>1 DEF TypeOK, Steps
<1>3. OwnConnections'
  BY <1>0, <1>1 DEF OwnConnections
<1>4. Held'
  BY <1>0, <1>1 DEF Held, InTx
<1>5. Transactions'
  BY <1>0, <1>1 DEF Transactions, InTx, Cur
<1> QED
  BY <1>2, <1>3, <1>4, <1>5

LEMMA TakeStep ==
  ASSUME IInv, NEW r \in Requests, TakeQuery(r) \/ Notify(r)  PROVE IInv'
<1> USE DEF IInv
<1>0. PICK c \in Free, step \in {"querying", "begin"} :
        /\ (pc[r] = "query" /\ step = "querying") \/ (pc[r] = "notify" /\ step = "begin")
        /\ extra' = [extra EXCEPT ![r] = c] /\ pc' = [pc EXCEPT ![r] = step]
        /\ UNCHANGED <<kind, left, main, lock, open>>
  BY DEF TakeQuery, Notify, Go
<1>1. /\ c \in Conns /\ c # "none" /\ extra'[r] = c /\ pc'[r] = step
      /\ extra[r] = "none"
      /\ \A s \in Requests : main[s] # c /\ extra[s] # c
      /\ \A s \in Requests \ {r} : pc'[s] = pc[s] /\ extra'[s] = extra[s]
  BY <1>0, ConnsAssumption DEF TypeOK, Free, Held
<1>2. TypeOK'
  BY <1>0, <1>1 DEF TypeOK, Steps
<1>3. OwnConnections'
  BY <1>0, <1>1 DEF OwnConnections
<1>4. Held'
  BY <1>0, <1>1 DEF Held, InTx
<1>5. Transactions'
  BY <1>0, <1>1 DEF Transactions, InTx, Cur
<1> QED
  BY <1>2, <1>3, <1>4, <1>5

LEMMA QueryDoneStep ==
  ASSUME IInv, NEW r \in Requests, QueryDone(r)  PROVE IInv'
<1> USE DEF IInv
<1>0. PICK step \in {"query", "begin", "done", "release"} :
        /\ pc[r] = "querying"
        /\ extra' = [extra EXCEPT ![r] = "none"] /\ left' = [left EXCEPT ![r] = @ - 1]
        /\ pc' = [pc EXCEPT ![r] = step]
        /\ step = "query" => left[r] > 1
        /\ step \in {"begin", "release"} => kind[r] # "reader"
        /\ step = "done" => kind[r] = "reader"
        /\ UNCHANGED <<kind, main, lock, open>>
  BY DEF QueryDone, Go
<1>1. /\ left[r] \in 1 .. 2 /\ kind[r] \in Nesting \cup {"reader"}
      /\ main[r] = "none" <=> kind[r] = "reader"
      /\ pc'[r] = step /\ extra'[r] = "none" /\ left'[r] = left[r] - 1
      /\ \A s \in Requests \ {r} : pc'[s] = pc[s] /\ extra'[s] = extra[s] /\ left'[s] = left[s]
  BY <1>0 DEF TypeOK, Held
<1>2. TypeOK'
  BY <1>0, <1>1 DEF TypeOK, Steps
<1>3. OwnConnections'
  BY <1>0, <1>1 DEF OwnConnections
<1>4. Held'
  BY <1>0, <1>1 DEF Held, InTx
<1>5. Transactions'
  BY <1>0, <1>1 DEF Transactions, InTx, Cur
<1> QED
  BY <1>2, <1>3, <1>4, <1>5

\* The steps of a transaction, of r on the connection c: they move nothing
\* between the pool and the requests.
LEMMA TxMoves ==
  ASSUME IInv, NEW r \in Requests, NEW step \in {"write", "inTx", "release", "notify"},
         pc[r] \in {"begin"} \cup InTx, pc' = [pc EXCEPT ![r] = step],
         step = "notify" => kind[r] = "verify" /\ extra[r] = "none",
         NEW l \in {lock, Cur(r), "none"}, lock' = l,
         NEW o \in SUBSET Conns, open' = o,
         UNCHANGED <<kind, left, main, extra>>
  PROVE  /\ TypeOK' /\ OwnConnections' /\ Held'
         /\ pc'[r] = step /\ \A s \in Requests \ {r} : pc'[s] = pc[s]
         /\ \A s \in Requests : Cur(s)' = Cur(s)
         /\ \A s \in Requests \ {r} : pc[s] \in InTx => Cur(s) # Cur(r)
<1>1. /\ pc'[r] = step /\ \A s \in Requests \ {r} : pc'[s] = pc[s]
      /\ Cur(r) \in Conns
  BY CurFacts DEF IInv, TypeOK
<1>2. TypeOK'
  BY <1>1 DEF IInv, TypeOK, Steps
<1>3. Held'
  BY <1>1 DEF IInv, Held, InTx
<1>4. \A s \in Requests \ {r} : pc[s] \in InTx => Cur(s) # Cur(r)
  BY CurFacts
<1> QED
  BY <1>1, <1>2, <1>3, <1>4, SameHands

LEMMA BeginStep ==
  ASSUME IInv, NEW r \in Requests, Begin(r) \/ BeginInherits(r) \/ BeginRejected(r)  PROVE IInv'
<1>1. CASE Begin(r)
  <2>1. PICK step \in InTx : pc' = [pc EXCEPT ![r] = step]
    BY <1>1 DEF Begin, Go
  <2>2. /\ pc[r] = "begin" /\ Cur(r) \notin open /\ open \in SUBSET Conns
        /\ UNCHANGED <<kind, left, main, extra, lock, open>>
    BY <1>1 DEF Begin, IInv, TypeOK
  <2>3. /\ TypeOK' /\ OwnConnections' /\ Held'
        /\ pc'[r] = step /\ \A s \in Requests \ {r} : pc'[s] = pc[s]
        /\ \A s \in Requests : Cur(s)' = Cur(s)
    BY <2>1, <2>2, TxMoves DEF InTx
  <2>4. Transactions'
    BY <2>1, <2>2, <2>3 DEF IInv, Transactions, InTx
  <2> QED
    BY <2>3, <2>4 DEF IInv
<1>2. CASE BeginInherits(r)
  <2>1. PICK step \in InTx : pc' = [pc EXCEPT ![r] = step]
    BY <1>2 DEF BeginInherits, Go
  <2>2. /\ pc[r] = "begin" /\ open' = open \ {Cur(r)} /\ open' \in SUBSET Conns
        /\ UNCHANGED <<kind, left, main, extra, lock>>
    BY <1>2 DEF BeginInherits, IInv, TypeOK
  <2>3. /\ TypeOK' /\ OwnConnections' /\ Held'
        /\ pc'[r] = step /\ \A s \in Requests \ {r} : pc'[s] = pc[s]
        /\ \A s \in Requests : Cur(s)' = Cur(s)
    BY <2>1, <2>2, TxMoves DEF InTx
  <2>4. Transactions'
    BY <2>1, <2>2, <2>3 DEF IInv, Transactions, InTx
  <2> QED
    BY <2>3, <2>4 DEF IInv
<1>3. CASE BeginRejected(r)
  <2>2. /\ pc[r] = "begin" /\ pc' = [pc EXCEPT ![r] = "release"]
        /\ open' = open \ {Cur(r)} /\ open' \in SUBSET Conns
        /\ lock' = IF lock = Cur(r) THEN "none" ELSE lock
        /\ UNCHANGED <<kind, left, main, extra>>
    BY <1>3 DEF BeginRejected, EndLock, Go, IInv, TypeOK
  <2>3. /\ TypeOK' /\ OwnConnections' /\ Held'
        /\ pc'[r] = "release" /\ \A s \in Requests \ {r} : pc'[s] = pc[s]
        /\ \A s \in Requests : Cur(s)' = Cur(s)
    BY <2>2, TxMoves
  <2>4. Transactions'
    BY <2>2, <2>3 DEF IInv, Transactions, InTx
  <2> QED
    BY <2>3, <2>4 DEF IInv
<1> QED
  BY <1>1, <1>2, <1>3

LEMMA WriteStep ==
  ASSUME IInv, NEW r \in Requests, Write(r)  PROVE IInv'
<1>1. /\ pc[r] = "write" /\ pc' = [pc EXCEPT ![r] = "inTx"]
      /\ lock' = Cur(r) /\ open \in SUBSET Conns
      /\ UNCHANGED <<kind, left, main, extra, open>>
  BY DEF Write, Go, IInv, TypeOK
<1>2. /\ TypeOK' /\ OwnConnections' /\ Held'
      /\ pc'[r] = "inTx" /\ \A s \in Requests \ {r} : pc'[s] = pc[s]
      /\ \A s \in Requests : Cur(s)' = Cur(s)
  BY <1>1, TxMoves DEF InTx
<1>3. Transactions'
  BY <1>1, <1>2 DEF IInv, Transactions, InTx
<1> QED
  BY <1>2, <1>3 DEF IInv

LEMMA EndStep ==
  ASSUME IInv, NEW r \in Requests, Commit(r) \/ Rollback(r)  PROVE IInv'
<1>1. PICK step \in {"release", "notify"} :
        /\ pc' = [pc EXCEPT ![r] = step]
        /\ step = "notify" => kind[r] = "verify" /\ extra[r] = "none"
        /\ pc[r] \in InTx
        /\ lock' = IF lock = Cur(r) THEN "none" ELSE lock
        /\ UNCHANGED <<kind, left, main, extra, open>>
  BY DEF Commit, Rollback, EndLock, Go, InTx
<1>2. /\ TypeOK' /\ OwnConnections' /\ Held'
      /\ pc'[r] = step /\ \A s \in Requests \ {r} : pc'[s] = pc[s]
      /\ \A s \in Requests : Cur(s)' = Cur(s)
  BY <1>1, TxMoves DEF IInv, TypeOK
<1>3. Transactions'
  BY <1>1, <1>2 DEF IInv, Transactions, InTx
<1> QED
  BY <1>2, <1>3 DEF IInv

LEMMA ForgetStep ==
  ASSUME IInv, NEW r \in Requests, Forget(r)  PROVE IInv'
<1>1. /\ pc[r] = "inTx" /\ extra[r] = "none" /\ pc' = [pc EXCEPT ![r] = "release"]
      /\ open' = open \cup {main[r]}
      /\ UNCHANGED <<kind, left, main, extra, lock>>
  BY DEF Forget, Go
<1>2. main[r] = Cur(r) /\ open' \in SUBSET Conns
  BY <1>1, CurFacts DEF IInv, TypeOK, InTx
<1>3. /\ TypeOK' /\ OwnConnections' /\ Held'
      /\ pc'[r] = "release" /\ \A s \in Requests \ {r} : pc'[s] = pc[s]
      /\ \A s \in Requests : Cur(s)' = Cur(s)
      /\ \A s \in Requests \ {r} : pc[s] \in InTx => Cur(s) # Cur(r)
  BY <1>1, <1>2, TxMoves DEF InTx
<1>4. Transactions'
  BY <1>1, <1>2, <1>3 DEF IInv, Transactions, InTx
<1> QED
  BY <1>3, <1>4 DEF IInv

LEMMA ReleaseStep ==
  ASSUME IInv, NEW r \in Requests, Release(r)  PROVE IInv'
<1> USE DEF IInv
<1>1. CASE extra[r] # "none"
  <2>1. /\ pc[r] = "release" /\ extra' = [extra EXCEPT ![r] = "none"] /\ extra'[r] = "none"
        /\ \A s \in Requests \ {r} : extra'[s] = extra[s]
        /\ UNCHANGED <<kind, pc, left, main, lock, open>>
    BY <1>1 DEF Release, TypeOK
  <2>2. TypeOK' /\ OwnConnections' /\ Held' /\ Transactions'
    BY <2>1 DEF TypeOK, OwnConnections, Held, Transactions, InTx, Cur
  <2> QED
    BY <2>2
<1>2. CASE extra[r] = "none"
  <2>1. /\ pc[r] = "release" /\ main' = [main EXCEPT ![r] = "none"] /\ main'[r] = "none"
        /\ pc' = [pc EXCEPT ![r] = "done"] /\ pc'[r] = "done"
        /\ \A s \in Requests \ {r} : main'[s] = main[s] /\ pc'[s] = pc[s]
        /\ UNCHANGED <<kind, extra, left, lock, open>>
    BY <1>2 DEF Release, Go, TypeOK
  <2>2. TypeOK' /\ OwnConnections'
    BY <2>1 DEF TypeOK, OwnConnections, Steps
  <2>3. Held'
    BY <1>2, <2>1 DEF Held, InTx
  <2>4. Transactions'
    BY <2>1 DEF Transactions, InTx, Cur
  <2> QED
    BY <2>2, <2>3, <2>4
<1> QED
  BY <1>1, <1>2

-----------------------------------------------------------------------------
LEMMA InitInv == Init => IInv
  BY DEF Init, IInv, TypeOK, Kinds, Steps, OwnConnections, Held, Transactions, InTx

LEMMA NextInv == IInv /\ [Next]_vars => IInv'
<1> SUFFICES ASSUME IInv, [Next]_vars PROVE IInv'
  OBVIOUS
<1>1. CASE \E r \in Requests : Arrive(r) \/ Run(r)
  BY <1>1, ArriveStep, ConnectStep, TakeStep, QueryDoneStep, BeginStep, WriteStep, EndStep,
     ForgetStep, ReleaseStep DEF Run
<1>2. CASE UNCHANGED vars
  BY <1>2 DEF vars, IInv, TypeOK, OwnConnections, Held, Transactions, Cur
<1> QED
  BY <1>1, <1>2 DEF Next

-----------------------------------------------------------------------------
\* No connection is in two hands, and the row lock is with a transaction under
\* way or forgotten.
THEOREM Inductive == Spec => []IInv
<1>1. Init => IInv
  BY InitInv
<1>2. IInv /\ [Next]_vars => IInv'
  BY NextInv
<1> QED
  BY <1>1, <1>2, PTL DEF Spec

\* Every variable has its type.
THEOREM TypeCorrect == Spec => []TypeOK
<1>1. IInv => TypeOK
  BY DEF IInv
<1> QED
  BY <1>1, Inductive, PTL

\* The service halts only with every connection held by a handler that asks for
\* a second one, or with the row lock left on a connection of the pool.
THEOREM HaltHasCause == Spec => []HaltCause
<1>1. IInv => HaltCause
  <2> SUFFICES ASSUME IInv, Halted, lock \notin open PROVE Exhausted
    BY DEF HaltCause
  <2> USE DEF IInv
  <2>1. \A r \in Requests : pc[r] # "inTx"
    BY DEF Halted, Waits, Asking
  <2>2. ASSUME NEW r \in Requests, pc[r] = "write" PROVE FALSE
    <3>1. ~CanWrite(r)
      BY <2>2 DEF Halted, Waits, Asking
    <3>2. PICK s \in Requests : pc[s] \in InTx /\ Cur(s) = lock
      BY <3>1 DEF CanWrite, Transactions
    <3>3. pc[s] = "write" /\ CanWrite(s)
      BY <2>1, <3>2 DEF InTx, CanWrite
    <3> QED
      BY <3>3 DEF Halted, Waits, Asking
  <2>3. \A r \in Requests : pc[r] \in {"idle", "done"} \cup Asking
    BY <2>2 DEF Halted, Waits
  <2>4. Free = {}
    BY <2>2 DEF Halted, Waits
  <2>5. ASSUME NEW c \in Conns
        PROVE  \E r \in Requests : /\ main[r] = c /\ extra[r] = "none"
                                   /\ kind[r] \in Nesting /\ pc[r] \in {"query", "notify"}
    <3>1. PICK r \in Requests : main[r] = c \/ extra[r] = c
      BY <2>4 DEF Free
    <3>2. c # "none"
      BY ConnsAssumption
    <3>3. pc[r] \in {"query", "notify"} /\ extra[r] = "none" /\ main[r] = c
      BY <2>3, <3>1, <3>2 DEF Asking, Held
    <3>4. kind[r] \in Nesting
      BY <3>2, <3>3 DEF Held, Nesting
    <3> QED
      BY <3>3, <3>4
  <2> QED
    BY <2>5 DEF Exhausted
<1> QED
  BY <1>1, Inductive, PTL
================================================================================
