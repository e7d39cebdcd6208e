----------------------- MODULE VerificationEmailProofs ------------------------
(***************************************************************************)
(* Whatever fails, no token vanishes, the emails and the requests that     *)
(* mail a wrong token are counted, and the flag and the repetitions can be *)
(* explained, for any number of requests and any bounds.                   *)
(***************************************************************************)
EXTENDS VerificationEmail, FiniteSetTheorems, TLAPS

-----------------------------------------------------------------------------
(* Sets of requests are finite, and count as they should. *)

LEMMA SomeRequests ==
  ASSUME NEW S \in SUBSET Handlers
  PROVE  IsFiniteSet(S) /\ Cardinality(S) \in Nat
  BY HandlersAssumption, FS_Subset, FS_CardinalityType

LEMMA MoreRequests ==
  ASSUME NEW T \in SUBSET Handlers, NEW S \in SUBSET T
  PROVE  Cardinality(S) <= Cardinality(T)
  BY SomeRequests, FS_Subset

LEMMA OneMoreRequest ==
  ASSUME NEW S \in SUBSET Handlers, NEW h \in Handlers, h \notin S
  PROVE  Cardinality(S \cup {h}) = Cardinality(S) + 1
  BY SomeRequests, FS_AddElement

\* A request with the email behind it is counted from then on.
LEMMA MoreRepeated ==
  ASSUME UNCHANGED <<fresh, parcel>>, \A g \in Handlers : pc'[g] = "mail" => pc[g] = "mail",
         NEW t
  PROVE  /\ Repeated(t) \subseteq Repeated(t)'
         /\ Cardinality(Repeated(t)) <= Cardinality(Repeated(t)')
         /\ Cardinality(Repeated(t)) \in Nat /\ Cardinality(Repeated(t)') \in Nat
         /\ OwnMail(t) => OwnMail(t)'
<1>1. Repeated(t) \in SUBSET Repeated(t)' /\ Repeated(t)' \in SUBSET Handlers
  BY DEF Repeated, Repeating, Strayed
<1>2. OwnMail(t) => OwnMail(t)'
  BY DEF OwnMail
<1> QED
  BY <1>1, <1>2, MoreRequests, SomeRequests

-----------------------------------------------------------------------------
(* What a step that does not touch them leaves of the parts of IInv. *)

LEMMA CountedFrame ==
  ASSUME IInv, UNCHANGED <<mailed, fresh, parcel>>, Sends <= Sends', Sends' \in Nat,
         \A g \in Handlers : pc'[g] = "mail" => pc[g] = "mail"
  PROVE  MailsAreCounted'
<1> USE BoundsAssumption
<1>1. mailed \in [Tokens -> Nat] /\ 1 \in Tokens /\ Sends \in Nat
  BY DEF IInv, TypeOK, Tokens, Sends
<1>2. ASSUME NEW t \in Tokens \ {1}
      PROVE  mailed'[t] <= (IF OwnMail(t)' THEN 1 ELSE 0) + Cardinality(Repeated(t)')
  <2>1. /\ Cardinality(Repeated(t)) \in Nat /\ Cardinality(Repeated(t)') \in Nat
        /\ Cardinality(Repeated(t)) <= Cardinality(Repeated(t)')
        /\ OwnMail(t) => OwnMail(t)'
    BY MoreRepeated
  <2>2. mailed[t] <= (IF OwnMail(t) THEN 1 ELSE 0) + Cardinality(Repeated(t)) /\ mailed[t] \in Nat
    BY <1>1 DEF IInv, MailsAreCounted
  <2> QED
    BY <2>1, <2>2
<1>3. mailed'[1] <= Sends' + Cardinality(Repeated(1)')
  <2>1. /\ Cardinality(Repeated(1)) \in Nat /\ Cardinality(Repeated(1)') \in Nat
        /\ Cardinality(Repeated(1)) <= Cardinality(Repeated(1)')
    BY MoreRepeated
  <2>2. mailed[1] <= Sends + Cardinality(Repeated(1)) /\ mailed[1] \in Nat
    BY <1>1 DEF IInv, MailsAreCounted
  <2> QED
    BY <1>1, <2>1, <2>2
<1> QED
  BY <1>2, <1>3 DEF MailsAreCounted

LEMMA JobFrame ==
  ASSUME IInv, UNCHANGED job
  PROVE  JobIsCounted' /\ Sends' = Sends /\ Sends \in Nat
<1>1. Sends' = Sends
  BY DEF Sends, GivenUp
<1> QED
  BY <1>1 DEF IInv, TypeOK, JobIsCounted, Sends

LEMMA AccountedFrame ==
  ASSUME IInv, UNCHANGED <<issued, creator, job, mailed, fresh, parcel>>, lost \subseteq lost',
         \A g \in Handlers : pc[g] = "mail" => pc'[g] = "mail" \/ fresh[g] \in lost'
  PROVE  Accounted'
  BY DEF IInv, Accounted, GivenUp

LEMMA RepeatsFrame ==
  ASSUME IInv, UNCHANGED <<mailed, job, fresh, parcel>>, flagFailed \subseteq flagFailed',
         row.status = "ACTIVE" => row'.status = "ACTIVE",
         \A g \in Handlers : pc'[g] = "mail" => pc[g] = "mail"
  PROVE  RepeatsAccounted'
<1>1. Repeated(1) \subseteq Repeated(1)'
  BY MoreRepeated
<1> QED
  BY <1>1 DEF IInv, RepeatsAccounted

LEMMA SentFrame ==
  ASSUME IInv, UNCHANGED <<mailed, job, parcel>>, flagFailed \subseteq flagFailed',
         row'.sent = row.sent, row'.status = "INACTIVE" => row.status = "INACTIVE",
         \A g \in Handlers : pc'[g] = "flag" => pc[g] = "flag",
         \A g \in Handlers : pc[g] = "flag" =>
             pc'[g] = "flag" \/ flagFailed' # {} \/ row'.status # "INACTIVE"
  PROVE  SentAfterMail'
  BY DEF IInv, SentAfterMail, GivenUp

\* A transaction given up pays for the copy it may have left.
LEMMA PaidFrame ==
  ASSUME IInv, UNCHANGED <<fresh, parcel>>,
         \/ abandoned' = abandoned /\ (Ahead' => Ahead)
         \/ abandoned' = abandoned + 1
  PROVE  Paid'
<1>1. Strayed' = Strayed /\ Cardinality(Strayed) \in Nat /\ abandoned \in Nat
  BY SomeRequests DEF Strayed, IInv, TypeOK
<1> QED
  BY <1>1 DEF IInv, Paid

-----------------------------------------------------------------------------
(* What the transactions see and do. *)

LEMMA ViewFacts ==
  ASSUME IInv, NEW h \in Handlers, pc[h] \in {"activate", "reissue"}, CanLock(h)
  PROVE  /\ View(h) \in Row /\ Exists(View(h)) /\ WellFormed(View(h)) /\ Exists(row) /\ issued # 0
         /\ View(h).ver >= row.ver /\ View(h).sent = row.sent
         /\ View(h).status = "INACTIVE" => row.status = "INACTIVE"
         /\ View(h) # row => Exists(left)
<1>1. issued # 0 /\ Exists(row) /\ row.ver \in Nat
  BY DEF IInv, CreatedOnce, TokensInOrder, TypeOK, Row
<1>2. CASE heir = h
  BY <1>1, <1>2, HandlersAssumption DEF IInv, TypeOK, LeftIsAhead, TokensInOrder, View, Row, Exists
<1>3. CASE heir # h
  BY <1>1, <1>3 DEF IInv, TypeOK, TokensInOrder, View, Row, Exists, WellFormed
<1> QED
  BY <1>2, <1>3

\* A commit makes no copy newer than the row that was not.
LEMMA CommitFacts ==
  ASSUME IInv, NEW w \in Row, w.ver > row.ver, Commit(w)
  PROVE  /\ row' = w /\ left' = NoRow /\ heir' = "none"
         /\ cached' \in [ver : Nat, token : 0 .. MaxToken]
         /\ cached'.token <= issued \/ cached'.token = w.token
         /\ Ahead' => Ahead
         /\ LeftIsAhead'
<1>1. /\ w.ver \in Nat /\ row.ver \in Nat /\ w.token \in 0 .. MaxToken
      /\ cached \in [ver : Nat, token : 0 .. MaxToken] /\ cached.token <= issued
  BY DEF IInv, TypeOK, TokensInOrder, Row
<1>2. /\ row' = w /\ left' = NoRow /\ heir' = "none" /\ ~Exists(left')
      /\ cached' = cached \/ cached' = Copy(w)
  BY DEF Commit, Refreshed, Returned, NoRow, Exists
<1>3. Copy(w) \in [ver : Nat, token : 0 .. MaxToken] /\ Copy(w).token = w.token /\ Copy(w).ver = w.ver
  BY <1>1 DEF Copy
<1>4. Ahead' => Ahead
  BY <1>1, <1>2, <1>3 DEF Ahead
<1>5. LeftIsAhead'
  BY <1>2 DEF LeftIsAhead
<1> QED
  BY <1>1, <1>2, <1>3, <1>4, <1>5

LEMMA GivenUpFacts ==
  ASSUME IInv, NEW w \in Row, RolledBack(w) \/ LeftOpen(w)
  PROVE  /\ row' = row /\ heir' = "none" /\ left' \in {NoRow, w}
         /\ cached' \in [ver : Nat, token : 0 .. MaxToken]
         /\ cached'.token <= issued \/ cached'.token = w.token
         /\ abandoned' = abandoned + 1
<1>1. /\ w.ver \in Nat /\ w.token \in 0 .. MaxToken
      /\ cached \in [ver : Nat, token : 0 .. MaxToken] /\ cached.token <= issued
  BY DEF IInv, TypeOK, TokensInOrder, Row
<1>2. cached' = cached \/ cached' = Copy(w)
  BY DEF RolledBack, LeftOpen, Returned
<1> QED
  BY <1>1, <1>2 DEF RolledBack, LeftOpen, Copy

LEMMA FlaggedFacts ==
  ASSUME IInv, CanFlag
  PROVE  /\ Flagged \in Row /\ Flagged.ver > row.ver /\ Exists(Flagged)
         /\ Flagged.token = row.token /\ Flagged.status = "INACTIVE" /\ Flagged.sent
         /\ WellFormed(Flagged) /\ ~Exists(left) /\ row.status = "INACTIVE" /\ heir = "none"
<1>1. row \in Row /\ row.status = "INACTIVE" /\ ~Exists(left)
  BY DEF IInv, TypeOK, CanFlag
<1> QED
  BY <1>1 DEF Flagged, Row, Exists, WellFormed, IInv, TokensInOrder, LeftIsAhead

LEMMA ActivatedFacts ==
  ASSUME NEW r \in Row
  PROVE  /\ Activated(r) \in Row /\ Activated(r).ver > r.ver /\ Exists(Activated(r))
         /\ Activated(r).token = 0 /\ Activated(r).status = "ACTIVE"
         /\ Activated(r).sent = r.sent
  BY BoundsAssumption DEF Activated, Row, Exists

LEMMA ReissuedFacts ==
  ASSUME IInv, NEW r \in Row, issued < MaxToken, r.status = "INACTIVE"
  PROVE  /\ Reissued(r) \in Row /\ Reissued(r).ver > r.ver /\ Exists(Reissued(r))
         /\ Reissued(r).token = issued + 1 /\ Reissued(r).status = "INACTIVE"
         /\ Reissued(r).sent = r.sent /\ issued + 1 \in 1 .. MaxToken
<1>1. issued \in Nat /\ issued + 1 \in 1 .. MaxToken /\ today + 1 \in 0 .. MaxDay + 1
  BY BoundsAssumption DEF IInv, TypeOK
<1> QED
  BY <1>1 DEF Reissued, Expiry, Row, Exists

-----------------------------------------------------------------------------
(* Steps of the requests that hand no token on. *)

\* A request goes on before its update, or ends.
Onward ==
    \A g \in Handlers : \/ pc'[g] = pc[g]
                        \/ pc[g] \in BeforeWrite /\ pc'[g] \in BeforeWrite \ {"idle"}
                        \/ pc'[g] = "ended"

LEMMA OrderFrame ==
  ASSUME IInv, Onward, UNCHANGED <<issued, mailed, fresh, parcel>>,
         WellFormed(row)', WellFormed(left)', Exists(row') <=> Exists(row),
         cached'.token <= issued, lost' \subseteq 1 .. issued
  PROVE  TokensInOrder'
  BY DEF IInv, TokensInOrder, Onward, BeforeWrite

LEMMA CreatedFrame ==
  ASSUME IInv, issued # 0, UNCHANGED <<issued, creator>>, job'.state # job.state => creator = "ended"
  PROVE  CreatedOnce'
  BY DEF IInv, CreatedOnce

\* A step that changes nothing but where a request is before its update, the
\* heir, the date, or a copy that the cache held no newer than what it gets.
LEMMA QuietStep ==
  ASSUME IInv, TypeOK', LeftIsAhead', Onward,
         issued = 0 => pc' = pc,
         \A g \in Handlers : pc[g] = "mail" => pc'[g] = "mail",
         \A g \in Handlers : pc[g] = "flag" => pc'[g] = "flag" \/ row.status # "INACTIVE",
         UNCHANGED <<row, left, issued, creator, job, fresh, parcel, mailed, history>>,
         cached'.token <= issued, Ahead' => Ahead
  PROVE  IInv'
<1> USE DEF history
<1>0. \A g \in Handlers : /\ pc'[g] = "mail" => pc[g] = "mail"
                          /\ pc'[g] = "flag" => pc[g] = "flag"
  BY DEF Onward, BeforeWrite
<1>1. TokensInOrder'
  BY OrderFrame DEF IInv, TokensInOrder, WellFormed
<1>2. CreatedOnce'
  BY DEF IInv, CreatedOnce
<1>3. Paid'
  BY PaidFrame
<1>4. JobIsCounted' /\ MailsAreCounted' /\ RepeatsAccounted'
  BY <1>0, JobFrame, CountedFrame, RepeatsFrame
<1>5. Accounted'
  BY AccountedFrame
<1>6. SentAfterMail'
  BY <1>0, SentFrame
<1> QED
  BY <1>1, <1>2, <1>3, <1>4, <1>5, <1>6 DEF IInv

LEMMA NextDayStep ==
  ASSUME IInv, NextDay  PROVE IInv'
<1>1. TypeOK'
  BY BoundsAssumption DEF IInv, TypeOK, NextDay, database, requests, history
<1>2. LeftIsAhead' /\ cached'.token <= issued /\ (Ahead' => Ahead)
  BY DEF IInv, LeftIsAhead, TokensInOrder, Ahead, NextDay, database, requests
<1> QED
  BY <1>1, <1>2, QuietStep DEF NextDay, database, requests, Onward

LEMMA CheckTokenStep ==
  ASSUME IInv, NEW h \in Handlers, NEW t \in Tokens, CheckToken(h, t)  PROVE IInv'
<1>1. PICK x \in {"ended", "toActivate", "toReissue"} : pc' = [pc EXCEPT ![h] = x]
  BY DEF CheckToken
<1>2. TypeOK'
  BY <1>1 DEF IInv, TypeOK, CheckToken, database, history
<1>3. LeftIsAhead' /\ cached'.token <= issued /\ (Ahead' => Ahead)
  BY <1>1 DEF IInv, TypeOK, LeftIsAhead, TokensInOrder, Ahead, CheckToken, database
<1>4. issued # 0
  BY DEF IInv, TypeOK, TokensInOrder, CheckToken, Tokens
<1>5. Onward /\ \A g \in Handlers : pc[g] \in {"mail", "flag"} => pc'[g] = pc[g]
  BY <1>1 DEF IInv, TypeOK, Onward, BeforeWrite, CheckToken
<1> QED
  BY <1>2, <1>3, <1>4, <1>5, QuietStep DEF CheckToken, database

LEMMA LookupStep ==
  ASSUME IInv, NEW h \in Handlers, Lookup(h)  PROVE IInv'
<1>1. PICK x \in {"ended", "activate", "reissue"} : pc' = [pc EXCEPT ![h] = x]
  BY DEF Lookup
<1>2. \/ UNCHANGED <<heir, cached>>
      \/ /\ x \in {"activate", "reissue"}
         /\ \/ heir' = heir /\ cached' \in Refreshed(row)
            \/ Exists(left) /\ heir = "none" /\ heir' = h /\ cached' \in Refreshed(left)
  <2>1. /\ h \in Handlers /\ pc \in [Handlers -> {"idle", "toActivate", "toReissue", "activate", "reissue",
                                                  "mail", "flag", "ended"}]
    BY DEF IInv, TypeOK
  <2>2. PICK inherits \in {FALSE, Exists(left) /\ heir = "none"} :
          LET seen == IF inherits THEN left ELSE row
          IN IF seen.status = "INACTIVE"
               THEN /\ pc' = [pc EXCEPT ![h] = IF pc[h] = "toActivate" THEN "activate" ELSE "reissue"]
                    /\ heir' = IF inherits THEN h ELSE heir
                    /\ cached' \in Refreshed(seen)
               ELSE /\ pc' = [pc EXCEPT ![h] = "ended"]
                    /\ UNCHANGED <<heir, cached>>
    BY DEF Lookup
  <2>3. CASE inherits
    BY <1>1, <2>1, <2>2, <2>3
  <2>4. CASE ~inherits
    BY <1>1, <2>1, <2>2, <2>4
  <2> QED
    BY <2>3, <2>4
<1>3. cached' \in [ver : Nat, token : 0 .. MaxToken] /\ cached'.token <= issued /\ (Ahead' => Ahead)
  BY <1>2 DEF IInv, TypeOK, Row, TokensInOrder, WellFormed, Refreshed, Returned, Copy, Ahead, Lookup
<1>4. TypeOK'
  BY <1>1, <1>2, <1>3 DEF IInv, TypeOK, Lookup, history
<1>5. LeftIsAhead'
  BY <1>1, <1>2, HandlersAssumption DEF IInv, TypeOK, LeftIsAhead, Lookup
<1>6. Onward /\ issued # 0 /\ \A g \in Handlers : pc[g] \in {"mail", "flag"} => pc'[g] = pc[g]
  BY <1>1 DEF IInv, TypeOK, Onward, BeforeWrite, CreatedOnce, Lookup
<1> QED
  BY <1>3, <1>4, <1>5, <1>6, QuietStep DEF Lookup

LEMMA HandlerGivesUpStep ==
  ASSUME IInv, NEW h \in Handlers, HandlerGivesUp(h) \/ ReissueFindsNobody(h)  PROVE IInv'
<1> USE DEF HandlerGivesUp, ReissueFindsNobody
<1>1. /\ pc' = [pc EXCEPT ![h] = "ended"] /\ pc[h] \in BeforeWrite \ {"idle"}
      /\ UNCHANGED <<row, left, cached, issued, creator, job, fresh, parcel, mailed, today, history>>
  BY DEF BeforeWrite
<1>2. heir' \in {"none", heir} /\ heir' # h
  BY HandlersAssumption DEF IInv, TypeOK, LeftIsAhead, CanLock
<1>3. TypeOK'
  BY <1>1, <1>2 DEF IInv, TypeOK, history
<1>4. LeftIsAhead' /\ cached'.token <= issued /\ (Ahead' => Ahead)
  BY <1>1, <1>2 DEF IInv, TypeOK, LeftIsAhead, TokensInOrder, Ahead
<1>5. Onward /\ issued # 0 /\ \A g \in Handlers : pc[g] \in {"mail", "flag"} => pc'[g] = pc[g]
  BY <1>1 DEF IInv, TypeOK, Onward, BeforeWrite, CreatedOnce
<1> QED
  BY <1>1, <1>3, <1>4, <1>5, QuietStep

LEMMA HandlerFindsNobodyStep ==
  ASSUME IInv, NEW h \in Handlers, HandlerFindsNobody(h)  PROVE IInv'
<1> USE DEF HandlerFindsNobody, database
<1>1. TypeOK'
  BY DEF IInv, TypeOK, history
<1>2. LeftIsAhead' /\ cached'.token <= issued /\ (Ahead' => Ahead)
  BY HandlersAssumption DEF IInv, TypeOK, LeftIsAhead, TokensInOrder, Ahead
<1>3. Onward /\ issued # 0 /\ \A g \in Handlers : pc[g] = "mail" => pc'[g] = "mail"
  BY DEF IInv, TypeOK, Onward, CreatedOnce
<1>4. \A g \in Handlers : pc[g] = "flag" => pc'[g] = "flag" \/ row.status # "INACTIVE"
  BY DEF IInv, TypeOK
<1> QED
  BY <1>1, <1>2, <1>3, <1>4, QuietStep


-----------------------------------------------------------------------------
(* The steps of the worker. *)

LEMMA FailedFacts ==
  ASSUME IInv, job.state \in {"mail", "flag"}, Failed
  PROVE  /\ job' \in [state : {"waiting", "gone"}, failed : 0 .. Attempts,
                      stalls : 0 .. MaxStalled + 1]
         /\ job'.state = "gone" => GivenUp'
         /\ job'.stalls = job.stalls /\ (GivenUp => GivenUp')
         /\ JobIsCounted' /\ Sends <= Sends' /\ Sends' \in Nat
<1>1. /\ job \in [state : {"none", "waiting", "mail", "flag", "stalled", "gone"},
                  failed : 0 .. Attempts, stalls : 0 .. MaxStalled + 1]
      /\ job.failed < Attempts /\ job.stalls <= MaxStalled /\ Sends <= Attempts + MaxStalled
  BY DEF IInv, TypeOK, JobIsCounted
<1>2. job' = [state |-> IF job.failed + 1 < Attempts THEN "waiting" ELSE "gone",
              failed |-> job.failed + 1, stalls |-> job.stalls]
  BY <1>1 DEF Failed
<1> QED
  BY <1>1, <1>2 DEF JobIsCounted, Sends, GivenUp, Attempts, MaxStalled

\* The parts of IInv that a step of the worker keeps when it sends nothing and
\* leaves the user well formed.
LEMMA WorkerStep ==
  ASSUME IInv, UNCHANGED <<issued, creator, pc, fresh, parcel, mailed, lost>>,
         job.state # "none", Sends <= Sends', Sends' \in Nat,
         WellFormed(row)', WellFormed(left)', Exists(row') <=> Exists(row),
         cached'.token <= issued,
         \/ abandoned' = abandoned /\ (Ahead' => Ahead)
         \/ abandoned' = abandoned + 1
  PROVE  TokensInOrder' /\ CreatedOnce' /\ Paid' /\ MailsAreCounted'
<1>1. TokensInOrder'
  BY OrderFrame DEF IInv, TokensInOrder, Onward
<1>2. CreatedOnce'
  BY DEF IInv, CreatedOnce
<1>3. Paid'
  BY PaidFrame
<1>4. MailsAreCounted'
  BY CountedFrame
<1> QED
  BY <1>1, <1>2, <1>3, <1>4

\* The same, when it leaves the user alone.
LEMMA WorkerAlone ==
  ASSUME IInv, UNCHANGED <<database, issued, creator, pc, fresh, parcel, mailed, lost, abandoned>>,
         job.state # "none", Sends <= Sends', Sends' \in Nat
  PROVE  LeftIsAhead' /\ TokensInOrder' /\ CreatedOnce' /\ Paid' /\ MailsAreCounted'
<1>1. WellFormed(row)' /\ WellFormed(left)' /\ cached'.token <= issued /\ (Ahead' => Ahead)
  BY DEF IInv, TokensInOrder, WellFormed, Ahead, database
<1>2. LeftIsAhead'
  BY DEF IInv, LeftIsAhead, database
<1> QED
  BY <1>1, <1>2, WorkerStep DEF database

LEMMA TakeJobStep ==
  ASSUME IInv, TakeJob  PROVE IInv'
<1> USE DEF TakeJob, requests, history
<1>1. TypeOK' /\ JobIsCounted' /\ Sends' = Sends /\ Sends \in Nat
  BY DEF IInv, TypeOK, JobIsCounted, Sends, GivenUp, database
<1>2. LeftIsAhead' /\ TokensInOrder' /\ CreatedOnce' /\ Paid' /\ MailsAreCounted'
  BY <1>1, WorkerAlone
<1>3. Accounted' /\ SentAfterMail'
  BY DEF IInv, TypeOK, Accounted, SentAfterMail, GivenUp, database
<1>4. RepeatsAccounted'
  BY DEF IInv, TypeOK, RepeatsAccounted, Repeated, Repeating, Strayed, database
<1> QED
  BY <1>1, <1>2, <1>3, <1>4 DEF IInv

LEMMA JobUnstallStep ==
  ASSUME IInv, JobUnstall  PROVE IInv'
<1> USE DEF JobUnstall, requests, history
<1>1. job' = [state |-> IF job.stalls <= MaxStalled THEN "waiting" ELSE "gone",
              failed |-> job.failed, stalls |-> job.stalls] /\ job.state = "stalled"
  BY DEF IInv, TypeOK
<1>2. TypeOK'
  BY <1>1 DEF IInv, TypeOK, database
<1>3. JobIsCounted' /\ Sends' = Sends /\ Sends \in Nat
  BY <1>1 DEF IInv, TypeOK, JobIsCounted, Sends, GivenUp, Attempts, MaxStalled
<1>4. LeftIsAhead' /\ TokensInOrder' /\ CreatedOnce' /\ Paid' /\ MailsAreCounted'
  BY <1>1, <1>3, WorkerAlone
<1>5. job'.state = "waiting" \/ (job'.state = "gone" /\ GivenUp')
  BY <1>1 DEF IInv, TypeOK, GivenUp, MaxStalled
<1>6. Accounted' /\ SentAfterMail'
  BY <1>1, <1>5 DEF IInv, Accounted, SentAfterMail, database
<1>7. RepeatsAccounted'
  BY <1>1 DEF IInv, RepeatsAccounted, Repeated, Repeating, Strayed, database
<1> QED
  BY <1>2, <1>3, <1>4, <1>6, <1>7 DEF IInv

LEMMA JobMailFailsStep ==
  ASSUME IInv, JobMailFails  PROVE IInv'
<1> USE DEF JobMailFails, requests, history
<1>1. /\ job' \in [state : {"waiting", "gone"}, failed : 0 .. Attempts, stalls : 0 .. MaxStalled + 1]
      /\ job'.state = "gone" => GivenUp'
      /\ job'.stalls = job.stalls
      /\ JobIsCounted' /\ Sends <= Sends' /\ Sends' \in Nat
  BY FailedFacts
<1>2. TypeOK'
  BY <1>1 DEF IInv, TypeOK, database
<1>3. LeftIsAhead' /\ TokensInOrder' /\ CreatedOnce' /\ Paid' /\ MailsAreCounted'
  BY <1>1, WorkerAlone
<1>4. Accounted' /\ SentAfterMail'
  BY <1>1 DEF IInv, Accounted, SentAfterMail, database
<1>5. RepeatsAccounted'
  BY <1>1 DEF IInv, RepeatsAccounted, Repeated, Repeating, Strayed, database
<1> QED
  BY <1>1, <1>2, <1>3, <1>4, <1>5 DEF IInv

LEMMA JobFindsNobodyStep ==
  ASSUME IInv, JobFindsNobody  PROVE IInv'
<1> USE DEF JobFindsNobody, requests, history
<1>1. /\ job' \in [state : {"waiting", "gone"}, failed : 0 .. Attempts, stalls : 0 .. MaxStalled + 1]
      /\ job'.state = "gone" => GivenUp'
      /\ job'.stalls = job.stalls
      /\ JobIsCounted' /\ Sends <= Sends' /\ Sends' \in Nat
  BY FailedFacts
<1>2. TypeOK'
  BY <1>1 DEF IInv, TypeOK, database
<1>3. LeftIsAhead' /\ TokensInOrder' /\ CreatedOnce' /\ Paid' /\ MailsAreCounted'
  BY <1>1, WorkerAlone
<1>4. row.status = "ACTIVE" /\ mailed[1] > 0
  BY DEF IInv, TypeOK, Row, CreatedOnce, TokensInOrder, WellFormed, SentAfterMail
<1>5. Accounted' /\ SentAfterMail'
  BY <1>1, <1>4 DEF IInv, TypeOK, Accounted, SentAfterMail, database
<1>6. RepeatsAccounted'
  BY <1>1, <1>4 DEF IInv, RepeatsAccounted, database
<1> QED
  BY <1>1, <1>2, <1>3, <1>5, <1>6 DEF IInv


\* The update of the flag, committed or rolled back, keeps the user well formed.
LEMMA FlagStep ==
  ASSUME IInv, CanFlag, issued' = issued,
         \/ Commit(Flagged) /\ abandoned' = abandoned
         \/ RolledBack(Flagged)
  PROVE  /\ row' \in Row /\ left' \in Row /\ heir' = "none"
         /\ cached' \in [ver : Nat, token : 0 .. MaxToken] /\ cached'.token <= issued
         /\ WellFormed(row)' /\ WellFormed(left)' /\ (Exists(row') <=> Exists(row))
         /\ row'.status = "INACTIVE" /\ (row' = row \/ row'.sent)
         /\ abandoned' \in Nat
         /\ \/ abandoned' = abandoned /\ (Ahead' => Ahead)
            \/ abandoned' = abandoned + 1
         /\ LeftIsAhead'
<1>1. /\ Flagged \in Row /\ Flagged.ver > row.ver /\ Exists(Flagged)
      /\ Flagged.token = row.token /\ Flagged.status = "INACTIVE" /\ Flagged.sent
      /\ WellFormed(Flagged) /\ ~Exists(left) /\ row.status = "INACTIVE" /\ heir = "none"
  BY FlaggedFacts
<1>2. /\ row \in Row /\ abandoned \in Nat /\ WellFormed(row) /\ row.token \in 1 .. issued /\ Exists(row)
      /\ issued \in Nat
  BY <1>1 DEF IInv, TypeOK, TokensInOrder, WellFormed
<1>3. NoRow \in Row /\ WellFormed(NoRow) /\ ~Exists(NoRow)
  BY BoundsAssumption DEF NoRow, Row, WellFormed, Exists
<1>4. CASE Commit(Flagged) /\ abandoned' = abandoned
  <2>1. /\ row' = Flagged /\ left' = NoRow /\ heir' = "none"
        /\ cached' \in [ver : Nat, token : 0 .. MaxToken]
        /\ cached'.token <= issued \/ cached'.token = Flagged.token
        /\ Ahead' => Ahead
        /\ LeftIsAhead'
    BY <1>1, <1>4, CommitFacts
  <2> QED
    BY <1>1, <1>2, <1>3, <1>4, <2>1 DEF WellFormed
<1>5. CASE RolledBack(Flagged)
  <2>1. /\ row' = row /\ heir' = "none" /\ left' = NoRow
        /\ cached' \in [ver : Nat, token : 0 .. MaxToken]
        /\ cached'.token <= issued \/ cached'.token = Flagged.token
        /\ abandoned' = abandoned + 1
    BY <1>1, <1>5, GivenUpFacts DEF RolledBack
  <2>2. LeftIsAhead'
    BY <1>3, <2>1 DEF LeftIsAhead
  <2> QED
    BY <1>1, <1>2, <1>3, <2>1, <2>2 DEF WellFormed
<1> QED
  BY <1>4, <1>5

LEMMA JobFlagStep ==
  ASSUME IInv, JobFlag  PROVE IInv'
<1> USE DEF JobFlag, requests, history
<1>1. /\ row' \in Row /\ left' \in Row /\ heir' = "none"
      /\ cached' \in [ver : Nat, token : 0 .. MaxToken] /\ cached'.token <= issued
      /\ WellFormed(row)' /\ WellFormed(left)' /\ (Exists(row') <=> Exists(row))
      /\ abandoned' = abandoned /\ (Ahead' => Ahead)
      /\ LeftIsAhead'
  BY FlagStep, CommitFacts, FlaggedFacts
<1>2. row'.status = "INACTIVE" /\ row'.sent
  BY CommitFacts, FlaggedFacts
<1>3. job' = [state |-> "gone", failed |-> job.failed, stalls |-> job.stalls] /\ job.state = "flag"
  BY DEF IInv, TypeOK
<1>4. TypeOK'
  BY <1>1, <1>3 DEF IInv, TypeOK
<1>5. JobIsCounted' /\ Sends' = Sends /\ Sends \in Nat /\ ~GivenUp'
  BY <1>3 DEF IInv, TypeOK, JobIsCounted, Sends, GivenUp, Attempts, MaxStalled
<1>6. TokensInOrder' /\ CreatedOnce' /\ Paid' /\ MailsAreCounted'
  BY <1>1, <1>3, <1>5, WorkerStep
<1>7. mailed[1] > 0 /\ 1 \in Tokens /\ mailed[1] \in Nat
  BY <1>3, BoundsAssumption DEF IInv, TypeOK, SentAfterMail, Tokens
<1>8. Accounted' /\ SentAfterMail'
  BY <1>2, <1>3, <1>7 DEF IInv, Accounted, SentAfterMail
<1>9. RepeatsAccounted'
  <2>1. row.status = "INACTIVE"
    BY FlaggedFacts
  <2> QED
    BY <1>3, <2>1 DEF IInv, RepeatsAccounted, Repeated, Repeating, Strayed
<1> QED
  BY <1>1, <1>4, <1>5, <1>6, <1>8, <1>9 DEF IInv

LEMMA JobFlagFailsStep ==
  ASSUME IInv, JobFlagFails  PROVE IInv'
<1> USE DEF JobFlagFails, requests
<1>1. /\ job' \in [state : {"waiting", "gone"}, failed : 0 .. Attempts, stalls : 0 .. MaxStalled + 1]
      /\ job'.state = "gone" => GivenUp'
      /\ JobIsCounted' /\ Sends <= Sends' /\ Sends' \in Nat
  BY FailedFacts
<1>2. "worker" \in flagFailed' /\ flagFailed' \in SUBSET {"worker", "request"} /\ mailed[1] > 0
  BY DEF IInv, TypeOK, SentAfterMail
<1>3. CASE UNCHANGED <<database, abandoned>>
  <2>1. TypeOK'
    BY <1>1, <1>2, <1>3 DEF IInv, TypeOK, database
  <2>2. LeftIsAhead' /\ TokensInOrder' /\ CreatedOnce' /\ Paid' /\ MailsAreCounted'
    BY <1>1, <1>3, WorkerAlone
  <2>3. Accounted' /\ SentAfterMail'
    BY <1>1, <1>2, <1>3 DEF IInv, TypeOK, Accounted, SentAfterMail, database
  <2>4. RepeatsAccounted'
    BY <1>2 DEF RepeatsAccounted
  <2> QED
    BY <1>1, <2>1, <2>2, <2>3, <2>4 DEF IInv
<1>4. CASE CanFlag /\ RolledBack(Flagged)
  <2>1. /\ row' \in Row /\ left' \in Row /\ heir' = "none"
        /\ cached' \in [ver : Nat, token : 0 .. MaxToken] /\ cached'.token <= issued
        /\ WellFormed(row)' /\ WellFormed(left)' /\ (Exists(row') <=> Exists(row))
        /\ abandoned' \in Nat
        /\ LeftIsAhead'
    BY <1>4, FlagStep
  <2>2. row' = row /\ abandoned' = abandoned + 1
    BY <1>4 DEF RolledBack
  <2>3. TypeOK'
    BY <1>1, <1>2, <2>1 DEF IInv, TypeOK
  <2>4. TokensInOrder' /\ CreatedOnce' /\ Paid' /\ MailsAreCounted'
    BY <1>1, <2>1, <2>2, WorkerStep
  <2>5. Accounted' /\ SentAfterMail'
    BY <1>1, <1>2, <2>2 DEF IInv, TypeOK, Accounted, SentAfterMail
  <2>6. RepeatsAccounted'
    BY <1>2 DEF RepeatsAccounted
  <2> QED
    BY <1>1, <2>1, <2>3, <2>4, <2>5, <2>6 DEF IInv
<1> QED
  BY <1>3, <1>4

LEMMA JobCrashStep ==
  ASSUME IInv, JobCrash  PROVE IInv'
<1> USE DEF JobCrash, requests
<1>0. PICK st \in {"mail", "flag"}, f \in 0 .. Attempts, n \in 0 .. MaxStalled + 1 :
        job = [state |-> st, failed |-> f, stalls |-> n]
  BY DEF IInv, TypeOK
<1>1. /\ job' = [state |-> "stalled", failed |-> job.failed, stalls |-> job.stalls + 1]
      /\ job.state \in {"mail", "flag"} /\ job.stalls <= MaxStalled /\ job.stalls \in Nat
  <2>1. job' = [job EXCEPT !.stalls = @ + 1, !.state = "stalled"] /\ job.state \in {"mail", "flag"}
    OBVIOUS
  <2>2. job.stalls <= MaxStalled
    BY <2>1 DEF IInv, JobIsCounted
  <2>3. job' = [state |-> "stalled", failed |-> f, stalls |-> n + 1]
    BY <1>0, <2>1
  <2>4. job.stalls = n /\ job.failed = f /\ n \in Nat
    BY <1>0
  <2> QED
    BY <2>1, <2>2, <2>3, <2>4
<1>2. JobIsCounted' /\ Sends <= Sends' /\ Sends' \in Nat /\ job'.stalls > 0
  BY <1>1 DEF IInv, TypeOK, JobIsCounted, Sends, GivenUp, Attempts, MaxStalled
<1>3. RepeatsAccounted'
  BY <1>2 DEF RepeatsAccounted
<1>4. job'.state = "stalled" /\ job' \in [state : {"stalled"}, failed : 0 .. Attempts, stalls : 0 .. MaxStalled + 1]
  BY <1>1 DEF IInv, TypeOK, MaxStalled
<1>5. CASE UNCHANGED <<database, abandoned>>
  <2>1. TypeOK'
    BY <1>4, <1>5 DEF IInv, TypeOK, database
  <2>2. LeftIsAhead' /\ TokensInOrder' /\ CreatedOnce' /\ Paid' /\ MailsAreCounted'
    BY <1>1, <1>2, <1>5, WorkerAlone
  <2>3. Accounted' /\ SentAfterMail'
    BY <1>1, <1>5 DEF IInv, Accounted, SentAfterMail, database
  <2> QED
    BY <1>2, <1>3, <2>1, <2>2, <2>3 DEF IInv
<1>6. CASE job.state = "flag" /\ CanFlag /\ (RolledBack(Flagged) \/ (Commit(Flagged) /\ UNCHANGED abandoned))
  <2>1. /\ row' \in Row /\ left' \in Row /\ heir' = "none"
        /\ cached' \in [ver : Nat, token : 0 .. MaxToken] /\ cached'.token <= issued
        /\ WellFormed(row)' /\ WellFormed(left)' /\ (Exists(row') <=> Exists(row))
        /\ row'.status = "INACTIVE" /\ (row' = row \/ row'.sent)
        /\ abandoned' \in Nat
        /\ \/ abandoned' = abandoned /\ (Ahead' => Ahead)
           \/ abandoned' = abandoned + 1
        /\ LeftIsAhead'
    BY <1>6, FlagStep
  <2>2. TypeOK'
    BY <1>4, <2>1 DEF IInv, TypeOK
  <2>3. TokensInOrder' /\ CreatedOnce' /\ Paid' /\ MailsAreCounted'
    BY <1>1, <1>2, <2>1, WorkerStep
  <2>4. mailed[1] > 0 /\ 1 \in Tokens
    BY <1>6, BoundsAssumption DEF IInv, SentAfterMail, Tokens
  <2>5. Accounted' /\ SentAfterMail'
    BY <1>1, <2>1, <2>4 DEF IInv, Accounted, SentAfterMail
  <2> QED
    BY <1>2, <1>3, <2>1, <2>2, <2>3, <2>5 DEF IInv
<1> QED
  BY <1>5, <1>6


LEMMA JobMailStep ==
  ASSUME IInv, JobMail  PROVE IInv'
<1> USE DEF JobMail, requests, history
<1>1. /\ job' = [state |-> "flag", failed |-> job.failed, stalls |-> job.stalls] /\ job.state = "mail"
      /\ job.failed \in Nat /\ job.stalls \in Nat /\ job.failed < Attempts /\ job.stalls <= MaxStalled
  BY DEF IInv, TypeOK, JobIsCounted
<1>2. /\ 1 \in Tokens /\ mailed[1] \in Nat /\ mailed' \in [Tokens -> Nat]
      /\ mailed'[1] = mailed[1] + 1
      /\ \A t \in Tokens \ {1} : mailed'[t] = mailed[t]
  BY BoundsAssumption DEF IInv, TypeOK, Tokens
<1>3. issued # 0 /\ issued \in Nat
  BY <1>1 DEF IInv, TypeOK, CreatedOnce
<1>4. TypeOK'
  BY <1>1, <1>2 DEF IInv, TypeOK, database
<1>5. LeftIsAhead' /\ CreatedOnce'
  BY <1>1, <1>3 DEF IInv, LeftIsAhead, CreatedOnce, database
<1>6. TokensInOrder'
  BY <1>2, <1>3 DEF IInv, TokensInOrder, WellFormed, database
<1>7. Paid'
  <2>1. Ahead' => Ahead
    BY DEF Ahead, database
  <2> QED
    BY <2>1, PaidFrame
<1>8. JobIsCounted' /\ Sends' = Sends + 1 /\ Sends \in Nat
  BY <1>1 DEF JobIsCounted, Sends, GivenUp, Attempts, MaxStalled
<1>9. MailsAreCounted'
  <2>1. \A t : Repeated(t)' = Repeated(t) /\ OwnMail(t)' = OwnMail(t)
    BY DEF Repeated, Repeating, Strayed, OwnMail
  <2>2. Cardinality(Repeated(1)) \in Nat /\ mailed[1] <= Sends + Cardinality(Repeated(1))
    BY SomeRequests DEF IInv, MailsAreCounted, Repeated, Repeating, Strayed
  <2>3. mailed'[1] <= Sends' + Cardinality(Repeated(1)')
    BY <1>2, <1>8, <2>1, <2>2
  <2>4. ASSUME NEW t \in Tokens \ {1}
        PROVE  mailed'[t] <= (IF OwnMail(t)' THEN 1 ELSE 0) + Cardinality(Repeated(t)')
    BY <1>2, <2>1 DEF IInv, MailsAreCounted
  <2> QED
    BY <2>3, <2>4 DEF MailsAreCounted
<1>10. Accounted'
  BY <1>1, <1>2 DEF IInv, TypeOK, Accounted
<1>11. RepeatsAccounted'
  BY <1>1, <1>2 DEF IInv, RepeatsAccounted, Repeated, Repeating, Strayed, database
<1>12. SentAfterMail'
  <2>1. \A h \in Handlers : pc[h] = "flag" => parcel[h] \in Tokens
    BY DEF IInv, TypeOK, TokensInOrder, Tokens
  <2>2. \A t \in Tokens : mailed[t] > 0 => mailed'[t] > 0
    BY <1>2
  <2> QED
    BY <1>1, <1>2, <2>1, <2>2 DEF IInv, SentAfterMail, database
<1> QED
  BY <1>4, <1>5, <1>6, <1>7, <1>8, <1>9, <1>10, <1>11, <1>12 DEF IInv

-----------------------------------------------------------------------------
(* The steps of the creator, and of strangers. *)

LEMMA CreateCommitStep ==
  ASSUME IInv, CreateCommit  PROVE IInv'
<1> USE BoundsAssumption DEF CreateCommit, requests, history
<1> DEFINE w == [status |-> "INACTIVE", ver |-> 1, token |-> 1, expires |-> Expiry, sent |-> FALSE]
<1>1. /\ issued = 0 /\ ~Exists(row) /\ ~Exists(left) /\ row.ver = 0 /\ row.status = "none"
      /\ job.state = "none" /\ \A h \in Handlers : pc[h] = "idle" /\ fresh[h] = 0 /\ parcel[h] = 0
  BY DEF IInv, TypeOK, CreatedOnce, TokensInOrder, LeftIsAhead, WellFormed, Exists, BeforeWrite
<1>2. \A t \in Tokens : mailed[t] = 0 /\ mailed[t] \in Nat
  BY <1>1 DEF IInv, TypeOK, TokensInOrder, Tokens
<1>3. w \in Row /\ w.ver > row.ver /\ Exists(w) /\ w.token = 1 /\ w.status = "INACTIVE" /\ ~w.sent
  BY <1>1 DEF IInv, TypeOK, Row, Exists, Expiry
<1>4. Commit(w)
  OBVIOUS
<1> HIDE DEF w
<1>5. /\ row' = w /\ left' = NoRow /\ heir' = "none"
      /\ cached' \in [ver : Nat, token : 0 .. MaxToken] /\ cached'.token <= 1
      /\ (Ahead' => Ahead) /\ LeftIsAhead'
  BY <1>1, <1>3, <1>4, CommitFacts
<1>6. NoRow \in Row /\ NoRow.status = "none" /\ NoRow.token = 0 /\ ~Exists(NoRow)
  BY DEF NoRow, Row, Exists
<1>7. TypeOK'
  BY <1>3, <1>5, <1>6 DEF IInv, TypeOK
<1>8. TokensInOrder'
  <2>1. WellFormed(row)' /\ WellFormed(left)' /\ (Exists(row') <=> issued' # 0)
    BY <1>3, <1>5, <1>6 DEF WellFormed
  <2>2. lost' \subseteq 1 .. issued'
    BY <1>1 DEF IInv, TokensInOrder
  <2> QED
    BY <1>1, <1>2, <1>5, <2>1, <2>2 DEF TokensInOrder, BeforeWrite
<1>9. CreatedOnce'
  BY <1>1 DEF CreatedOnce
<1>10. Paid'
  BY <1>5, PaidFrame
<1>11. JobIsCounted' /\ MailsAreCounted'
  BY JobFrame, CountedFrame
<1>12. Accounted'
  BY DEF Accounted
<1>13. RepeatsAccounted' /\ SentAfterMail'
  BY <1>1, <1>2, <1>3, <1>5 DEF RepeatsAccounted, SentAfterMail, Tokens
<1> QED
  BY <1>5, <1>7, <1>8, <1>9, <1>10, <1>11, <1>12, <1>13 DEF IInv

\* The job is published, or the token is lost with the request.
LEMMA PublishStep ==
  ASSUME IInv, Publish \/ PublishLost  PROVE IInv'
<1> USE BoundsAssumption DEF Publish, PublishLost, requests, history
<1>1. /\ creator = "committed" /\ job.state = "none" /\ issued # 0 /\ issued \in Nat
      /\ job = [state |-> "none", failed |-> 0, stalls |-> 0]
      /\ job' \in {job, [state |-> "waiting", failed |-> 0, stalls |-> 0]}
      /\ lost' \in {lost, lost \cup {1}} /\ (job'.state = "waiting" \/ 1 \in lost')
      /\ UNCHANGED <<row, left, heir, cached, issued, pc, fresh, parcel, mailed, today, abandoned, flagFailed>>
      /\ creator' = "ended"
  BY DEF IInv, TypeOK, CreatedOnce, JobIsCounted, database
<1>2. TypeOK' /\ CreatedOnce'
  BY <1>1 DEF IInv, TypeOK, CreatedOnce, Tokens, Attempts
<1>3. LeftIsAhead' /\ cached'.token <= issued /\ (Ahead' => Ahead) /\ WellFormed(row)' /\ WellFormed(left)'
  BY <1>1 DEF IInv, LeftIsAhead, TokensInOrder, WellFormed, Ahead
<1>4. TokensInOrder'
  <2>1. lost' \subseteq 1 .. issued
    BY <1>1 DEF IInv, TokensInOrder
  <2> QED
    BY <1>1, <1>3, <2>1, OrderFrame DEF Onward
<1>5. Paid'
  BY <1>1, <1>3, PaidFrame
<1>6. JobIsCounted' /\ Sends = 0 /\ Sends' = 0
  BY <1>1 DEF JobIsCounted, Sends, Attempts, MaxStalled
<1>7. MailsAreCounted'
  BY <1>1, <1>6, CountedFrame
<1>8. Accounted'
  BY <1>1 DEF IInv, Accounted
<1>9. RepeatsAccounted'
  BY <1>1 DEF IInv, RepeatsAccounted, Repeated, Repeating, Strayed
<1>10. SentAfterMail'
  BY <1>1 DEF IInv, SentAfterMail
<1> QED
  BY <1>2, <1>3, <1>4, <1>5, <1>6, <1>7, <1>8, <1>9, <1>10 DEF IInv


\* A step that makes and sends no token: it may change the user, end requests,
\* and lose their emails.
LEMMA RequestStep ==
  ASSUME IInv, TypeOK', LeftIsAhead', Onward, issued # 0,
         UNCHANGED <<issued, creator, job, fresh, parcel, mailed>>,
         WellFormed(row)', WellFormed(left)', Exists(row') <=> Exists(row),
         cached'.token <= issued,
         \/ abandoned' = abandoned /\ (Ahead' => Ahead)
         \/ abandoned' = abandoned + 1,
         lost \subseteq lost', lost' \subseteq 1 .. issued, flagFailed \subseteq flagFailed',
         row.status = "ACTIVE" => row'.status = "ACTIVE",
         row'.status = "INACTIVE" => row.status = "INACTIVE",
         row'.sent = row.sent \/ (row'.sent /\ \E t \in Tokens : mailed[t] > 0),
         \A g \in Handlers : pc[g] = "mail" => pc'[g] = "mail" \/ fresh[g] \in lost',
         \A g \in Handlers : pc[g] = "flag" =>
             pc'[g] = "flag" \/ flagFailed' # {} \/ row'.status # "INACTIVE" \/ row'.sent
  PROVE  IInv'
<1>0. \A g \in Handlers : /\ pc'[g] = "mail" => pc[g] = "mail"
                          /\ pc'[g] = "flag" => pc[g] = "flag"
  BY DEF Onward, BeforeWrite
<1>1. TokensInOrder' /\ CreatedOnce' /\ Paid'
  BY OrderFrame, CreatedFrame, PaidFrame
<1>2. JobIsCounted' /\ MailsAreCounted' /\ RepeatsAccounted'
  BY <1>0, JobFrame, CountedFrame, RepeatsFrame
<1>3. Accounted'
  BY AccountedFrame
<1>4. SentAfterMail'
  BY <1>0 DEF IInv, SentAfterMail, GivenUp
<1> QED
  BY <1>1, <1>2, <1>3, <1>4 DEF IInv

LEMMA ElsewhereStep ==
  ASSUME IInv, Elsewhere  PROVE IInv'
<1> USE BoundsAssumption DEF Elsewhere, requests, history
<1>1. /\ Exists(left) /\ left \in Row /\ row \in Row /\ Exists(row) /\ heir' = "none"
      /\ row.ver \in Nat /\ left.ver > row.ver /\ WellFormed(row) /\ WellFormed(left)
      /\ left' = NoRow /\ row' \in {row, left} /\ left.sent = row.sent
      /\ left.status = "INACTIVE" => row.status = "INACTIVE"
      /\ cached.token <= issued /\ cached.ver \in Nat /\ issued # 0
  BY DEF IInv, TypeOK, LeftIsAhead, TokensInOrder, Row
<1>2. NoRow \in Row /\ NoRow.status = "none" /\ NoRow.token = 0 /\ ~Exists(NoRow)
  BY DEF NoRow, Row, Exists
<1>3. TypeOK'
  BY <1>1, <1>2 DEF IInv, TypeOK
<1>4. LeftIsAhead' /\ Onward /\ (Ahead' => Ahead)
  BY <1>1, <1>2 DEF LeftIsAhead, Onward, Ahead
<1>5. /\ WellFormed(row)' /\ WellFormed(left)' /\ Exists(row')
      /\ row'.sent = row.sent
      /\ row'.status = "INACTIVE" => row.status = "INACTIVE"
  BY <1>1, <1>2 DEF WellFormed
<1>6. row.status = "ACTIVE" => row'.status = "ACTIVE"
  BY <1>1 DEF Row, WellFormed
<1>7. lost' \subseteq 1 .. issued
  BY DEF IInv, TokensInOrder
<1> QED
  BY <1>1, <1>3, <1>4, <1>5, <1>6, <1>7, RequestStep

LEMMA ActivateStep ==
  ASSUME IInv, NEW h \in Handlers, Activate(h)  PROVE IInv'
<1> USE BoundsAssumption DEF Activate, history
<1> DEFINE w == Activated(View(h))
<1>1. /\ View(h) \in Row /\ Exists(row) /\ issued # 0
      /\ View(h).ver >= row.ver /\ View(h).sent = row.sent /\ row.ver \in Nat /\ View(h).ver \in Nat
  BY ViewFacts DEF IInv, TypeOK, Row
<1>2. /\ w \in Row /\ w.ver > row.ver /\ Exists(w) /\ w.token = 0 /\ w.status = "ACTIVE"
      /\ w.sent = row.sent /\ w.ver \in Nat
  BY <1>1, ActivatedFacts DEF Row
<1>3. Commit(w)
  OBVIOUS
<1> HIDE DEF w
<1>4. /\ row' = w /\ left' = NoRow /\ heir' = "none"
      /\ cached' \in [ver : Nat, token : 0 .. MaxToken] /\ cached'.token <= issued
      /\ (Ahead' => Ahead) /\ LeftIsAhead'
  BY <1>2, <1>3, CommitFacts DEF IInv, TypeOK
<1>5. NoRow \in Row /\ NoRow.status = "none" /\ NoRow.token = 0 /\ ~Exists(NoRow)
  BY DEF NoRow, Row, Exists
<1>6. TypeOK'
  BY <1>2, <1>4, <1>5 DEF IInv, TypeOK
<1>7. WellFormed(row)' /\ WellFormed(left)' /\ Exists(row')
  BY <1>2, <1>4, <1>5 DEF WellFormed
<1>8. lost' \subseteq 1 .. issued
  BY DEF IInv, TokensInOrder
<1>9. Onward /\ \A g \in Handlers : pc[g] \in {"mail", "flag"} => pc'[g] = pc[g]
  BY DEF IInv, TypeOK, Onward
<1> QED
  BY <1>1, <1>2, <1>4, <1>6, <1>7, <1>8, <1>9, RequestStep


\* What was written and left open is ahead of the row.
LEMMA LeftOpenFacts ==
  ASSUME IInv, NEW w \in Row, w.ver > row.ver, Exists(row),
         Exists(w), w.status # "none", w.status # "INACTIVE" => w.token = 0,
         w.status = "INACTIVE" => w.token \in 1 .. issued',
         w.sent = row.sent, w.status = "INACTIVE" => row.status = "INACTIVE",
         UNCHANGED <<row, issued>> \/ (row' = row /\ issued' = issued + 1),
         heir' = "none", left' \in {NoRow, w}
  PROVE  LeftIsAhead' /\ left' \in Row /\ WellFormed(left)' /\ WellFormed(row)'
<1>1. NoRow \in Row /\ NoRow.status = "none" /\ NoRow.token = 0 /\ ~Exists(NoRow)
  BY BoundsAssumption DEF NoRow, Row, Exists
<1>2. WellFormed(row)'
  BY DEF IInv, TypeOK, TokensInOrder, WellFormed
<1>3. CASE left' = NoRow
  BY <1>1, <1>2, <1>3 DEF LeftIsAhead, WellFormed
<1>4. CASE left' = w
  BY <1>2, <1>4 DEF LeftIsAhead, WellFormed
<1> QED
  BY <1>3, <1>4

LEMMA ActivateAbandonedStep ==
  ASSUME IInv, NEW h \in Handlers, ActivateAbandoned(h)  PROVE IInv'
<1> USE DEF ActivateAbandoned
<1> DEFINE w == Activated(View(h))
<1>1. /\ View(h) \in Row /\ Exists(row) /\ issued # 0
      /\ View(h).ver >= row.ver /\ View(h).sent = row.sent /\ row.ver \in Nat /\ View(h).ver \in Nat
  BY ViewFacts DEF IInv, TypeOK, Row
<1>2. /\ w \in Row /\ w.ver > row.ver /\ Exists(w) /\ w.token = 0 /\ w.status = "ACTIVE"
      /\ w.sent = row.sent /\ w.ver \in Nat
  BY <1>1, ActivatedFacts DEF Row
<1>3. RolledBack(w) \/ LeftOpen(w)
  OBVIOUS
<1> HIDE DEF w
<1>4. /\ row' = row /\ heir' = "none" /\ left' \in {NoRow, w}
      /\ cached' \in [ver : Nat, token : 0 .. MaxToken] /\ cached'.token <= issued
      /\ abandoned' = abandoned + 1 /\ abandoned' \in Nat
  BY <1>2, <1>3, GivenUpFacts DEF IInv, TypeOK
<1>6. LeftIsAhead' /\ left' \in Row /\ WellFormed(left)' /\ WellFormed(row)'
  BY <1>1, <1>2, <1>4, LeftOpenFacts
<1>7. TypeOK'
  BY <1>4, <1>6 DEF IInv, TypeOK
<1>8. lost' \subseteq 1 .. issued
  BY DEF IInv, TokensInOrder
<1>9. Onward /\ \A g \in Handlers : pc[g] \in {"mail", "flag"} => pc'[g] = pc[g]
  BY DEF IInv, TypeOK, Onward
<1> QED
  BY <1>1, <1>4, <1>6, <1>7, <1>8, <1>9, RequestStep

LEMMA HandlerMailFailsStep ==
  ASSUME IInv, NEW h \in Handlers, HandlerMailFails(h)  PROVE IInv'
<1> USE DEF HandlerMailFails, database
<1>1. fresh[h] \in 1 .. issued /\ fresh[h] \in Tokens /\ issued # 0
  BY DEF IInv, TypeOK, TokensInOrder, Tokens
<1>2. TypeOK'
  BY <1>1 DEF IInv, TypeOK
<1>3. LeftIsAhead' /\ (Ahead' => Ahead)
  BY HandlersAssumption DEF IInv, TypeOK, LeftIsAhead, Ahead
<1>4. WellFormed(row)' /\ WellFormed(left)' /\ cached'.token <= issued /\ lost' \subseteq 1 .. issued
  BY <1>1 DEF IInv, TokensInOrder, WellFormed
<1>5. /\ Onward
      /\ \A g \in Handlers : pc[g] = "mail" => pc'[g] = "mail" \/ fresh[g] \in lost'
      /\ \A g \in Handlers : pc[g] = "flag" => pc'[g] = "flag"
  BY DEF IInv, TypeOK, Onward
<1> QED
  BY <1>1, <1>2, <1>3, <1>4, <1>5, RequestStep

\* Whoever is at the flag has sent an email.
LEMMA AtFlag ==
  ASSUME IInv, NEW h \in Handlers, pc[h] = "flag"
  PROVE  issued # 0 /\ parcel[h] \in Tokens /\ \E t \in Tokens : mailed[t] > 0
  BY DEF IInv, TypeOK, TokensInOrder, SentAfterMail, CreatedOnce, Tokens

LEMMA HandlerFlagStep ==
  ASSUME IInv, NEW h \in Handlers, HandlerFlag(h)  PROVE IInv'
<1> USE DEF HandlerFlag, history
<1>1. /\ row' \in Row /\ left' \in Row /\ heir' = "none"
      /\ cached' \in [ver : Nat, token : 0 .. MaxToken] /\ cached'.token <= issued
      /\ WellFormed(row)' /\ WellFormed(left)' /\ (Exists(row') <=> Exists(row))
      /\ abandoned' = abandoned /\ (Ahead' => Ahead)
      /\ LeftIsAhead'
  BY FlagStep, CommitFacts, FlaggedFacts
<1>2. row'.status = "INACTIVE" /\ row'.sent /\ row.status = "INACTIVE"
  BY CommitFacts, FlaggedFacts
<1>3. TypeOK'
  BY <1>1 DEF IInv, TypeOK
<1>4. lost' \subseteq 1 .. issued
  BY DEF IInv, TokensInOrder
<1>5. Onward /\ \A g \in Handlers : pc[g] = "mail" => pc'[g] = pc[g]
  BY DEF IInv, TypeOK, Onward
<1> QED
  BY <1>1, <1>2, <1>3, <1>4, <1>5, AtFlag, RequestStep

LEMMA HandlerFlagFailsStep ==
  ASSUME IInv, NEW h \in Handlers, HandlerFlagFails(h)  PROVE IInv'
<1> USE DEF HandlerFlagFails
<1>1. flagFailed' \in SUBSET {"worker", "request"} /\ flagFailed' # {} /\ lost' \subseteq 1 .. issued
  BY DEF IInv, TypeOK, TokensInOrder
<1>2. Onward /\ \A g \in Handlers : pc[g] = "mail" => pc'[g] = pc[g]
  BY DEF IInv, TypeOK, Onward
<1>3. CASE UNCHANGED <<database, abandoned>>
  <2> USE <1>3 DEF database
  <2>1. TypeOK'
    BY <1>1 DEF IInv, TypeOK
  <2>2. LeftIsAhead' /\ (Ahead' => Ahead)
    BY HandlersAssumption DEF IInv, TypeOK, LeftIsAhead, Ahead
  <2>3. WellFormed(row)' /\ WellFormed(left)' /\ cached'.token <= issued
    BY DEF IInv, TokensInOrder, WellFormed
  <2> QED
    BY <1>1, <1>2, <2>1, <2>2, <2>3, AtFlag, RequestStep
<1>4. CASE CanFlag /\ RolledBack(Flagged)
  <2>1. /\ row' \in Row /\ left' \in Row /\ heir' = "none"
        /\ cached' \in [ver : Nat, token : 0 .. MaxToken] /\ cached'.token <= issued
        /\ WellFormed(row)' /\ WellFormed(left)' /\ (Exists(row') <=> Exists(row))
        /\ abandoned' \in Nat
        /\ LeftIsAhead'
    BY <1>4, FlagStep
  <2>2. row' = row /\ abandoned' = abandoned + 1
    BY <1>4 DEF RolledBack
  <2>3. TypeOK'
    BY <1>1, <2>1 DEF IInv, TypeOK
  <2> QED
    BY <1>1, <1>2, <2>1, <2>2, <2>3, AtFlag, RequestStep
<1> QED
  BY <1>3, <1>4


-----------------------------------------------------------------------------
(* The steps that make a token, and the one that mails it. *)

LEMMA ReissueAbandonedStep ==
  ASSUME IInv, NEW h \in Handlers, ReissueAbandoned(h)  PROVE IInv'
<1> USE DEF ReissueAbandoned
<1> DEFINE w == Reissued(View(h))
<1>1. /\ View(h) \in Row /\ View(h).status = "INACTIVE" /\ Exists(row) /\ issued # 0 /\ row.status = "INACTIVE"
      /\ View(h).ver >= row.ver /\ View(h).sent = row.sent /\ row.ver \in Nat /\ View(h).ver \in Nat
      /\ issued \in Nat /\ lost \subseteq 1 .. issued
  BY ViewFacts DEF IInv, TypeOK, Row, TokensInOrder
<1>2. /\ w \in Row /\ w.ver > row.ver /\ Exists(w) /\ w.token = issued + 1 /\ w.status = "INACTIVE"
      /\ w.sent = row.sent /\ w.ver \in Nat /\ issued + 1 \in 1 .. MaxToken
  BY <1>1, ReissuedFacts DEF Row
<1>3. RolledBack(w) \/ LeftOpen(w)
  OBVIOUS
<1> HIDE DEF w
<1>4. /\ row' = row /\ heir' = "none" /\ left' \in {NoRow, w}
      /\ cached' \in [ver : Nat, token : 0 .. MaxToken] /\ cached'.token <= issued'
      /\ abandoned' = abandoned + 1 /\ abandoned' \in Nat
  BY <1>1, <1>2, <1>3, GivenUpFacts DEF IInv, TypeOK
<1>6. LeftIsAhead' /\ left' \in Row /\ WellFormed(left)' /\ WellFormed(row)'
  BY <1>1, <1>2, <1>4, LeftOpenFacts
<1>7. TypeOK'
  BY <1>2, <1>4, <1>6 DEF IInv, TypeOK, Tokens
<1>8. \A g \in Handlers : /\ pc'[g] = pc[g] \/ (g = h /\ pc'[g] = "ended")
                          /\ pc[g] \in {"mail", "flag"} => pc'[g] = pc[g]
  BY DEF IInv, TypeOK
<1>9. TokensInOrder'
  <2>1. lost' \subseteq 1 .. issued'
    BY <1>1
  <2>2. \A t \in Tokens : mailed'[t] > 0 => t <= issued'
    BY <1>1 DEF IInv, TokensInOrder, Tokens
  <2>3. \A g \in Handlers :
           /\ fresh'[g] <= issued' /\ fresh'[g] # 1 /\ parcel'[g] <= issued'
           /\ pc'[g] \in BeforeWrite => fresh'[g] = 0
           /\ pc'[g] \in {"mail", "flag"} => fresh'[g] # 0
           /\ pc'[g] = "flag" => parcel'[g] # 0
    BY <1>1, <1>8 DEF IInv, TypeOK, TokensInOrder, BeforeWrite
  <2>4. \A f, g \in Handlers : fresh'[f] = fresh'[g] /\ fresh'[f] # 0 => f = g
    BY DEF IInv, TokensInOrder
  <2>5. Exists(row') <=> issued' # 0
    BY <1>1, <1>4
  <2> QED
    BY <1>4, <1>6, <2>1, <2>2, <2>3, <2>4, <2>5 DEF TokensInOrder
<1>10. CreatedOnce'
  BY <1>1 DEF IInv, CreatedOnce
<1>11. Paid'
  BY <1>4, PaidFrame
<1>12. JobIsCounted' /\ MailsAreCounted'
  BY <1>8, JobFrame, CountedFrame
<1>13. RepeatsAccounted'
  BY <1>4, <1>8, RepeatsFrame
<1>14. SentAfterMail'
  BY <1>4, <1>8, SentFrame
<1>15. Accounted'
  <2>1. \A g \in Handlers : pc[g] = "mail" => pc'[g] = "mail"
    BY <1>8
  <2>2. \A t \in 1 .. issued' : t \in 1 .. issued \/ t \in lost'
    BY <1>1
  <2> QED
    BY <2>1, <2>2 DEF IInv, Accounted, GivenUp
<1> QED
  BY <1>6, <1>7, <1>9, <1>10, <1>11, <1>12, <1>13, <1>14, <1>15 DEF IInv

LEMMA ReissueStep ==
  ASSUME IInv, NEW h \in Handlers, Reissue(h)  PROVE IInv'
<1> USE DEF Reissue, history
<1> DEFINE w == Reissued(View(h))
<1>1. /\ View(h) \in Row /\ View(h).status = "INACTIVE" /\ Exists(row) /\ issued # 0 /\ row.status = "INACTIVE"
      /\ View(h).ver >= row.ver /\ View(h).sent = row.sent /\ row.ver \in Nat /\ View(h).ver \in Nat
      /\ issued \in Nat /\ lost \subseteq 1 .. issued /\ fresh[h] = 0 /\ h \notin Strayed
      /\ cached \in [ver : Nat, token : 0 .. MaxToken] /\ cached.token <= issued
  BY ViewFacts DEF IInv, TypeOK, Row, TokensInOrder, BeforeWrite, Strayed
<1>2. /\ w \in Row /\ w.ver > row.ver /\ Exists(w) /\ w.token = issued + 1 /\ w.status = "INACTIVE"
      /\ w.sent = row.sent /\ w.ver \in Nat /\ issued + 1 \in 1 .. MaxToken
  BY <1>1, ReissuedFacts DEF Row
<1>3. Commit(w) /\ parcel' = [parcel EXCEPT ![h] = Returned(w).token]
  OBVIOUS
<1> HIDE DEF w
<1>4. /\ row' = w /\ left' = NoRow /\ heir' = "none"
      /\ cached' \in [ver : Nat, token : 0 .. MaxToken] /\ cached'.token <= issued'
      /\ (Ahead' => Ahead) /\ LeftIsAhead'
  BY <1>1, <1>2, <1>3, CommitFacts
<1>5. NoRow \in Row /\ NoRow.status = "none" /\ NoRow.token = 0 /\ ~Exists(NoRow)
  BY BoundsAssumption DEF NoRow, Row, Exists
<1>6. /\ \A g \in Handlers \ {h} : fresh'[g] = fresh[g] /\ parcel'[g] = parcel[g] /\ pc'[g] = pc[g]
      /\ fresh'[h] = issued + 1 /\ pc'[h] = "mail" /\ pc[h] = "reissue"
      /\ parcel'[h] = Returned(w).token
  BY <1>3 DEF IInv, TypeOK
<1>7. /\ Returned(w).token \in 0 .. MaxToken /\ Returned(w).token <= issued'
      /\ Returned(w).token # issued + 1 => cached.ver = w.ver
  BY <1>1, <1>2 DEF Returned, Copy
<1>8. TypeOK'
  <2>1. fresh' \in [Handlers -> 0 .. MaxToken] /\ parcel' \in [Handlers -> 0 .. MaxToken]
    BY <1>2, <1>3, <1>7 DEF IInv, TypeOK
  <2> QED
    BY <1>2, <1>4, <1>5, <2>1 DEF IInv, TypeOK
<1>9. TokensInOrder'
  <2>1. lost' \subseteq 1 .. issued'
    BY <1>1
  <2>2. \A t \in Tokens : mailed'[t] > 0 => t <= issued'
    BY <1>1 DEF IInv, TokensInOrder, Tokens
  <2>3. \A g \in Handlers :
           /\ fresh'[g] <= issued' /\ fresh'[g] # 1 /\ parcel'[g] <= issued'
           /\ pc'[g] \in BeforeWrite => fresh'[g] = 0
           /\ pc'[g] \in {"mail", "flag"} => fresh'[g] # 0
           /\ pc'[g] = "flag" => parcel'[g] # 0
    BY <1>1, <1>6, <1>7 DEF IInv, TypeOK, TokensInOrder, BeforeWrite
  <2>4. \A f, g \in Handlers : fresh'[f] = fresh'[g] /\ fresh'[f] # 0 => f = g
    BY <1>1, <1>6 DEF IInv, TypeOK, TokensInOrder
  <2>5. (Exists(row') <=> issued' # 0) /\ WellFormed(row)' /\ WellFormed(left)'
    BY <1>1, <1>2, <1>4, <1>5 DEF WellFormed
  <2> QED
    BY <1>4, <2>1, <2>2, <2>3, <2>4, <2>5 DEF TokensInOrder
<1>10. CreatedOnce'
  BY <1>1 DEF IInv, CreatedOnce
<1>11. Paid'
  <2>1. abandoned \in Nat /\ Strayed \in SUBSET Handlers /\ Cardinality(Strayed) \in Nat
        /\ Cardinality(Strayed) + (IF Ahead THEN 1 ELSE 0) <= abandoned
    BY SomeRequests DEF IInv, TypeOK, Paid, Strayed
  <2>2. CASE Returned(w).token = issued + 1
    <3>1. Strayed' = Strayed
      BY <1>1, <1>6, <2>2 DEF Strayed
    <3> QED
      BY <1>4, <2>1, <3>1 DEF Paid
  <2>3. CASE Returned(w).token # issued + 1
    <3>1. Strayed' = Strayed \cup {h}
      BY <1>1, <1>6, <2>3 DEF Strayed
    <3>2. Cardinality(Strayed') = Cardinality(Strayed) + 1
      BY <1>1, <2>1, <3>1, OneMoreRequest
    <3>3. Ahead
      BY <1>1, <1>2, <1>7, <2>3 DEF Ahead
    <3>4. cached' = cached
      BY <1>2, <1>3, <1>7, <2>3 DEF Commit, Refreshed, Returned
    <3>5. ~Ahead'
      BY <1>2, <1>4, <1>5, <1>7, <2>3, <3>4 DEF Ahead
    <3> QED
      BY <2>1, <3>2, <3>3, <3>5 DEF Paid
  <2> QED
    BY <2>2, <2>3
<1>12. \A t \in Tokens : Repeated(t)' = Repeated(t) /\ (OwnMail(t) => OwnMail(t)')
  BY <1>1, <1>6 DEF Repeated, Repeating, Strayed, OwnMail, Tokens
<1>13. JobIsCounted' /\ Sends' = Sends /\ 1 \in Tokens
  BY JobFrame, BoundsAssumption DEF Tokens
<1>14. MailsAreCounted'
  <2>1. mailed'[1] <= Sends' + Cardinality(Repeated(1)')
    BY <1>12, <1>13 DEF IInv, MailsAreCounted
  <2>2. ASSUME NEW t \in Tokens \ {1}
        PROVE  mailed'[t] <= (IF OwnMail(t)' THEN 1 ELSE 0) + Cardinality(Repeated(t)')
    <3>1. mailed[t] <= (IF OwnMail(t) THEN 1 ELSE 0) + Cardinality(Repeated(t)) /\ mailed[t] \in Nat
      BY DEF IInv, TypeOK, MailsAreCounted
    <3>2. Cardinality(Repeated(t)) \in Nat
      BY SomeRequests DEF Repeated, Repeating, Strayed
    <3> QED
      BY <1>12, <3>1, <3>2
  <2> QED
    BY <2>1, <2>2 DEF MailsAreCounted
<1>15. Accounted'
  <2>1. ASSUME NEW t \in 1 .. issued', mailed'[t] = 0
        PROVE  \/ t \in lost'
               \/ \E g \in Handlers : fresh'[g] = t /\ (pc'[g] = "mail" \/ parcel'[g] # t)
               \/ t = 1 /\ \/ creator' = "committed"
                           \/ job'.state \in {"waiting", "mail", "stalled"}
                           \/ job'.state = "gone" /\ GivenUp'
    <3>1. CASE t = issued + 1
      BY <1>6, <3>1
    <3>2. CASE t # issued + 1
      <4>1. t \in 1 .. issued
        BY <1>1, <3>2
      <4>2. \A g \in Handlers : fresh[g] = t => fresh'[g] = t /\ pc'[g] = pc[g] /\ parcel'[g] = parcel[g]
        BY <1>1, <1>6, <4>1
      <4> QED
        BY <2>1, <4>1, <4>2 DEF IInv, Accounted, GivenUp
    <3> QED
      BY <3>1, <3>2
  <2> QED
    BY <2>1 DEF Accounted
<1>16. RepeatsAccounted'
  BY <1>1, <1>12, <1>13 DEF IInv, RepeatsAccounted
<1>17. SentAfterMail'
  BY <1>1, <1>2, <1>4, <1>6 DEF IInv, SentAfterMail, GivenUp
<1> QED
  BY <1>4, <1>8, <1>9, <1>10, <1>11, <1>13, <1>14, <1>15, <1>16, <1>17 DEF IInv


LEMMA HandlerMailStep ==
  ASSUME IInv, NEW h \in Handlers, HandlerMail(h)  PROVE IInv'
<1>1. CASE parcel[h] = 0
  BY <1>1, HandlerMailFailsStep DEF HandlerMail, HandlerMailFails
<1>2. CASE parcel[h] # 0
  <2>0. PICK p : p = parcel[h]
    OBVIOUS
  <2> USE <2>0
  <2>1. /\ pc[h] = "mail" /\ pc' = [pc EXCEPT ![h] = "flag"]
        /\ mailed' = [mailed EXCEPT ![p] = @ + 1]
        /\ UNCHANGED <<row, left, heir, cached, issued, creator, job, fresh, parcel, today, history>>
    BY <1>2 DEF HandlerMail, database, history
  <2> USE DEF history
  <2>2. /\ p \in Tokens /\ p <= issued /\ fresh[h] # 0 /\ fresh[h] # 1 /\ issued # 0
        /\ mailed \in [Tokens -> Nat] /\ 1 \in Tokens
    BY <1>2, <2>1, BoundsAssumption DEF IInv, TypeOK, TokensInOrder, Tokens
  <2>3. /\ mailed' \in [Tokens -> Nat] /\ mailed'[p] = mailed[p] + 1
        /\ \A t \in Tokens \ {p} : mailed'[t] = mailed[t]
        /\ \A t \in Tokens : mailed[t] \in Nat /\ mailed[t] <= mailed'[t]
    BY <2>1, <2>2
  <2>4. /\ \A g \in Handlers \ {h} : pc'[g] = pc[g]
        /\ pc'[h] = "flag"
        /\ \A g \in Handlers : pc'[g] = "mail" => pc[g] = "mail"
    BY <2>1 DEF IInv, TypeOK
  <2>5. TypeOK'
    BY <2>1, <2>3 DEF IInv, TypeOK
  <2>6. LeftIsAhead' /\ (Ahead' => Ahead) /\ WellFormed(row)' /\ WellFormed(left)'
    BY <2>1, <2>4, HandlersAssumption DEF IInv, TypeOK, LeftIsAhead, Ahead, TokensInOrder, WellFormed
  <2>7. TokensInOrder'
    <3>1. \A t \in Tokens : mailed'[t] > 0 => t <= issued'
      BY <2>1, <2>2, <2>3 DEF IInv, TokensInOrder
    <3>2. \A g \in Handlers :
             /\ pc'[g] \in BeforeWrite => fresh'[g] = 0
             /\ pc'[g] \in {"mail", "flag"} => fresh'[g] # 0
             /\ pc'[g] = "flag" => parcel'[g] # 0
      BY <1>2, <2>1, <2>2, <2>4 DEF IInv, TokensInOrder, BeforeWrite
    <3> QED
      BY <2>1, <2>6, <3>1, <3>2 DEF IInv, TokensInOrder
  <2>8. CreatedOnce' /\ Paid'
    BY <2>1, <2>2, <2>6, CreatedFrame, PaidFrame
  <2>9. JobIsCounted' /\ Sends' = Sends /\ Sends \in Nat
    BY <2>1, JobFrame
  <2>10. \A t : /\ Cardinality(Repeated(t)) \in Nat /\ Cardinality(Repeated(t)') \in Nat
                /\ Cardinality(Repeated(t)) <= Cardinality(Repeated(t)')
                /\ Repeated(t) \subseteq Repeated(t)'
                /\ OwnMail(t) => OwnMail(t)'
    BY <2>1, <2>4, MoreRepeated
  <2>11. /\ p = fresh[h] => ~OwnMail(p) /\ OwnMail(p)'
         /\ p # fresh[h] => /\ h \in Repeated(p)'
                            /\ Cardinality(Repeated(p)') = Cardinality(Repeated(p)) + 1
    <3>1. CASE p = fresh[h]
      <4>1. ~OwnMail(p)
        BY <2>1, <2>2, <3>1 DEF IInv, TokensInOrder, OwnMail
      <4>2. OwnMail(p)'
        BY <2>1, <2>4, <3>1 DEF OwnMail
      <4> QED
        BY <3>1, <4>1, <4>2
    <3>2. CASE p # fresh[h]
      <4>1. h \notin Repeated(p) /\ Repeated(p) \in SUBSET Handlers
        BY <2>1 DEF Repeated, Repeating, Strayed
      <4>2. Repeated(p)' = Repeated(p) \cup {h}
        BY <2>1, <2>2, <2>4, <3>2 DEF Repeated, Repeating, Strayed
      <4> QED
        BY <3>2, <4>1, <4>2, OneMoreRequest
    <3> QED
      BY <3>1, <3>2
  <2>12. MailsAreCounted'
    <3>1. mailed'[1] <= Sends' + Cardinality(Repeated(1)')
      <4>1. mailed[1] <= Sends + Cardinality(Repeated(1))
        BY DEF IInv, MailsAreCounted
      <4>2. CASE p = 1
        BY <2>2, <2>3, <2>9, <2>10, <2>11, <4>1, <4>2
      <4>3. CASE p # 1
        BY <2>2, <2>3, <2>9, <2>10, <4>1, <4>3
      <4> QED
        BY <4>2, <4>3
    <3>2. ASSUME NEW t \in Tokens \ {1}
          PROVE  mailed'[t] <= (IF OwnMail(t)' THEN 1 ELSE 0) + Cardinality(Repeated(t)')
      <4>1. mailed[t] <= (IF OwnMail(t) THEN 1 ELSE 0) + Cardinality(Repeated(t))
        BY DEF IInv, MailsAreCounted
      <4>2. CASE p = t
        BY <2>3, <2>10, <2>11, <4>1, <4>2
      <4>3. CASE p # t
        BY <2>3, <2>10, <4>1, <4>3
      <4> QED
        BY <4>2, <4>3
    <3> QED
      BY <3>1, <3>2 DEF MailsAreCounted
  <2>13. Accounted'
    <3>1. ASSUME NEW t \in 1 .. issued, mailed'[t] = 0
          PROVE  /\ mailed[t] = 0
                 /\ \A g \in Handlers : fresh[g] = t /\ (pc[g] = "mail" \/ parcel[g] # t)
                        => pc'[g] = "mail" \/ parcel'[g] # t
      <4>1. t \in Tokens
        BY BoundsAssumption DEF IInv, TypeOK, Tokens
      <4>2. t # p /\ mailed[t] = 0
        BY <2>2, <2>3, <3>1, <4>1
      <4> QED
        BY <2>1, <2>4, <4>2
    <3> QED
      BY <2>1, <3>1 DEF IInv, Accounted, GivenUp
  <2>14. RepeatsAccounted'
    <3>1. CASE p = 1
      BY <2>2, <2>11, <3>1 DEF RepeatsAccounted
    <3>2. CASE p # 1
      BY <2>1, <2>2, <2>3, <2>10, <3>2 DEF IInv, RepeatsAccounted
    <3> QED
      BY <3>1, <3>2
  <2>15. SentAfterMail'
    <3>1. \A t \in Tokens : mailed[t] > 0 => mailed'[t] > 0
      BY <2>3
    <3>2. \A g \in Handlers : pc'[g] = "flag" => parcel'[g] \in Tokens /\ mailed'[parcel'[g]] > 0
      BY <2>1, <2>2, <2>3, <2>4 DEF IInv, TypeOK, TokensInOrder, SentAfterMail, Tokens
    <3> QED
      BY <2>1, <2>2, <2>4, <3>1, <3>2 DEF IInv, SentAfterMail
  <2> QED
    BY <2>5, <2>6, <2>7, <2>8, <2>9, <2>12, <2>13, <2>14, <2>15 DEF IInv
<1> QED
  BY <1>1, <1>2

-----------------------------------------------------------------------------
(* The theorems. *)

LEMMA InitInv == Init => IInv
<1> SUFFICES ASSUME Init PROVE IInv
  OBVIOUS
<1> USE BoundsAssumption, HandlersAssumption DEF Init, NoRow, Copy, Exists
<1>1. TypeOK
  BY DEF TypeOK, Row, Tokens, Attempts, MaxStalled
<1>2. LeftIsAhead /\ TokensInOrder /\ CreatedOnce
  BY DEF LeftIsAhead, TokensInOrder, WellFormed, CreatedOnce, BeforeWrite, Tokens
<1>3. Strayed = {} /\ Repeated(1) = {} /\ \A t \in Tokens : Repeated(t) = {}
  BY DEF Strayed, Repeated, Repeating
<1>4. Paid
  BY <1>3, FS_EmptySet DEF Paid, Ahead
<1>5. JobIsCounted /\ MailsAreCounted
  <2>0. job.state = "none" /\ job.failed = 0 /\ job.stalls = 0
    OBVIOUS
  <2>1. Sends = 0 /\ JobIsCounted
    BY <2>0 DEF JobIsCounted, Sends, Attempts, MaxStalled
  <2>2. Cardinality({}) = 0 /\ 1 \in Tokens /\ \A t \in Tokens : mailed[t] = 0
    BY FS_EmptySet DEF Tokens
  <2>3. \A t \in Tokens : Cardinality(Repeated(t)) = 0
    BY <1>3, FS_EmptySet
  <2> HIDE DEF Init
  <2>4. mailed[1] <= Sends + Cardinality(Repeated(1))
    BY <2>1, <2>2, <2>3
  <2>5. \A t \in Tokens \ {1} : mailed[t] <= (IF OwnMail(t) THEN 1 ELSE 0) + Cardinality(Repeated(t))
    BY <2>2, <2>3
  <2> QED
    BY <2>1, <2>4, <2>5 DEF MailsAreCounted
<1>6. Accounted /\ RepeatsAccounted /\ SentAfterMail
  BY DEF Accounted, RepeatsAccounted, SentAfterMail, Tokens
<1> QED
  BY <1>1, <1>2, <1>4, <1>5, <1>6 DEF IInv

LEMMA NextInv == IInv /\ [Next]_vars => IInv'
<1> SUFFICES ASSUME IInv, [Next]_vars PROVE IInv'
  OBVIOUS
<1>1. CASE CreateCommit \/ Publish \/ PublishLost
  BY <1>1, CreateCommitStep, PublishStep
<1>2. CASE Worker
  BY <1>2, TakeJobStep, JobMailStep, JobFlagStep, JobFindsNobodyStep, JobUnstallStep DEF Worker
<1>3. CASE WorkerFault
  BY <1>3, JobMailFailsStep, JobFlagFailsStep, JobCrashStep DEF WorkerFault
<1>4. ASSUME NEW h \in Handlers, Progress(h)  PROVE IInv'
  BY <1>4, LookupStep, ActivateStep, ReissueStep, HandlerGivesUpStep, HandlerMailStep,
     HandlerFlagStep, HandlerFindsNobodyStep DEF Progress
<1>5. ASSUME NEW h \in Handlers, HandlerFault(h)  PROVE IInv'
  BY <1>5, HandlerGivesUpStep, ActivateAbandonedStep, ReissueAbandonedStep, HandlerMailFailsStep,
     HandlerFlagFailsStep DEF HandlerFault
<1>6. ASSUME NEW h \in Handlers, NEW t \in Tokens, CheckToken(h, t)  PROVE IInv'
  BY <1>6, CheckTokenStep
<1>7. CASE Elsewhere \/ NextDay
  BY <1>7, ElsewhereStep, NextDayStep
<1>8. CASE UNCHANGED vars
  <2> USE <1>8 DEF vars, database, requests, history
  <2>1. TypeOK' /\ LeftIsAhead' /\ cached'.token <= issued /\ (Ahead' => Ahead) /\ Onward
    BY DEF IInv, TypeOK, LeftIsAhead, TokensInOrder, Ahead, Onward
  <2> QED
    BY <2>1, QuietStep
<1> QED
  BY <1>1, <1>2, <1>3, <1>4, <1>5, <1>6, <1>7, <1>8 DEF Next

\* The inductive invariant: who owes which email, what each email is paid for,
\* and which transaction pays for each request misled.
THEOREM Inductive == Spec => []IInv
  BY InitInv, NextInv, PTL DEF Spec

\* The types of the tables, the job and the requests.
THEOREM TypeCorrect == Spec => []TypeOK
<1>1. IInv => TypeOK
  BY DEF IInv
<1> QED
  BY <1>1, Inductive, PTL

\* Whatever fails, a user waits for an email that nobody will send only for the
\* three reasons of StrandedOnlyByLoss.
THEOREM NoTokenVanishes == Spec => []StrandedOnlyByLoss
<1>1. IInv => StrandedOnlyByLoss
  <2> SUFFICES ASSUME IInv, Quiet, row.status = "INACTIVE", mailed[row.token] = 0
               PROVE  \/ row.token \in lost
                      \/ \E h \in Strayed : fresh[h] = row.token
                      \/ row.token = 1 /\ GivenUp
    BY DEF StrandedOnlyByLoss
  <2>1. row.token \in 1 .. issued
    BY DEF IInv, TokensInOrder, WellFormed
  <2> QED
    BY <2>1 DEF IInv, TypeOK, Accounted, Quiet, Strayed, CreatedOnce
<1> QED
  BY <1>1, Inductive, PTL

\* No abandoned transaction misleads two requests.
THEOREM StraysArePaid == Spec => []EachStrayIsPaid
<1>1. IInv => EachStrayIsPaid
  <2> SUFFICES ASSUME IInv PROVE Cardinality(Strayed) <= abandoned
    BY DEF EachStrayIsPaid
  <2>1. Cardinality(Strayed) \in Nat /\ abandoned \in Nat
    BY SomeRequests DEF Strayed, IInv, TypeOK
  <2> QED
    BY <2>1 DEF IInv, Paid
<1> QED
  BY <1>1, Inductive, PTL

LEMMA RepeatedBounds ==
  ASSUME IInv, NEW t \in Tokens
  PROVE  /\ Cardinality(Repeated(t)) <= Cardinality(Repeating(t))
         /\ Cardinality(Repeated(t)) \in Nat /\ Cardinality(Repeating(t)) \in Nat
         /\ Repeating(t) = {} => Cardinality(Repeated(t)) = 0 /\ Repeated(t) = {}
<1>1. Repeating(t) \in SUBSET Handlers /\ Repeated(t) \in SUBSET Repeating(t)
  BY DEF Repeated, Repeating, Strayed
<1>2. Repeating(t) = {} => Repeated(t) = {}
  BY <1>1
<1> QED
  BY <1>1, <1>2, SomeRequests, MoreRequests, FS_EmptySet

\* The retries of the job send the first email at most four times, a reissued
\* token is mailed once, and each request misled adds one email.
THEOREM RetriesAreBounded == Spec => []MailsBounded
<1>1. IInv => MailsBounded
  <2> SUFFICES ASSUME IInv, NEW t \in Tokens
               PROVE  mailed[t] <= (IF t = 1 THEN Attempts + MaxStalled ELSE 1)
                                   + Cardinality(Repeating(t))
    BY DEF MailsBounded
  <2>1. mailed[t] \in Nat /\ Sends \in Nat /\ Sends <= Attempts + MaxStalled
    BY DEF IInv, TypeOK, JobIsCounted, Sends
  <2>2. CASE t = 1
    <3>1. mailed[1] <= Sends + Cardinality(Repeated(1))
      BY DEF IInv, MailsAreCounted
    <3> QED
      BY <2>1, <2>2, <3>1, RepeatedBounds DEF Attempts, MaxStalled
  <2>3. CASE t # 1
    <3>1. mailed[t] <= (IF OwnMail(t) THEN 1 ELSE 0) + Cardinality(Repeated(t))
      BY <2>3 DEF IInv, MailsAreCounted
    <3> QED
      BY <2>1, <2>3, <3>1, RepeatedBounds
  <2> QED
    BY <2>2, <2>3
<1> QED
  BY <1>1, Inductive, PTL

\* A token is mailed again only for the causes RepeatsHaveACause names.
THEOREM RepeatsAreExplained == Spec => []RepeatsHaveACause
<1>1. IInv => RepeatsHaveACause
  <2> SUFFICES ASSUME IInv, NEW t \in Tokens, mailed[t] > 1
               PROVE  \/ t = 1 /\ ("worker" \in flagFailed \/ job.stalls > 0 \/ row.status = "ACTIVE")
                      \/ Repeating(t) # {}
    BY DEF RepeatsHaveACause
  <2>1. mailed[t] \in Nat
    BY DEF IInv, TypeOK
  <2>2. CASE t = 1
    BY <2>2, RepeatedBounds DEF IInv, RepeatsAccounted
  <2>3. CASE t # 1
    <3>1. mailed[t] <= (IF OwnMail(t) THEN 1 ELSE 0) + Cardinality(Repeated(t))
      BY <2>3 DEF IInv, MailsAreCounted
    <3> QED
      BY <2>1, <3>1, RepeatedBounds
  <2> QED
    BY <2>2, <2>3
<1> QED
  BY <1>1, Inductive, PTL

\* The flag tells whether the user got an email, whatever fails or is misled.
THEOREM FlagIsTrue == Spec => []FlagTellsMail
<1>1. IInv => FlagTellsMail
  <2> SUFFICES ASSUME IInv PROVE FlagTellsMail
    OBVIOUS
  <2>1. Quiet /\ row.status = "INACTIVE" /\ ~row.sent =>
            flagFailed # {} \/ GivenUp \/ \A t \in Tokens : mailed[t] = 0
    <3>1. \A t \in Tokens : mailed[t] \in Nat
      BY DEF IInv, TypeOK
    <3> QED
      BY <3>1 DEF IInv, SentAfterMail, Quiet
  <2> QED
    BY <2>1 DEF IInv, SentAfterMail, FlagTellsMail
<1> QED
  BY <1>1, Inductive, PTL


================================================================================
