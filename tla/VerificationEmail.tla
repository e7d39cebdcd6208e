--------------------------- MODULE VerificationEmail ---------------------------
(***************************************************************************)
(* The verification email of one user: createUsers commits the user with   *)
(* a token and publishes a queue job; a worker sends the email and then    *)
(* sets isVerificationEmailSent; whoever follows the link activates the    *)
(* user or, once the token has expired, gets a new one mailed.             *)
(*                                                                         *)
(*   - the token a reissue mails is that of the user its cache refresh     *)
(*     returned, which is a hit when an abandoned transaction left a copy  *)
(*     of the same version;                                                *)
(*   - an error inside the transaction of verifyUsers releases the         *)
(*     connection without a rollback: the transaction keeps the row lock   *)
(*     until somebody takes the connection from the pool.                  *)
(*                                                                         *)
(* Users share nothing here: each process runs a worker of the queue, and  *)
(* the jobs of two users do not wait for each other.  A transaction writes *)
(* the row, refreshes the cache and commits in one step, under the row     *)
(* lock; UserCache takes it apart.  Of the cache only the identifier key   *)
(* is here, which the refresh reads.                                       *)
(***************************************************************************)
EXTENDS Integers, FiniteSets

CONSTANTS
    Handlers,  \* the verifyUsers requests, each runs once
    MaxToken,  \* bound: the tokens generated for the user
    MaxDay     \* bound: the days that pass

ASSUME HandlersAssumption == IsFiniteSet(Handlers) /\ "none" \notin Handlers
ASSUME BoundsAssumption == MaxToken \in Nat \ {0} /\ MaxDay \in Nat

VARIABLES
    row,        \* users and user_settings, as committed
    left,       \* what a transaction wrote whose connection was released with it open
    heir,       \* the request that goes on in it, "none" while it is in the pool
    cached,     \* the copy under the identifier key
    issued,     \* how many tokens were generated: they are 1, 2, ...
    creator,    \* the createUsers request
    job,        \* the job, with the attempts that failed and the stalls
    pc,         \* where each verifyUsers request is
    fresh,      \* the token it committed, 0 before
    parcel,     \* the token it mails, 0 for the null of an activated user
    mailed,     \* how often each token was mailed
    today,
    abandoned,  \* history: the transactions left open or rolled back after their refresh
    flagFailed, \* history: where an update of the flag failed
    lost        \* history: the tokens whose request ended without mailing any

database == <<row, left, heir, cached>>
requests == <<pc, fresh, parcel>>
history == <<abandoned, flagFailed, lost>>
vars == <<database, issued, creator, job, requests, mailed, today, history>>

-----------------------------------------------------------------------------
\* publishQueuesAsync: attempts. BullMQ gives a stalled job one more chance.
Attempts == 3
MaxStalled == 1

Tokens == 1 .. MaxToken

\* The expiry is a date without time, one day after the token was made, and
\* the comparison is by date too.
Expiry == today + 1
Unexpired(r) == today <= r.expires

NoRow == [status |-> "none", ver |-> 0, token |-> 0, expires |-> 0, sent |-> FALSE]
Exists(r) == r.ver # 0

Copy(r) == [ver |-> r.ver, token |-> r.token]

Init ==
    /\ row = NoRow
    /\ left = NoRow
    /\ heir = "none"
    /\ cached = Copy(NoRow)
    /\ issued = 0
    /\ creator = "idle"
    /\ job = [state |-> "none", failed |-> 0, stalls |-> 0]
    /\ pc = [h \in Handlers |-> "idle"]
    /\ fresh = [h \in Handlers |-> 0]
    /\ parcel = [h \in Handlers |-> 0]
    /\ mailed = [t \in Tokens |-> 0]
    /\ today = 0
    /\ abandoned = 0
    /\ flagFailed = {}
    /\ lost = {}

-----------------------------------------------------------------------------
(* The transactions on the user: what they see, write and leave behind. *)

\* What a request sees in its transaction: it may go on in one left open.
View(h) == IF heir = h THEN left ELSE row

\* The UPDATE waits for the row lock, which a transaction left open keeps.
CanLock(h) == ~Exists(left) \/ heir = h

\* Mutant: the refresh believes whatever copy it finds.
ReturnedUnchecked(w) == IF cached.ver # 0 THEN cached ELSE Copy(w)

\* The cache refresh in the transaction that wrote w: a copy of the version
\* of w is a hit, any other is replaced by w.
Returned(w) == IF cached.ver = w.ver THEN cached ELSE Copy(w)

\* A set that fails is only logged. It matters for a copy ahead of w: one behind
\* w is never a hit again, and counts as replaced.
Refreshed(w) == {Returned(w)} \cup (IF cached.ver > w.ver THEN {cached} ELSE {})

\* A request commits w, and what it inherited with it.
Commit(w) ==
    /\ row' = w
    /\ left' = NoRow /\ heir' = "none"
    /\ cached' \in Refreshed(w)

\* The transaction is given up after its cache refresh and rolled back (the
\* commit throws, the process dies); given up earlier, it leaves no trace.
RolledBack(w) ==
    /\ left' = NoRow /\ heir' = "none"
    /\ cached' = Returned(w)
    /\ abandoned' = abandoned + 1
    /\ UNCHANGED row

\* It is released open, with w in it and the row locked: the refresh failed,
\* perhaps after it had set the identifier key.
LeftOpen(w) ==
    /\ left' = w /\ heir' = "none"
    /\ cached' \in {cached, Returned(w)}
    /\ abandoned' = abandoned + 1
    /\ UNCHANGED row

\* The pool hands the connection to a request about something else, which
\* rolls the transaction back, or goes on in it and commits it.
Elsewhere ==
    /\ Exists(left) /\ heir = "none"
    /\ left' = NoRow
    /\ row' \in {row, left}
    /\ UNCHANGED <<heir, cached, issued, creator, job, requests, mailed, today, history>>

-----------------------------------------------------------------------------
(* createUsers *)

\* The transaction commits: an INACTIVE user with a token for a day.
CreateCommit ==
    /\ creator = "idle"
    /\ creator' = "committed"
    /\ Commit([status |-> "INACTIVE", ver |-> 1, token |-> 1, expires |-> Expiry, sent |-> FALSE])
    /\ issued' = 1
    /\ UNCHANGED <<job, requests, mailed, today, history>>

\* The job is published after the commit, outside any transaction.
Publish ==
    /\ creator = "committed"
    /\ creator' = "ended"
    /\ job' = [job EXCEPT !.state = "waiting"]
    /\ UNCHANGED <<database, issued, requests, mailed, today, history>>

\* The process dies after the commit, or queue.add throws: the request answers
\* 500 and the transaction is no longer there to be rolled back.
PublishLost ==
    /\ creator = "committed"
    /\ creator' = "ended"
    /\ lost' = lost \cup {1}
    /\ UNCHANGED <<database, issued, job, requests, mailed, today, abandoned, flagFailed>>

-----------------------------------------------------------------------------
(* The worker. It mails the token that was put in the job, the first one. *)

\* Mutant: a job that failed is put back where no worker looks.
TakeJobOnce ==
    /\ job.state = "waiting" /\ job.failed = 0
    /\ job' = [job EXCEPT !.state = "mail"]
    /\ UNCHANGED <<database, issued, creator, requests, mailed, today, history>>

TakeJob ==
    /\ job.state = "waiting"
    /\ job' = [job EXCEPT !.state = "mail"]
    /\ UNCHANGED <<database, issued, creator, requests, mailed, today, history>>

JobMail ==
    /\ job.state = "mail"
    /\ mailed' = [mailed EXCEPT ![1] = @ + 1]
    /\ job' = [job EXCEPT !.state = "flag"]
    /\ UNCHANGED <<database, issued, creator, requests, today, history>>

\* Mutants of a failed attempt: the job is forgotten, the attempt is not counted,
\* there is one attempt too many.
FailedOffByOne ==
    job' = [job EXCEPT !.failed = @ + 1,
                       !.state = IF job.failed < Attempts THEN "waiting" ELSE "gone"]
FailedForgotten == job' = [job EXCEPT !.failed = @ + 1, !.state = "gone"]
FailedUncounted == job' = [job EXCEPT !.state = "waiting"]

\* The job throws: BullMQ counts the attempt and tries again at once, or
\* removes the job (removeOnFail).
Failed ==
    job' = [job EXCEPT !.failed = @ + 1,
                       !.state = IF job.failed + 1 < Attempts THEN "waiting" ELSE "gone"]

\* Mutant: the error of the send is only logged.
JobMailFailsLogged ==
    /\ job.state = "mail"
    /\ job' = [job EXCEPT !.state = "flag"]
    /\ UNCHANGED <<database, issued, creator, requests, mailed, today, history>>

JobMailFails ==
    /\ job.state = "mail"
    /\ Failed
    /\ UNCHANGED <<database, issued, creator, requests, mailed, today, history>>

\* IsVerificationEmailSend...Handler: the flag is set on a user that is still
\* INACTIVE, in a SERIALIZABLE transaction, which inherits none.
CanFlag == row.status = "INACTIVE" /\ ~Exists(left)
Flagged == [status |-> "INACTIVE", ver |-> row.ver + 1, token |-> row.token,
            expires |-> row.expires, sent |-> TRUE]

\* Mutant: the completed job is not removed.
JobFlagKeeps ==
    /\ job.state = "flag" /\ CanFlag
    /\ Commit(Flagged)
    /\ job' = [job EXCEPT !.state = "waiting"]
    /\ UNCHANGED <<issued, creator, requests, mailed, today, history>>

JobFlag ==
    /\ job.state = "flag" /\ CanFlag
    /\ Commit(Flagged)
    /\ job' = [job EXCEPT !.state = "gone"]
    /\ UNCHANGED <<issued, creator, requests, mailed, today, history>>

\* The user was verified meanwhile and is not found: the whole job is tried
\* again, the email included.
JobFindsNobody ==
    /\ job.state = "flag" /\ row.status # "INACTIVE"
    /\ Failed
    /\ UNCHANGED <<database, issued, creator, requests, mailed, today, history>>

\* The transaction fails, before its update or after it, and so does the job.
JobFlagFails ==
    /\ job.state = "flag" /\ row.status = "INACTIVE"
    /\ flagFailed' = flagFailed \cup {"worker"}
    /\ Failed
    /\ \/ UNCHANGED <<database, abandoned>>
       \/ CanFlag /\ RolledBack(Flagged)
    /\ UNCHANGED <<issued, creator, requests, mailed, today, lost>>

\* The worker dies, before or in the transaction, or after the commit and
\* before BullMQ is told; the lock of the job runs out.
JobCrash ==
    /\ job.state \in {"mail", "flag"}
    /\ job' = [job EXCEPT !.stalls = @ + 1, !.state = "stalled"]
    /\ \/ UNCHANGED <<database, abandoned>>
       \/ job.state = "flag" /\ CanFlag /\ RolledBack(Flagged)
       \/ job.state = "flag" /\ CanFlag /\ Commit(Flagged) /\ UNCHANGED abandoned
    /\ UNCHANGED <<issued, creator, requests, mailed, today, flagFailed, lost>>

\* A worker finds the stalled job and puts it back, or gives it up.
JobUnstall ==
    /\ job.state = "stalled"
    /\ job' = [job EXCEPT !.state = IF job.stalls <= MaxStalled THEN "waiting" ELSE "gone"]
    /\ UNCHANGED <<database, issued, creator, requests, mailed, today, history>>

-----------------------------------------------------------------------------
(* verifyUsers, with a token its user has received *)

\* Before the transaction, on any pooled connection: who has the token, and is
\* it expired?
CheckToken(h, t) ==
    /\ pc[h] = "idle" /\ mailed[t] > 0
    /\ \E seen \in {row} \cup (IF Exists(left) /\ heir = "none" THEN {left} ELSE {}) :
         pc' = [pc EXCEPT ![h] = IF seen.status # "INACTIVE" \/ seen.token # t THEN "ended"
                                 ELSE IF Unexpired(seen) THEN "toActivate" ELSE "toReissue"]
    /\ UNCHANGED <<database, issued, creator, job, fresh, parcel, mailed, today, history>>

\* START TRANSACTION, perhaps on the connection with a transaction left open,
\* which it goes on in; then the user by identifier and INACTIVE, through the
\* cache. A user who is not INACTIVE is an error, and what was open stays so.
Lookup(h) ==
    /\ pc[h] \in {"toActivate", "toReissue"}
    /\ \E inherits \in {FALSE, Exists(left) /\ heir = "none"} :
         LET seen == IF inherits THEN left ELSE row
         IN IF seen.status = "INACTIVE"
              THEN /\ pc' = [pc EXCEPT ![h] = IF pc[h] = "toActivate" THEN "activate" ELSE "reissue"]
                   /\ heir' = IF inherits THEN h ELSE heir
                   /\ cached' \in Refreshed(seen)
              ELSE /\ pc' = [pc EXCEPT ![h] = "ended"]
                   /\ UNCHANGED <<heir, cached>>
    /\ UNCHANGED <<row, left, issued, creator, job, fresh, parcel, mailed, today, history>>

\* IfTokenValidService writes this, whoever the user has become meanwhile.
Activated(r) == [status |-> "ACTIVE", ver |-> r.ver + 1, token |-> 0, expires |-> 0,
                 sent |-> r.sent]

Activate(h) ==
    /\ pc[h] = "activate" /\ CanLock(h)
    /\ Commit(Activated(View(h)))
    /\ pc' = [pc EXCEPT ![h] = "ended"]
    /\ UNCHANGED <<issued, creator, job, fresh, parcel, mailed, today, history>>

\* IfTokenIsNotValidService: a new token, on a row it finds INACTIVE when it has
\* its lock.
Reissued(r) == [status |-> "INACTIVE", ver |-> r.ver + 1, token |-> issued + 1,
                expires |-> Expiry, sent |-> r.sent]

\* The email will have the token of the user the cache refresh returned.
Reissue(h) ==
    /\ pc[h] = "reissue" /\ CanLock(h) /\ View(h).status = "INACTIVE"
    /\ issued < MaxToken
    /\ Commit(Reissued(View(h)))
    /\ issued' = issued + 1
    /\ fresh' = [fresh EXCEPT ![h] = issued + 1]
    /\ parcel' = [parcel EXCEPT ![h] = Returned(Reissued(View(h))).token]
    /\ pc' = [pc EXCEPT ![h] = "mail"]
    /\ UNCHANGED <<creator, job, mailed, today, history>>

\* Somebody was faster: an error, with nothing written.
ReissueFindsNobody(h) ==
    /\ pc[h] = "reissue" /\ CanLock(h) /\ View(h).status # "INACTIVE"
    /\ pc' = [pc EXCEPT ![h] = "ended"]
    /\ heir' = "none"
    /\ UNCHANGED <<row, left, cached, issued, creator, job, fresh, parcel, mailed, today, history>>

\* An error before the update: the handler returns and releases its connection
\* as it is, with what it inherited.
HandlerGivesUp(h) ==
    /\ pc[h] \in {"toActivate", "toReissue", "activate", "reissue"}
    /\ pc' = [pc EXCEPT ![h] = "ended"]
    /\ heir' = IF heir = h THEN "none" ELSE heir
    /\ UNCHANGED <<row, left, cached, issued, creator, job, fresh, parcel, mailed, today, history>>

\* An error after the update: of the cache refresh, which returns without a
\* rollback, or of the commit, which throws and is rolled back.
ActivateAbandoned(h) ==
    /\ pc[h] = "activate" /\ CanLock(h)
    /\ LeftOpen(Activated(View(h))) \/ RolledBack(Activated(View(h)))
    /\ pc' = [pc EXCEPT ![h] = "ended"]
    /\ UNCHANGED <<issued, creator, job, fresh, parcel, mailed, today, flagFailed, lost>>

ReissueAbandoned(h) ==
    /\ pc[h] = "reissue" /\ CanLock(h) /\ View(h).status = "INACTIVE"
    /\ issued < MaxToken
    /\ LeftOpen(Reissued(View(h))) \/ RolledBack(Reissued(View(h)))
    /\ issued' = issued + 1
    /\ lost' = lost \cup {issued + 1}
    /\ pc' = [pc EXCEPT ![h] = "ended"]
    /\ UNCHANGED <<creator, job, fresh, parcel, mailed, today, flagFailed>>

\* The request sends the email itself, after its commit, with no queue. A null
\* token does not pass the validation of the event.
HandlerMail(h) ==
    /\ pc[h] = "mail"
    /\ IF parcel[h] # 0
         THEN /\ mailed' = [mailed EXCEPT ![parcel[h]] = @ + 1]
              /\ pc' = [pc EXCEPT ![h] = "flag"]
              /\ UNCHANGED lost
         ELSE /\ lost' = lost \cup {fresh[h]}
              /\ pc' = [pc EXCEPT ![h] = "ended"]
              /\ UNCHANGED mailed
    /\ UNCHANGED <<database, issued, creator, job, fresh, parcel, today, abandoned, flagFailed>>

\* The request dies after its commit, or its send fails: 500, and no email.
HandlerMailFails(h) ==
    /\ pc[h] = "mail"
    /\ lost' = lost \cup {fresh[h]}
    /\ pc' = [pc EXCEPT ![h] = "ended"]
    /\ UNCHANGED <<database, issued, creator, job, fresh, parcel, mailed, today, abandoned, flagFailed>>

\* The same event handler sets the flag.
HandlerFlag(h) ==
    /\ pc[h] = "flag" /\ CanFlag
    /\ Commit(Flagged)
    /\ pc' = [pc EXCEPT ![h] = "ended"]
    /\ UNCHANGED <<issued, creator, job, fresh, parcel, mailed, today, history>>

\* A user verified meanwhile is a 500.
HandlerFindsNobody(h) ==
    /\ pc[h] = "flag" /\ row.status # "INACTIVE"
    /\ pc' = [pc EXCEPT ![h] = "ended"]
    /\ UNCHANGED <<database, issued, creator, job, fresh, parcel, mailed, today, history>>

HandlerFlagFails(h) ==
    /\ pc[h] = "flag"
    /\ flagFailed' = flagFailed \cup {"request"}
    /\ pc' = [pc EXCEPT ![h] = "ended"]
    /\ \/ UNCHANGED <<database, abandoned>>
       \/ CanFlag /\ RolledBack(Flagged)
    /\ UNCHANGED <<issued, creator, job, fresh, parcel, mailed, today, lost>>

-----------------------------------------------------------------------------
NextDay ==
    /\ today < MaxDay
    /\ today' = today + 1
    /\ UNCHANGED <<database, issued, creator, job, requests, mailed, history>>

Worker == TakeJob \/ JobMail \/ JobFlag \/ JobFindsNobody \/ JobUnstall

WorkerFault == JobMailFails \/ JobFlagFails \/ JobCrash

Progress(h) ==
    \/ Lookup(h) \/ Activate(h) \/ Reissue(h) \/ ReissueFindsNobody(h)
    \/ HandlerMail(h) \/ HandlerFlag(h) \/ HandlerFindsNobody(h)

HandlerFault(h) ==
    \/ HandlerGivesUp(h) \/ ActivateAbandoned(h) \/ ReissueAbandoned(h)
    \/ HandlerMailFails(h) \/ HandlerFlagFails(h)

Next ==
    \/ CreateCommit \/ Publish \/ PublishLost
    \/ Worker \/ WorkerFault
    \/ \E h \in Handlers : \/ \E t \in Tokens : CheckToken(h, t)
                           \/ Progress(h)
                           \/ HandlerFault(h)
    \/ Elsewhere
    \/ NextDay

Spec == Init /\ [][Next]_vars

\* Requests that were started go on, and a free worker takes the job; what waits
\* for a row lock waits, for nobody has to take the connection that keeps it.
FairSpec ==
    /\ Spec
    /\ WF_vars(Publish) /\ WF_vars(Worker)
    /\ \A h \in Handlers : WF_vars(Progress(h))

-----------------------------------------------------------------------------
Row == [status : {"none", "INACTIVE", "ACTIVE"}, ver : Nat, token : 0 .. MaxToken,
        expires : 0 .. MaxDay + 1, sent : BOOLEAN]

TypeOK ==
    /\ row \in Row /\ left \in Row
    /\ heir \in Handlers \cup {"none"}
    /\ cached \in [ver : Nat, token : 0 .. MaxToken]
    /\ issued \in 0 .. MaxToken
    /\ creator \in {"idle", "committed", "ended"}
    /\ job \in [state : {"none", "waiting", "mail", "flag", "stalled", "gone"},
                failed : 0 .. Attempts, stalls : 0 .. MaxStalled + 1]
    /\ pc \in [Handlers -> {"idle", "toActivate", "toReissue", "activate", "reissue",
                            "mail", "flag", "ended"}]
    /\ fresh \in [Handlers -> 0 .. MaxToken]
    /\ parcel \in [Handlers -> 0 .. MaxToken]
    /\ mailed \in [Tokens -> Nat]
    /\ today \in 0 .. MaxDay
    /\ abandoned \in Nat
    /\ flagFailed \in SUBSET {"worker", "request"}
    /\ lost \in SUBSET Tokens

\* Nobody is at work on the user.
Quiet ==
    /\ creator \in {"idle", "ended"}
    /\ job.state \in {"none", "gone"}
    /\ \A h \in Handlers : pc[h] \in {"idle", "ended"}

\* The job was tried as often as it may be.
GivenUp == job.failed >= Attempts \/ job.stalls > MaxStalled

\* The requests whose refresh returned somebody else's copy: they mail another
\* token than the one they committed.
Strayed == {h \in Handlers : fresh[h] # 0 /\ parcel[h] # fresh[h]}
Repeating(t) == {h \in Strayed : parcel[h] = t}

\* No token vanishes: a user is left waiting for an email that nobody will send
\* only if the request that made the token ended before it handed it on, if it
\* mailed another one, or if the job was tried three times (or stalled twice).
StrandedOnlyByLoss ==
    Quiet /\ row.status = "INACTIVE" /\ mailed[row.token] = 0 =>
        \/ row.token \in lost
        \/ \E h \in Strayed : fresh[h] = row.token
        \/ row.token = 1 /\ GivenUp

\* Every abandoned transaction misleads at most one request: the copy it left in
\* the cache is a hit for the next update of the row and for no other.
EachStrayIsPaid == Cardinality(Strayed) <= abandoned

\* The retries are bounded: the first token is mailed at most once per attempt
\* and stall, a reissued one at most once, and once more by each request misled.
MailsBounded ==
    \A t \in Tokens : mailed[t] <=
        (IF t = 1 THEN Attempts + MaxStalled ELSE 1) + Cardinality(Repeating(t))

\* A token is mailed again only if the worker could not set the flag after the
\* email (the update failed, the worker died, the user had been faster), or if a
\* request took it from a copy in the cache for its own.
RepeatsHaveACause ==
    \A t \in Tokens : mailed[t] > 1 =>
        \/ t = 1 /\ ("worker" \in flagFailed \/ job.stalls > 0 \/ row.status = "ACTIVE")
        \/ Repeating(t) # {}

\* The flag is set only when the user got an email, and once all is quiet it is
\* missing only after an update that failed, or a job given up.
FlagTellsMail ==
    /\ row.sent => \E t \in Tokens : mailed[t] > 0
    /\ Quiet /\ row.status = "INACTIVE" /\ ~row.sent =>
           flagFailed # {} \/ GivenUp \/ \A t \in Tokens : mailed[t] = 0

-----------------------------------------------------------------------------
(* The inductive invariant behind these. *)

BeforeWrite == {"idle", "toActivate", "toReissue", "activate", "reissue"}

\* A row has a token exactly while it is INACTIVE.
WellFormed(r) ==
    /\ r.status = "none" <=> ~Exists(r)
    /\ r.status = "INACTIVE" => r.token \in 1 .. issued
    /\ r.status # "INACTIVE" => r.token = 0

\* What was left open is newer than the row and otherwise made from it.
LeftIsAhead ==
    /\ Exists(left) =>
           /\ left.ver > row.ver
           /\ Exists(row)
           /\ left.status = "INACTIVE" => row.status = "INACTIVE"
           /\ left.sent = row.sent
    /\ heir # "none" => Exists(left) /\ pc[heir] \in {"activate", "reissue"}

\* Tokens are made one after the other, and each request commits its own.
TokensInOrder ==
    /\ WellFormed(row) /\ WellFormed(left)
    /\ Exists(row) <=> issued # 0
    /\ cached.token <= issued
    /\ \A t \in Tokens : mailed[t] > 0 => t <= issued
    /\ lost \subseteq 1 .. issued
    /\ \A h \in Handlers :
           /\ fresh[h] <= issued /\ fresh[h] # 1 /\ parcel[h] <= issued
           /\ pc[h] \in BeforeWrite => fresh[h] = 0
           /\ pc[h] \in {"mail", "flag"} => fresh[h] # 0
           /\ pc[h] = "flag" => parcel[h] # 0
    /\ \A g, h \in Handlers : fresh[g] = fresh[h] /\ fresh[g] # 0 => g = h

\* The creator hands the job on once, after the row is there.
CreatedOnce ==
    /\ creator = "idle" <=> issued = 0
    /\ creator # "ended" => job.state = "none"
    /\ issued = 0 => \A h \in Handlers : pc[h] = "idle"

\* A copy ahead of the row is one that some abandoned transaction may still
\* mislead a request with, and so is one that is left open.
Ahead == cached.ver > row.ver \/ Exists(left)
Paid == Cardinality(Strayed) + (IF Ahead THEN 1 ELSE 0) <= abandoned

\* The request that made a token has mailed it; others have by mistake.
OwnMail(t) == \E h \in Handlers : fresh[h] = t /\ parcel[h] = t /\ pc[h] # "mail"
Repeated(t) == {h \in Repeating(t) : pc[h] # "mail"}

\* Every attempt that failed and every stall may have sent the email, and so has
\* the attempt that is at its flag, or ended with it.
Sends == job.failed + job.stalls
         + IF job.state = "flag" \/ (job.state = "gone" /\ ~GivenUp) THEN 1 ELSE 0

JobIsCounted ==
    /\ job.state = "none" => job.failed = 0 /\ job.stalls = 0
    /\ job.state # "gone" => job.failed < Attempts
    /\ job.state \in {"waiting", "mail", "flag"} => job.stalls <= MaxStalled
    /\ Sends <= Attempts + MaxStalled

\* Every email is paid for: those of the first token by the attempts of the job,
\* that of another by the request that made it, the rest by requests misled.
MailsAreCounted ==
    /\ mailed[1] <= Sends + Cardinality(Repeated(1))
    /\ \A t \in Tokens \ {1} :
           mailed[t] <= (IF OwnMail(t) THEN 1 ELSE 0) + Cardinality(Repeated(t))

\* Whoever owes an email is still at work, or gave it up, or was misled.
Accounted ==
    \A t \in 1 .. issued : mailed[t] = 0 =>
        \/ t \in lost
        \/ \E h \in Handlers : fresh[h] = t /\ (pc[h] = "mail" \/ parcel[h] # t)
        \/ t = 1 /\ \/ creator = "committed"
                    \/ job.state \in {"waiting", "mail", "stalled"}
                    \/ job.state = "gone" /\ GivenUp

\* A worker that sends the email again had a reason to.
RepeatsAccounted ==
    LET cause == \/ "worker" \in flagFailed \/ job.stalls > 0 \/ row.status = "ACTIVE"
                 \/ Repeated(1) # {}
    IN /\ mailed[1] > 0 /\ job.state \in {"none", "waiting", "mail", "stalled"} => cause
       /\ mailed[1] > 1 => cause

SentAfterMail ==
    /\ row.sent => \E t \in Tokens : mailed[t] > 0
    /\ job.state = "flag" => mailed[1] > 0
    /\ \A h \in Handlers : pc[h] = "flag" => mailed[parcel[h]] > 0
    /\ row.status = "INACTIVE" /\ ~row.sent /\ (\E t \in Tokens : mailed[t] > 0) =>
           \/ flagFailed # {}
           \/ job.state \in {"waiting", "mail", "flag", "stalled"}
           \/ job.state = "gone" /\ GivenUp
           \/ \E h \in Handlers : pc[h] = "flag"

IInv ==
    /\ TypeOK
    /\ LeftIsAhead
    /\ TokensInOrder
    /\ CreatedOnce
    /\ Paid
    /\ JobIsCounted
    /\ MailsAreCounted
    /\ Accounted
    /\ RepeatsAccounted
    /\ SentAfterMail

-----------------------------------------------------------------------------
\* The job of a created user ends, whatever fails on the way, unless a
\* transaction left open keeps the row locked for ever.
EveryJobEnds ==
    <>[]Exists(left) \/ (job.state # "none" ~> job.state = "gone")

\* Every token of the row is mailed in the end, unless the request that made it
\* ended before it handed it on or mailed another, or the job was tried as often
\* as it may be.
EveryTokenIsMailed ==
    \A t \in Tokens : (row.token = t) ~>
        \/ mailed[t] > 0
        \/ t \in lost
        \/ \E h \in Strayed : fresh[h] = t
        \/ t = 1 /\ GivenUp

================================================================================
