# A TLA+ model of the modular monolith API

This directory models the API of the repository: an Express server of Node
processes in front of PostgreSQL (through TypeORM and the library `mma_db`),
Redis (through `RedisHelper`), BullMQ queues and RabbitMQ. The paths below are
relative to `src/src/` of the repository; `V1` stands for
`modules/users/apps/features/v1`.

## Inventory

| component | state | operations | interacts through | hard behaviour | what makes it correct |
|---|---|---|---|---|---|
| cached user, `modules/users/shared/cache` | three Redis keys per user (identifier, client id, email), each a copy of the user with its row version | read through, check the version, refill | every handler; Redis; the row in PostgreSQL, inside or outside the caller's transaction | a network await between any two of get, version lookup, load, set, set, set; a set that fails is swallowed | reads not older than the request; no rolled-back row is believed; the keys end on the committed row |
| handlers of `V1`: create, update, deactivate, verify, refresh token, get by identifier, the email-flag job | one user row and its version | a transaction each; the cache refreshed inside it, before the commit | the row lock, the cache, the connection pool | two writers of one row; stale copies written back; error returns that forget the rollback | versions name one row; the status changes only by what is meant to change it; every request answered |
| cached lookups, `modules/users/shared/services/getUserByClientId`, `getUsersByEmailId` | none | get with no version check | Redis keys | stale copy used for authorisation | (above) |
| `RedisHelper`, `shared/utils/helpers/redis` | one `client` and one `isConnected` for the whole process | `init`, `get`, `set`, `disconnect`, client events | every cache call | a call disconnects the client another one uses; clients overwritten and never closed | a call alone is never disturbed; the flag is wrong about the client only through another one; every call ends |
| `signIn`, `getUsers` | none | signIn always answers 500 before its transaction; getUsers reads | the connection pool, the cached lookups | they compete with the others for connections | every connection comes back |
| verification email: BullMQ queue, worker, `notiifcations` module | a job with three attempts, the email, the sent flag, the token and its expiry | publish after the commit, send, set the flag; reissue | mediator events, the email-flag handler | crash between commit and publication; retry after the email went out; the user verifies before the flag is set; two requests reissue one token; the token mailed is that of a cached copy; an error keeps the row locked | a live token is mailed unless somebody failed or was misled, and a bounded number of times; the flag tells whether it was |
| refresh-token rotation | the current refresh token in the row and in the cache | compare, sign, replace | the cached user, the row lock | two requests with one token; the copy compared with is old or was rolled back; an answer that is lost after the commit | a token is good once; the client holds the token of the row |
| RabbitMQ request/reply and publish/subscribe | queues, a consumer per request | send, handle, reply, resolve | a shared reply queue | a reply taken by another requester; lost channels, repeated requests and replies | a request gets its own reply, and loses none for good |
| saga helper | the executed activities | run, compensate | none (unused) | an activity throws | compensation in reverse order |
| request pipeline (HMAC, JWT, validation, rate limit) | the cached keys | accept or reject | the cached user | order of the checks | no handler runs unauthenticated |
| startup and clustering | listening, database initialised, consumers running | start | | listening before the database is there; the database and the consumers are in fact never started (see the end) | |
| connection pool (TypeORM, external) | ten connections | acquire, release | every handler holds one and some take a second, for a query or a nested handler | everybody waits for a second connection; a connection comes back with a transaction open | the service halts in no other way |
| paged list, AES, HMAC, hashing, axios, logging | none | computations | | | the page arithmetic |

## Plan

Done, each with its runs and proofs:

1. `UserCache` (+ `MCUserCache`, `UserCacheProofs`, `UserCacheWriters`): the
   cached user and the handlers, the core of the program.
2. `RedisConnection` (+ `RedisConnectionProofs`): the shared connection, which
   explains the Redis errors `UserCache` allows.
3. `VerificationEmail` (+ `VerificationEmailProofs`): commit, publication, three
   attempts, the email, its flag, reissue of an expired token, crash and retry.
4. `TokenRotation` (+ `MCTokenRotation`, `TokenRotationProofs`): refresh tokens
   presented twice, abandoned rotations, lost answers.
5. `VersionedUser`, the abstract user a client is promised, and
   `UserCacheRefinement`, the proof that `UserCache` implements it, faults and
   leaks included.
6. `ConnectionPool` (+ `ConnectionPoolProofs`): nested acquisition, row locks
   and leaked transactions, the two ways to a halt.
7. `RequestReply` (+ `MCRequestReply`, `RequestReplyProofs`): the reply queue,
   acknowledgement, confirmation, lost channels; `RemoteCall`, the call its
   requester is promised.

How they fit: `VersionedUser` is the specification of `UserCache`, `RemoteCall`
that of `RequestReply`.
`RedisConnection` is where the `redis` faults of `UserCache` come from,
`ConnectionPool` where its leaked connections wait and what a handler may wait
for besides the row lock. `TokenRotation` and `VerificationEmail` each look
closer at one operation of `UserCache`, whose other writers they leave out.
`VerificationEmail` keeps what they pick up from it: a copy somebody abandoned,
a transaction left open.

Left: the addresses a user had before; Redis down for good; specifications of a
few lines for the verification email and the token rotation, as `VersionedUser`
is one for the cache. Publish/subscribe, the saga and the paged list
wait for a user in the program.

## UserCache

One user. A *handler* is one request or one queue job; it runs once, its
operation chosen when it starts. Every variable corresponds to something in the
running system:

| variable | code |
|---|---|
| `db`, `committed` | the committed row of `users` with its satellite tables, and every row committed before it |
| `redis` | the keys `users_<identifier>`, `users_clientId_<clientId>`, `users_email_<email>` |
| `lock`, `tx`, `snap` | PostgreSQL: the row lock, what each open transaction wrote, its snapshot |
| `pc`, `op`, `val` | the await a handler is at, its operation, the `users` object in its hands |
| `asOf` | history: the version committed when each read started |

A row has its version, status, pending verification token (yes or no), email,
and `by`, the handler that wrote it, which stands for everything else in it.

An action is what a handler does between two awaits. `GetPrimary`,
`CheckVersion`, `LoadUser`, `SetIdentifier`, `SetClientId`, `SetEmail` are
`UserSharedCacheService` and `UserSetCacheService`; `SetSwallowed` is the set
that answers an error and is only logged. `Write*` is the database service of
each handler together with the version it bumps; the tables are written one
after the other under locks that begin with the first, so they are one step.
`Commit`, `Rollback`, `Leak` are the three ways to end a transaction:
`verifyUsers` and, in one place, `deactivateUser` return an error inside their
transaction without a rollback, and `release()` gives the connection back as it
is. The next handler that gets this connection goes on inside the old
transaction (`BeginInherits`) or, if it asks for an isolation level, fails and
rolls it back (`BeginRejected`); a handler of another user does either as well
(`Elsewhere`).

A commit is not yet an answer. The publication of `createUsers`
(`createUsers/endpoint/index.ts:434`), the event of a reissue
(`verifyUsers/endpoints/index.ts:276`), the encryption of a response (`:299`) or
the reply to the COMMIT itself may still fail: `Answer` is the success,
`AnswerFails` the 500 for what is committed.

Left out, because they change no state: guards that reject a request before it
reads the user, decryption, validation, mapping (their failures are `Abort`),
the content of the response. The 406 of `deactivateUser` (endpoints/index.ts:213) cannot
happen: the service before it answers 403 first (`Accepted`).
What PostgreSQL and TypeORM do is external and marked so.

### Runs

| run | instance | shows |
|---|---|---|
| `cache_safety` | 3 handlers, 7 operations, Redis and service faults, handlers symmetric | `TypeOK`, `IInv`, `VersionNamesOneCommit`, `ReadsNotStale`, `DirtyReadsOnlyOfFailed`, `LockIsReturned`, `ImplementsVersionedUser` |
| `cache_writers` | 3 writers of 7 operations, no faults, handlers symmetric | `WritersInv`, `QuiescentCacheIsFresh`, `TokenWritersKeepStatus` |
| `cache_live` | 3 writers, token refreshes and email flags, each may fail | `EveryRequestAnswered` |
| `cache_dirty_read` | reads and updates, an update fails after its refresh | violates `RolledBackIsInvisible`: the next commit reuses the version number, and the rolled-back copy passes for it |
| `cache_reactivate` | an update and a deactivation | violates `UpdateNeverActivates`: the update writes back the status it read before |
| `cache_token_twice` | 2 verifications with one token | violates `TokenUsedOnce` |

`cache_safety` leaves out the email-flag job to end in minutes; the other two
passing runs have it, and the theorems hold for any set of operations. Three
handlers are what the hazards need: a reader or loser, a writer that fails or is overtaken, and the one that comes after both. Every handler writes
at most once, so versions stay below 5 with no other bound. `cache_writers` has two
addresses, because an update that changes the address changes which key the
refresh sets; elsewhere one suffices, because nothing in the model reads an
address key. The key of an address the user has left need not even keep the
last row that had it: a late fill by an operation outside its transaction
(`deactivateUser`) can put an older row back. A deadlock check is off because
the system stops when every handler has ended.

Fairness: weak, on each handler's own `Progress`. Node resumes a handler when
its promise settles, and Redis and PostgreSQL answer; a handler waits for
nothing else than the row lock. Faults and leaks are never forced. `cache_live`
leaves out the operations that leak: after a leak a writer may wait for ever,
the second of the halts of `ConnectionPool`. It also leaves out the readers,
which wait for nobody, and creations and updates, which wait for the row lock
as a refresh does: a refresh and the email flag are the two kinds of waiter,
the one that goes on with the row it finds and the one that fails when it was
overtaken.

`LockIsReturned` says that whoever has the row lock has written under it and is
at work, or leaked it: no other end of a handler leaves the row locked.

`QuiescentCacheIsFresh` needs writers only: a read that loaded the row before
two updates and sets its keys after them leaves its old copy there. The
identifier key is checked against the row version on its next use; the client
id key, which `TokenRotation` depends on, is not. It also needs every request to have committed
or answered with success, and every set to
succeed: one that fails is logged and leaves an old copy for good.

### The abstract user

`VersionedUser` has a row, the rows ever committed, and clients that commit,
give up, or ask and are answered. No cache, lock, transaction or connection is
left in it. `ImplementsVersionedUser` maps `row` to `db` and a handler to a
client that gave up when it ended with an error; it says that each step of a
handler is one step of this user or none: at most one commit of each handler's
row and under a greater version, reads at least as new as the row was when they
arrived. There are two concessions. An error tells its client nothing: the row
may have been committed before it (`AnswerFails`) or be committed after it, by
a handler that goes on in the leaked transaction. And `Answers` lets a read show
what a client that gave up had written (`cache_dirty_read`).

## RedisConnection

The one `RedisHelper` of a process and the calls of the cache services on it.
`client` and `isConnected` are its two fields; `conn` is the state of the
clients, each named after the call that opened it. A step is what runs before
control returns to the event loop; for example `Connected` covers the `ready`
event, the assignment of the field and the `get` that follows, which happen in
one turn because they hang on replies of one socket. `Disconnect` closes whatever
client the field holds and fails the calls that wait on it. `Drop` and
`ConnectError` are the `error` events of a connection that is lost and of an
attempt that is refused, `Reconnect` the `ready` of one that came back; each
client emits them, in the field or abandoned.

| run | instance | shows |
|---|---|---|
| `redis_shared` | 2 cache calls, 2 lookups, no drops | `TypeOK`, `IInv`, `OnlyOverlapsHarm` |
| `redis_live` | 2 cache calls, 1 lookup, drops, refusals and reconnections | `CommandsAreAnswerable`, `FlagErrsByOthers`, `EveryCallEnds` |

The flag does not tell whether `client` works: every client that was ever
opened, the abandoned ones of the lookups too, writes it
(`shared/utils/helpers/redis/index.ts:38-70`). `FlagErrsByOthers` says how far
it can be wrong, with all those events in the model: it is set over a client
that is gone only while another client works, and unset over one that works
only while another client connects or reconnects. Without drops it is right
(`FlagTellsTheClient`, a part of `IInv`), which `OnlyOverlapsHarm` rests on: who
is refused, or leaves a client open, ran while another call disconnected or is a
lookup. With drops a single call may be refused, so that property is stated
without them. `CommandsAreAnswerable` holds with drops too: a command is on
a client that is open or will be, so that it is answered or rejected, whoever
closes the client or overwrites the field meanwhile.

Each call runs once: two cache calls disturb each other, one lookup leaks a
client, another one overwrites a used one. Fairness: weak, on the answers of
Redis and PostgreSQL and on the client's own reconnection; a Redis that never
comes back would leave the call in `connect()`.

## VerificationEmail

The emails of one user. A transaction is one step here, taken under the row
lock: it writes the row, refreshes the cache and commits, or it is abandoned.
`UserCache` has the steps in between; what matters here is what happens after
the commit and what an abandoned transaction leaves to others.

| variable | code |
|---|---|
| `row` | status, version, `emailVerificationToken`, its expiry and `isVerificationEmailSent` in the user entity and its satellite entities |
| `left`, `heir` | the row a transaction wrote whose connection was released with it open; the request that goes on in it |
| `cached` | the copy under `users_<identifier>`, its version and token |
| `creator`, `pc`, `fresh`, `parcel` | where `createUsers` and each `verifyUsers` request are, the token the latter committed, the one it mails |
| `job` | the BullMQ job: `attemptsMade`, the stalls, waiting or in which await of the worker |
| `mailed`, `today` | the emails handed to the mail service, the date of the server |
| `issued` | how many tokens were made: they are 1, 2, ... |
| `abandoned`, `flagFailed`, `lost` | history: what failed |

`CreateCommit`, `Publish`, `PublishLost` are the end of `createUsers`: the job
is published after the commit, with `attempts: 3`. `TakeJob`, `JobMail`,
`JobMailFails`, `JobFlag`, `JobFindsNobody`, `JobFlagFails` are the worker, the
integration event handlers behind it included; an error anywhere fails the whole
attempt, so that a flag that cannot be set repeats the email. `JobCrash` and
`JobUnstall` are a worker that dies and BullMQ's stalled-job check (external;
its default of one stall).

`CheckToken`, `Lookup`, `Activate`, `Reissue`, `HandlerMail`, `HandlerFlag` are
`verifyUsers`: the token is looked up and its date compared before the
transaction, which then looks for the user again by identifier only. A reissued
token is mailed by the request itself, after the commit and with no queue, and
it is the token of the user that the cache refresh returned
(`V1/verifyUsers/endpoints/index.ts:249`, `:270`). `Returned` is that user: the
cached copy when it has the version just written, else what was written. A
transaction that is rolled back after its refresh leaves such a copy behind
(`RolledBack`), and the next one of the same version mails its token and
answers 200; when that one was an activation the token is null and the email
fails its validation.

An error of a service inside the transaction returns without a rollback (`:201`,
`:233`): before the update it leaves nothing (`HandlerGivesUp`), after it the row
stays locked and written on the released connection (`LeftOpen`). Whoever gets
that connection goes on in it: a request of this user (`Lookup`, with `heir`), or
one about something else, which rolls it back or commits it (`Elsewhere`). The
flag update asks for SERIALIZABLE, which fails on such a connection, and
otherwise waits for the row (`CanLock`, `CanFlag`).

A step for a transaction is enough because the row lock serialises the writers
from the update on, and the one read before it, a step of its own (`Lookup`),
gives the request only the identifiers of the rows. Reads of an active user may
fill `cached` as well; they are left out. The copy they put there is committed,
and a writer replaces it as it does any copy of another version, or it is of a
transaction left open, which may have put it there itself. A copy behind the row
counts as replaced for the same reason.

One user suffices: every process runs its own worker and jobs of two users
share nothing. The mail service is a stub in the source (it waits and logs);
the model keeps the error path that its callers have for it.

| run | instance | shows |
|---|---|---|
| `email_job` | 2 requests, 3 tokens, 2 days, every fault | `TypeOK`, `IInv`, `StrandedOnlyByLoss`, `EachStrayIsPaid`, `MailsBounded`, `RepeatsHaveACause`, `FlagTellsMail`, `EveryJobEnds`, `EveryTokenIsMailed` |

A request *strays* when it mails another token than the one it committed.
`EachStrayIsPaid`: every stray has an abandoned transaction of its own; the copy
one leaves misleads the next update of the row and no later one. The others name
strays among their causes: a token may be unmailed because its request strayed,
and mailed once more by each request that strayed to it.

The faults need no bound: the job has three attempts and one stall, each request
fails once. Two requests are enough for one to abandon and one to stray, and for
a race on one token; two days let the first token expire, and both requests
replace it. The theorems cover any number of them. Fairness: weak, on
the publication, on the worker (each process starts one, and it takes a job
whenever it is free) and on every request under way; failures, crashes, days and
the connection's next user (`Elsewhere`) are never forced. That is why
`EveryJobEnds` excuses a row that stays locked for ever: the leaked connection
may stay in the pool. The code keeps no record of a token whose request died
after its commit, so `EveryTokenIsMailed` excuses exactly those tokens, those of
strays, and a job that was given up. The bound `MaxToken` stops `Reissue`; a
request may then still give up. Deadlock checks are off, since every request
ends.

## TokenRotation

The refresh token of one signed-in user. `signIn` cannot sign anybody in, so the
user comes with a token, as in the data of the tests.

| variable | code |
|---|---|
| `db`, `redis`, `lock`, `tx` | the row with `keys.refresh_token`, its two keys in Redis, the row lock, what open transactions wrote |
| `presented`, `signed` | the `refreshToken` of the request, the one signed for its answer |
| `replays`, `causes` | history: the rotations given a spent token; what went wrong |

`Lookup` is everything up to the signature, one step because after the get of
the client id key nothing shared is read: `IsValidJwtAndRefreshTokenService`
compares the token with this copy. `Write`, `Refresh`, `Commit`, `Answer` follow
the handler; `Fail` is each of its error returns, the catch block and a dead
process, which all roll back; `AnswerLost` is an answer that does not arrive.
The readers are reads by identifier, which fill the same keys.

A token is a signature over the user, the role and the time in seconds, so it
is modelled as the second it was signed in, and time does not go back. Both
tokens are only decoded (`userTokenProvider.service.ts`), and
`refresh_Token_expires_at` is stored and never read, so an expiry has no part.

What the properties say is what the code promises and no more; each exception
is a way to break it which the model has:

- `LiveTokenIsHeld`: the client always has the token of the row, or it is in an
  answer under way. A rotation that fails signs a token that is never the row's.
  The exception is an answer lost after the commit: the client is locked out.
- `ComparedCopyIsCurrent`: the copy compared with is the row, or the row of a
  transaction at its commit. The exceptions are a rotation abandoned after its
  cache refresh (the next one writes the same version and takes the abandoned
  copy for a hit), a reader that fills the key late, and a set that failed.
- `ReplayIsRefused`: a token that was spent when it came is never rotated. The
  exceptions are those, and two tokens signed in one second, which are equal:
  the spent token is the live one again.

| run | instance | shows |
|---|---|---|
| `token_rotation` | 3 rotations, 1 reader, 4 seconds, both symmetric | `TypeOK`, `IInv`, `LiveTokenIsHeld`, `ComparedCopyIsCurrent`, `ReplayIsRefused` |

Three rotations let one be abandoned, one take its version and one replay; with
four seconds each may have its own. Keys do not expire in Redis, and their loss
is an initial state.

## ConnectionPool

What the handlers do with connections, for one user's row and any number of
others.

| variable | code |
|---|---|
| `kind`, `pc`, `left` | the handler, where it is, the queries it makes outside its queryRunner |
| `main`, `extra` | the connection of the queryRunner; the one of such a query or of the handler of a published event |
| `lock`, `open` | the connection whose transaction has the row; those released with their transaction open |

Every handler but the reads connects its queryRunner on the first line and
releases it in its finally block. `verifyUsers` looks the token up without it
(`V1/verifyUsers/endpoints/index.ts:168`) and publishes an event before it
releases it (`:276`), `deactivateUser` reads the user without it (`:178`); these
ask the pool for one connection with another in hand. `Begin` leads to `write`,
which needs the row lock, or to `inTx` for the transactions on other rows.
`Forget` is the error returns inside the transaction with no rollback, `:201`
and `:233` of the first, `:231` and `:263` of the second. The pool (external,
the `pg` pool of TypeORM) hands a free connection to anybody that asks; it has no
acquire timeout by default, and none is configured in the repository. `signIn`
never comes to its transaction.

| run | instance | shows |
|---|---|---|
| `connection_pool` | 3 requests of any kind, 2 connections | `TypeOK`, `IInv`, `HaltCause`, `EveryRequestEnds` |

`HaltCause` says the service can come to a halt in two ways: the pool is full of
handlers that ask for a second connection, or the row lock went back to the pool
with its transaction. Both are reached. What it excludes is a cycle through the
pool and the row lock: no holder of the lock needs the pool. Two connections
and three requests are enough for each: two that nest exhaust it, one that
leaks and two that wait for the lock halt as well. Fairness: weak on each
handler. The pool serves in order; each request runs once, so weak fairness
gives no request more than that does. Deadlock is off, since a halt is what the
run is about.

## RequestReply

The helper classes for a request over RabbitMQ; the program registers no
consumer with them yet. `sendAsync` registers one more consumer on the queue
`reply_queue` for each request and never cancels it. A reply the broker hands to
the consumer of another request is neither used nor acknowledged: it comes back
to the queue only when the channel of that consumer closes.

| variable | code |
|---|---|
| `pc`, `home` | the promise of each request, the process that waits for it |
| `sends`, `out` | how often a request was sent; whether the last message is on its way, with the broker but not confirmed, or forgotten by the channel |
| `work` | each request message: queued (or in the callback), handled, acknowledged |
| `at` | where each copy of a reply is: in the queue, acknowledged, or unacknowledged with a consumer |
| `crashes` | the crashes of the serving side |

`Send` and `Deliver` are `sendAsync` and its callback, `Reply`,
`HandlerFails`, `Ack` the callback of `startConsumerAsync`, which acknowledges
whether the handler threw or not. A message in the callback is not told from one
in the queue, to which it returns if the channel closes. The rest is
the broker and `amqp-connection-manager`, external. Requests go out on a confirm
channel (`request/index.ts:12`, `:45`): `Publish` brings a message to the queue,
`Confirm` brings the confirmation, and until then the channel keeps the message.
When the connection is lost, `Reconnect` opens the channel again with its
consumers, what was not acknowledged is delivered again, and what was not
confirmed is sent again: a second message for one request. `Restart` and
`ServerCrash` are the ends of the two processes.

| run | instance | shows |
|---|---|---|
| `request_reply` | 2 requests, 2 processes (the same or not), one of the requests sent up to twice, 1 crash, any number of lost channels | `IInv` (with its `TypeOK`), `ReplyIsKept`, `RepliesBounded`, `ImplementsRemoteCall`, `EveryRequestSettles` |

`ReplyIsKept`: until its request has one, each reply is in the queue or in the
hands of a live consumer. `RepliesBounded`: a request is replied to once for
every time it was sent, and each time once more only for a crash of the serving
side, however often its replies are delivered. `ImplementsRemoteCall` maps the promises to themselves and the replies
to the requests the serving side has answered: `RemoteCall` has no queue,
consumer, channel or acknowledgement, and in it a promise resolves at most once,
after an answer to its own request, and is lost with its process only.
`EveryRequestSettles` gives the three ways to wait for
ever: the process ended, the handler failed, the reply was taken away and no
channel closes again. Two requests are what it takes to take a reply away, and
a crash or a second message gives it a second copy. The instance lets one of
them be sent twice (`Sends`), and names the process of the first request, since
processes are alike. Fairness: weak, on what is sent, on the delivery of each
reply and on the serving side; nothing forces a channel to close or a
confirmation to come.

## What is proved

`UserCacheProofs` proves, for any sets of handlers, addresses, operations and
faults (from the assumptions on the constants: the names of keys and of
non-handlers are not reused), that `IInv` is inductive, and from it

- `TypeCorrect`, `VersionsAreUnique`, `ReadsAreFresh`, `DirtyReadsAreOfFailed`.

The argument: a transaction that has written holds the row lock and is ahead of
the committed row (`OpenWriteHoldsLock`), so the version it commits is new,
even when it was leaked and inherited in between (`OpenWriteAuthor`). Every
copy, in Redis or in a handler's hands, is committed, or given up by a handler
that failed, or exactly what its writer is about to commit (`Provenance`). A
read accepts a copy whose version a query has just seen; the copy of a
transaction still running is ahead of the committed version, so it is accepted
only if that transaction has been leaked. There is one lemma per action and in
it one step per conjunct of `IInv`.

`UserCacheRefinement` proves `Refinement`: `Spec => ImplementsVersionedUser`. A
commit is the abstract one because `IInv` has the version of an open write one
ahead of the row, and because nobody's row is committed twice (`OneRowEach`,
theorem `CommitsAreUnique`: a handler has at most one committed row, does not
work again after it, and an open row is of a handler that has none, also when it
was leaked and is committed by another: that is a late commit of the client that
wrote it). An error answer is `GiveUp`, which says nothing about the commit; a
read answers with `ReadAnswers`, the part of `IInv` about what it has in hand.
All the other steps change nothing of the abstract user.

`UserCacheWriters` proves what the writers leave behind, each theorem under the
faults that cannot break it and for any handlers and addresses. Two lemmas come
first: a step of a handler has one of nine shapes (`StepShape`), and while no
written row is leaked only a commit changes the row (`OnlyCommitChangesRow`).

- `LockIsNotOrphaned`: `LockIsReturned`, with all faults and leaks.
- `CacheEndsFresh`: `QuiescentCacheIsFresh`, while no Redis call fails and no
  operation is a bare read. Until the refresh of a writer reaches Redis nobody
  has a copy of its row (`OwnRowUnseen`), so it cannot take an old key for a hit
  and always loads. Once everybody at work has written, it is alone at work, for
  the row lock has one owner, and each of its sets stays (`RefreshReachesKeys`);
  before that a handler that looks the user up outside its transaction may still
  put an older row back, but it writes later and refreshes the keys itself. A
  service that fails ends its handler with an error, which
  `QuiescentCacheIsFresh` excuses.
- `TokenWritersAreHarmless`: `TokenWritersKeepStatus`, under `LeaksCarryNoRow`:
  the error returns that forget their rollback do so before the row is
  written. Otherwise the next handler commits the row the leaked one
  wrote, whatever its own operation is. With no written row leaked, what is
  about to be committed belongs to its handler (`OwnWrites`), which read the
  status under the lock (`OthersKeepStatus`); `CreatedFirst` keeps the creation
  apart, whose status comes from nowhere.
- `RacesAreInvisible` and `UpdateIsHarmlessAlone` delimit two findings: without
  failures no interleaving shows a row that is rolled back, so
  `cache_dirty_read` needs a handler that fails; without failures and without a
  deactivation no update activates anybody, so `cache_reactivate` needs that
  race. The first rests on `CleanCopies` (each copy is committed or will be), the
  second on `ActiveStays` (a user that was active once is active).

`cache_writers` checks `WritersInv`, the conjunction of these invariants but
`ActiveStays`, which its deactivations break; `WritersInductive` proves it
without failures.

`TokenRotationProofs` proves the five invariants of `token_rotation` for any
rotations, readers and number of seconds. `IInv` has the row's author
(`RowAuthor`), the one open transaction (`Transactions`), where the keys can
be behind or ahead of the row (`CopiesAreCurrent`), and that with one token a
second no token on its way to the row was spent (`TokensAreFresh`).

`ConnectionPoolProofs` proves `HaltHasCause` for any requests and any pool. No
connection is in two hands (`OwnConnections`); a connection that has the lock is
in the hands of a transaction under way, which then has a step to take, or was
released with it open (`Transactions`); so in a halt nobody is in a transaction
but those that wait for a lock that nobody holds, or all wait for the pool.

`RequestReplyProofs` proves `RepliesAreKept` for any requests, processes, sends
and crashes, from `WhereReplies`: an acknowledged reply reached its own request,
an unacknowledged one is with a live consumer of another. `RepliesAreBounded`
counts the copies of a reply to each message: one is added only by `Reply`,
which takes the message from the state to which only a crash can return it; and
`SentFirst` has that a message is one of the times its request was sent, so that
a request sent again gets a message nobody has worked on. `Refinement` proves
`ImplementsRemoteCall`: `Send`, `Reply`, the delivery to the right consumer and
`Restart` are the four abstract steps; a second message, a second reply and
everything else is a stutter. By `SentFirst` nobody is answered who has not
asked.

`RedisConnectionProofs` proves, for any set of calls and whether connections drop
or not, `TypeCorrect`, `NoCommandIsForgotten` (`CommandsAreAnswerable`, from
`OpenedOnce`: a call that has not begun has no client) and `FlagIsOfSomeClient`
(`FlagErrsByOthers`: every event that turns the flag is of a client in a state
that explains it); and, when connections do
not drop, `HarmNeedsOverlap` (`OnlyOverlapsHarm`), from an
invariant that follows each connection along its call.

`VerificationEmailProofs` proves, for any handlers and any bounds,
`TypeCorrect`, `NoTokenVanishes`, `StraysArePaid`, `RetriesAreBounded`,
`RepeatsAreExplained` and
`FlagIsTrue`, the safety properties of `email_job`. None of them is inductive: they
speak of the quiet moments, or of totals. `IInv` says who is responsible in
between: `Paid` (a copy ahead of the row, or a transaction left open, is one
abandoned transaction that nobody has strayed on yet), `LeftIsAhead` (what was
left open is newer than the row and made from it), `TokensInOrder` (no token is of two requests), `Accounted` (a token not
mailed is held by a request, by
the creator or by the job, or is lost, or its request strayed), `MailsAreCounted`
(each email of the
first token is paid for by a failed attempt or a stall, plus the attempt under
way, that of a later one by its own request, and the rest by strays),
`RepeatsAccounted` and `SentAfterMail` (a job that comes back after its
email has a cause; a missing flag has somebody at work on it).

Every invariant, action property and refinement that a passing run checks is
proved. Only model-checked: the liveness properties `EveryRequestAnswered`,
`EveryCallEnds`, `EveryJobEnds`, `EveryTokenIsMailed`, `EveryRequestEnds` and
`EveryRequestSettles`, since liveness under fairness is out of the proof system's
reach, and the three violations.

## Not modelled

- Startup (`server.ts`, `app.ts`): one sequence of awaits in `listen`, after the
  port is open. It shares no state with a request but the database, which is in
  `mma_db`. Read, not checked: `server.ts:16` evaluates `initializeDatabase`
  without calling it, and `app.ts:156` then logs "Database initialized"; the
  consumers are guarded by the `length` of a bound function without parameters
  (`app.ts:164`, `:186`), which is 0, so they never run. The models take the
  database to be up, as the tests set it up.
- What nothing in the program uses: publish/subscribe, the saga, the paged list.
- The request pipeline: guards before a handler that change no state. A handler
  of the models is a request that passed them.
- The rest of `signIn` behind
  `V1/signIn/endpoints/services/mapEntity/index.ts:32`, a service that is never
  constructed: it is not reached.
- Cryptography, logging, transport, the content of the pages of `getUsers`.

Abstracted: the five tables of a user are one row with one lock, so deadlocks
between their lock orders, which PostgreSQL breaks by aborting one transaction,
appear as `Abort` and `Fail`; the expiry date of a verification token is, in
`UserCache`, a free choice between `verify` and `reissue` (`VerificationEmail`
has the date).
