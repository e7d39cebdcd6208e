------------------------------ MODULE RequestReply ------------------------------
(***************************************************************************)
(* Request and reply over RabbitMQ.  Every request registers a consumer of *)
(* its own on the one reply queue, for good, and resolves on the reply     *)
(* with its correlation id; a reply with another one it neither handles    *)
(* nor acknowledges.  The serving side replies, then acknowledges the      *)
(* request.  Unacknowledged messages return to their queue when a channel  *)
(* closes.                                                                 *)
(*                                                                         *)
(* The requests go out on a confirm channel that is opened again when its  *)
(* connection is lost, and sends again what the broker had not confirmed:  *)
(* the broker may then have the request twice.                             *)
(***************************************************************************)
EXTENDS Integers, FiniteSets

CONSTANTS
    Requests,  \* the correlation ids, each used once
    Processes, \* the instances that send requests
    MaxSends,  \* bound: how often each request is sent
    MaxCrashes \* bound: the crashes of the serving side in a behaviour

ASSUME RequestsAssumption == {"none", "queue", "acked"} \cap Requests = {}
ASSUME MaxSendsAssumption == MaxSends \in [Requests -> Nat \ {0}]
ASSUME MaxCrashesAssumption == MaxCrashes \in Nat

VARIABLES
    pc,     \* the promise of each request
    home,   \* the process that sent it
    sends,  \* how often it was sent
    out,    \* what its channel still has of it: a message on its way, or one that
            \* the broker has and has not confirmed
    work,   \* where each request message is
    at,     \* where each copy of its reply is: nowhere yet, in the reply queue,
            \* acknowledged, or unacknowledged with the consumer of a request
    crashes

channel == <<sends, out>>
vars == <<pc, home, channel, work, at, crashes>>

-----------------------------------------------------------------------------
\* A message for each time a request is sent; one served again after a crash is
\* replied to again.
Messages == UNION {{r} \X (1 .. MaxSends[r]) : r \in Requests}
Replies == Messages \X (1 .. MaxCrashes + 1)

Of(m) == m[1][1]
Latest(r) == <<r, sends[r]>>

Consuming(c) == pc[c] \in {"waiting", "resolved"}
Replied(r) == \E m \in Replies : Of(m) = r /\ at[m] # "none"

Init ==
    /\ pc = [r \in Requests |-> "idle"]
    /\ home \in [Requests -> Processes]
    /\ sends = [r \in Requests |-> 0]
    /\ out = [r \in Requests |-> "none"]
    /\ work = [w \in Messages |-> "none"]
    /\ at = [m \in Replies |-> "none"]
    /\ crashes = 0

-----------------------------------------------------------------------------
(* The requesting side. *)

\* sendAsync: the consumer, then the message.
Send(r) ==
    /\ pc[r] = "idle"
    /\ pc' = [pc EXCEPT ![r] = "waiting"]
    /\ sends' = [sends EXCEPT ![r] = 1]
    /\ out' = [out EXCEPT ![r] = "sending"]
    /\ UNCHANGED <<home, work, at, crashes>>

\* The broker gets the message.
Publish(r) ==
    /\ out[r] = "sending"
    /\ out' = [out EXCEPT ![r] = "published"]
    /\ work' = [work EXCEPT ![Latest(r)] = "queued"]
    /\ UNCHANGED <<pc, home, sends, at, crashes>>

\* The channel gets the broker's confirmation, and forgets the message.
Confirm(r) ==
    /\ out[r] = "published"
    /\ out' = [out EXCEPT ![r] = "none"]
    /\ UNCHANGED <<pc, home, sends, work, at, crashes>>

\* Mutant: the acknowledgement is outside the comparison.
DeliverAcksAll(c, m) ==
    /\ at[m] = "queue" /\ Consuming(c)
    /\ at' = [at EXCEPT ![m] = "acked"]
    /\ pc' = IF Of(m) = c THEN [pc EXCEPT ![c] = "resolved"] ELSE pc
    /\ UNCHANGED <<home, channel, work, crashes>>

\* Mutant: a reply with another correlation id is rejected for good.
DeliverRejects(c, m) ==
    /\ at[m] = "queue" /\ Consuming(c)
    /\ at' = [at EXCEPT ![m] = IF Of(m) = c THEN "acked" ELSE "rejected"]
    /\ pc' = IF Of(m) = c THEN [pc EXCEPT ![c] = "resolved"] ELSE pc
    /\ UNCHANGED <<home, channel, work, crashes>>

\* Mutant: any reply resolves the promise of the consumer that gets it.
DeliverToAnyone(c, m) ==
    /\ at[m] = "queue" /\ Consuming(c)
    /\ at' = [at EXCEPT ![m] = "acked"]
    /\ pc' = [pc EXCEPT ![c] = "resolved"]
    /\ UNCHANGED <<home, channel, work, crashes>>

\* The broker hands a reply to any consumer of the queue.
Deliver(c, m) ==
    /\ at[m] = "queue" /\ Consuming(c)
    /\ IF Of(m) = c
         THEN at' = [at EXCEPT ![m] = "acked"] /\ pc' = [pc EXCEPT ![c] = "resolved"]
         ELSE at' = [at EXCEPT ![m] = c] /\ UNCHANGED pc
    /\ UNCHANGED <<home, channel, work, crashes>>

With(p, c) == c \in Requests /\ home[c] = p

\* The replies a process has not acknowledged, and the requests not confirmed to it.
Holds(p) == \E m \in Replies : With(p, at[m])
Unconfirmed(p) == {r \in Requests : With(p, r) /\ out[r] = "published"}

\* Mutant: the replies are consumed without acknowledgement.
ReconnectDrops(p) ==
    /\ Holds(p)
    /\ at' = [m \in Replies |-> IF With(p, at[m]) THEN "acked" ELSE at[m]]
    /\ UNCHANGED <<pc, home, channel, work, crashes>>

\* The connection of a process is lost. Its channel is opened again with all its
\* consumers, and sends again what was not confirmed.
Reconnect(p) ==
    /\ Holds(p) \/ Unconfirmed(p) # {}
    /\ at' = [m \in Replies |-> IF With(p, at[m]) THEN "queue" ELSE at[m]]
    /\ \A r \in Unconfirmed(p) : sends[r] < MaxSends[r]
    /\ sends' = [r \in Requests |-> IF r \in Unconfirmed(p) THEN sends[r] + 1 ELSE sends[r]]
    /\ out' = [r \in Requests |-> IF r \in Unconfirmed(p) THEN "sending" ELSE out[r]]
    /\ UNCHANGED <<pc, home, work, crashes>>

\* The process ends, its promises, consumers and unsent messages with it.
Restart(p) ==
    /\ \E c \in Requests : With(p, c) /\ Consuming(c)
    /\ pc' = [c \in Requests |-> IF With(p, c) /\ Consuming(c) THEN "lost" ELSE pc[c]]
    /\ out' = [c \in Requests |-> IF With(p, c) THEN "none" ELSE out[c]]
    /\ at' = [m \in Replies |-> IF With(p, at[m]) THEN "queue" ELSE at[m]]
    /\ UNCHANGED <<home, sends, work, crashes>>

-----------------------------------------------------------------------------
(* The serving side: the callback of startConsumerAsync. A request the callback *)
(* has is told from one in the queue by nothing until it was handled: it        *)
(* returns to the queue when the channel closes.                                *)

Reply(w) ==
    /\ work[w] = "queued"
    /\ work' = [work EXCEPT ![w] = "handled"]
    /\ \E m \in Replies :
        /\ m[1] = w /\ at[m] = "none"
        /\ \A n \in Replies : n[1] = w /\ n[2] < m[2] => at[n] # "none"
        /\ at' = [at EXCEPT ![m] = "queue"]
    /\ UNCHANGED <<pc, home, channel, crashes>>

\* The handler throws, or none is registered: logged, there is no reply.
HandlerFails(w) ==
    /\ work[w] = "queued"
    /\ work' = [work EXCEPT ![w] = "handled"]
    /\ UNCHANGED <<pc, home, channel, at, crashes>>

\* Mutant: the request is handed back after it was handled.
AckRequeues(w) ==
    /\ work[w] = "handled"
    /\ work' = [work EXCEPT ![w] = "queued"]
    /\ UNCHANGED <<pc, home, channel, at, crashes>>

Ack(w) ==
    /\ work[w] = "handled"
    /\ work' = [work EXCEPT ![w] = "done"]
    /\ UNCHANGED <<pc, home, channel, at, crashes>>

\* The serving process dies or loses its connection: what it had not
\* acknowledged returns to the queue.
ServerCrash ==
    /\ crashes < MaxCrashes
    /\ crashes' = crashes + 1
    /\ work' = [w \in Messages |-> IF work[w] = "handled" THEN "queued" ELSE work[w]]
    /\ UNCHANGED <<pc, home, channel, at>>

-----------------------------------------------------------------------------
Delivery(m) == \E c \in Requests : Deliver(c, m)
Server(w) == Reply(w) \/ HandlerFails(w) \/ Ack(w)

Next ==
    \/ \E r \in Requests : Send(r) \/ Publish(r) \/ Confirm(r)
    \/ \E w \in Messages : Server(w)
    \/ \E m \in Replies : Delivery(m)
    \/ \E p \in Processes : Reconnect(p) \/ Restart(p)
    \/ ServerCrash

\* What is sent reaches the broker, the broker delivers what is in the queue and
\* the serving side goes on; nothing says that a connection is ever lost.
Fairness ==
    /\ \A r \in Requests : WF_vars(Publish(r))
    /\ \A m \in Replies : WF_vars(Delivery(m))
    /\ \A w \in Messages : WF_vars(Server(w))

Spec == Init /\ [][Next]_vars /\ Fairness

-----------------------------------------------------------------------------
TypeOK ==
    /\ pc \in [Requests -> {"idle", "waiting", "resolved", "lost"}]
    /\ home \in [Requests -> Processes]
    /\ sends \in [Requests -> Nat] /\ \A r \in Requests : sends[r] <= MaxSends[r]
    /\ out \in [Requests -> {"none", "sending", "published"}]
    /\ work \in [Messages -> {"none", "queued", "handled", "done"}]
    /\ at \in [Replies -> {"none", "queue", "acked"} \cup Requests]
    /\ crashes \in 0 .. MaxCrashes

\* Every copy of a reply is somewhere it can still come from, until its own
\* request has had one or has gone.
WhereReplies ==
    \A m \in Replies :
        /\ at[m] = "acked" => pc[Of(m)] \in {"resolved", "lost"}
        /\ at[m] \in Requests => at[m] # Of(m) /\ Consuming(at[m])

\* What is worked on was sent, and what is sent again is a message of its own.
SentFirst ==
    /\ \A r \in Requests : pc[r] = "idle" => sends[r] = 0
    /\ \A r \in Requests : out[r] # "none" => pc[r] # "idle" /\ sends[r] # 0
    /\ \A w \in Messages : work[w] # "none" => w[2] <= sends[w[1]]
    /\ \A r \in Requests : out[r] = "sending" => work[Latest(r)] = "none"

\* A request is replied to once for every time it was sent, and once more only
\* for a crash of the serving side; it is sent again only when the connection is
\* lost before the broker's confirmation. No delivery, closed channel or restart
\* makes another reply.
Copies(w) == {m \in Replies : m[1] = w /\ at[m] # "none"}
RepliesBounded ==
    \A w \in Messages :
        /\ Copies(w) # {} => w[2] <= sends[w[1]]
        /\ Cardinality(Copies(w)) <= crashes + IF work[w] \in {"handled", "done"} THEN 1 ELSE 0

IInv ==
    /\ TypeOK
    /\ WhereReplies
    /\ SentFirst
    /\ RepliesBounded

\* A reply is in the hands of a consumer that will not use it.
TakenAway(r) == \E m \in Replies : Of(m) = r /\ at[m] \in Requests \ {r}

\* No reply is lost while its request waits: it is in the queue, or returns to
\* it when the channel of the consumer that took it away closes.
ReplyIsKept ==
    \A r \in Requests : pc[r] = "waiting" /\ Replied(r) =>
        \/ \E m \in Replies : Of(m) = r /\ at[m] = "queue"
        \/ \E m \in Replies : Of(m) = r /\ at[m] \in Requests \ {r} /\ Consuming(at[m])

\* The queue, the consumers, the channels and the processes together are a
\* remote call: no promise resolves with the reply of another, or twice.
Promise == INSTANCE RemoteCall WITH
    promise <- pc, answered <- {r \in Requests : Replied(r)}
ImplementsRemoteCall == Promise!Spec

\* Whatever was sent for a request has been served.
Served(r) == work[Latest(r)] = "done" /\ \A w \in Messages : w[1] = r => work[w] \in {"none", "done"}

\* A request resolves, unless its process ends, its handler fails every time or
\* its reply is taken away.
EveryRequestSettles ==
    \A r \in Requests :
        pc[r] = "waiting" ~> pc[r] # "waiting" \/ (Served(r) /\ ~Replied(r)) \/ TakenAway(r)

================================================================================
