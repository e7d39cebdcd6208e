---------------------------- MODULE RedisConnection ----------------------------
(***************************************************************************)
(* RedisHelper: one object, shared by every request of the process, that   *)
(* holds one client and one isConnected flag.  Every call of a cache       *)
(* service opens a client of its own and puts it in the shared field;      *)
(* UserSharedCacheService closes whatever client the field holds when it   *)
(* is done, the lookups by client id and by email close nothing.           *)
(*                                                                         *)
(* A step is what runs between two returns to the event loop: what a       *)
(* service does when a reply arrives, up to its next await on the network. *)
(* The client a call opens has the name of the call.                       *)
(***************************************************************************)
EXTENDS Integers

CONSTANTS
    Calls,   \* the calls of the cache services, each runs once
    Lookups, \* those by client id or email: they get and never disconnect
    Drops    \* whether connections are lost and attempts to connect fail, a BOOLEAN

ASSUME LookupsAssumption == Lookups \subseteq Calls
ASSUME DropsAssumption == Drops \in BOOLEAN

VARIABLES
    client,      \* this.client, {} while it is undefined
    isConnected, \* this.isConnected
    conn,        \* the state of the client each call opened
    pc,          \* where each call is
    on,          \* the client its command in flight was sent on
    sets,        \* how many sets it still has to make
    skipped,     \* history: the calls that skipped sets and answered Ok
    disturbed,   \* history: the calls during which another one disconnected
    overlapped   \* history: some call started while another was running

vars == <<client, isConnected, conn, pc, on, sets, skipped, disturbed, overlapped>>

-----------------------------------------------------------------------------
Sending == {"get", "set"}
Active == {"connecting", "query"} \cup Sending
Ended == {"answered", "failed"}

\* The commands in flight on client x: they are rejected when it goes.
Waiting(x) == {k \in Calls : pc[k] \in Sending /\ on[k] = x}

Live(x) == conn[x] \in {"ready", "lost"}

Running == {k \in Calls : pc[k] \in Active}

Init ==
    /\ client = {}
    /\ isConnected = FALSE
    /\ conn = [c \in Calls |-> "none"]
    /\ pc = [c \in Calls |-> "idle"]
    /\ on = [c \in Calls |-> c]
    /\ sets = [c \in Calls |-> 0]
    /\ skipped = {}
    /\ disturbed = {}
    /\ overlapped = FALSE

-----------------------------------------------------------------------------
\* Mutants: the flag alone is cleared; the commands in flight are forgotten, not
\* rejected.
DisconnectFlagOnly(c, result) ==
    /\ pc' = [pc EXCEPT ![c] = result]
    /\ isConnected' = (c \in Lookups /\ isConnected)
    /\ UNCHANGED <<conn, disturbed>>

DisconnectForgetting(c, result) ==
    IF ~isConnected \/ c \in Lookups
      THEN /\ pc' = [pc EXCEPT ![c] = result]
           /\ UNCHANGED <<isConnected, conn, disturbed>>
      ELSE \E x \in client :
             /\ conn' = [conn EXCEPT ![x] = "closed"]
             /\ isConnected' = FALSE
             /\ pc' = [pc EXCEPT ![c] = result]
             /\ disturbed' = disturbed \cup (Running \ {c})

\* The finally block of UserSharedCacheService; client.disconnect() emits 'end',
\* and throws when the client is closed already. Others' commands on the client
\* are rejected, and their own disconnect finds isConnected unset.
Disconnect(c, result) ==
    IF ~isConnected \/ c \in Lookups
      THEN /\ pc' = [pc EXCEPT ![c] = result]
           /\ UNCHANGED <<isConnected, conn, disturbed>>
      ELSE \E x \in client :
             IF Live(x)
               THEN /\ conn' = [conn EXCEPT ![x] = "closed"]
                    /\ isConnected' = FALSE
                    /\ pc' = [k \in Calls |-> IF k = c THEN result
                                              ELSE IF k \in Waiting(x) THEN "failed" ELSE pc[k]]
                    /\ disturbed' = disturbed \cup (Running \ {c})
               ELSE /\ pc' = [pc EXCEPT ![c] = "failed"]
                    /\ UNCHANGED <<isConnected, conn, disturbed>>

\* RedisHelper.set, and the Err of a set that UserSetCacheService logs and
\* swallows.
Send(c, n) ==
    /\ sets' = [sets EXCEPT ![c] = n]
    /\ IF ~isConnected
         THEN /\ skipped' = skipped \cup {c}
              /\ Disconnect(c, "answered")
              /\ UNCHANGED on
         ELSE \E x \in client :
                /\ UNCHANGED skipped
                /\ IF Live(x)
                     THEN /\ pc' = [pc EXCEPT ![c] = "set"]
                          /\ on' = [on EXCEPT ![c] = x]
                          /\ UNCHANGED <<isConnected, conn, disturbed>>
                     ELSE /\ Disconnect(c, "failed")
                          /\ UNCHANGED on

-----------------------------------------------------------------------------
\* init: a new client each time, whatever this.client is.
StartCall(c) ==
    /\ pc[c] = "idle"
    /\ pc' = [pc EXCEPT ![c] = "connecting"]
    /\ conn' = [conn EXCEPT ![c] = "connecting"]
    /\ overlapped' = (overlapped \/ Running # {})
    /\ UNCHANGED <<client, isConnected, on, sets, skipped, disturbed>>

\* Mutant: 'ready' does not set the flag.
ConnectedWithoutFlag(c) ==
    /\ pc[c] = "connecting"
    /\ conn' = [conn EXCEPT ![c] = "ready"]
    /\ client' = {c}
    /\ pc' = [pc EXCEPT ![c] = "get"]
    /\ on' = [on EXCEPT ![c] = c]
    /\ UNCHANGED <<isConnected, sets, skipped, disturbed, overlapped>>

\* 'ready' sets the flag, connect() resolves, the field is overwritten and the
\* get goes out on the new client.
Connected(c) ==
    /\ pc[c] = "connecting"
    /\ conn' = [conn EXCEPT ![c] = "ready"]
    /\ isConnected' = TRUE
    /\ client' = {c}
    /\ pc' = [pc EXCEPT ![c] = "get"]
    /\ on' = [on EXCEPT ![c] = c]
    /\ UNCHANGED <<sets, skipped, disturbed, overlapped>>

\* A lookup is done with its one answer, the cache service goes to the database.
GetReply(c) ==
    /\ pc[c] = "get" /\ conn[on[c]] = "ready"
    /\ pc' = [pc EXCEPT ![c] = IF c \in Lookups THEN "answered" ELSE "query"]
    /\ UNCHANGED <<client, isConnected, conn, on, sets, skipped, disturbed, overlapped>>

\* The row version is the cached one.
CacheHit(c) ==
    /\ pc[c] = "query"
    /\ Disconnect(c, "answered")
    /\ UNCHANGED <<client, on, sets, skipped, overlapped>>

\* The user is not found.
QueryFails(c) ==
    /\ pc[c] = "query"
    /\ Disconnect(c, "failed")
    /\ UNCHANGED <<client, on, sets, skipped, overlapped>>

\* The user is loaded: three keys to set.
QueryLoads(c) ==
    /\ pc[c] = "query"
    /\ Send(c, 3)
    /\ UNCHANGED <<client, overlapped>>

\* Mutant: one set too many.
SetReplyOffByOne(c) ==
    /\ pc[c] = "set" /\ conn[on[c]] = "ready"
    /\ IF sets[c] >= 0
         THEN Send(c, sets[c] - 1)
         ELSE /\ Disconnect(c, "answered")
              /\ UNCHANGED <<on, skipped, sets>>
    /\ UNCHANGED <<client, overlapped>>

SetReply(c) ==
    /\ pc[c] = "set" /\ conn[on[c]] = "ready"
    /\ IF sets[c] > 1
         THEN Send(c, sets[c] - 1)
         ELSE /\ sets' = [sets EXCEPT ![c] = 0]
              /\ Disconnect(c, "answered")
              /\ UNCHANGED <<on, skipped>>
    /\ UNCHANGED <<client, overlapped>>

-----------------------------------------------------------------------------
\* The server closes a connection: 'error' clears the flag, whichever client it
\* is of, and the commands in flight are rejected.
Drop(x) ==
    /\ Drops
    /\ conn[x] = "ready"
    /\ conn' = [conn EXCEPT ![x] = "lost"]
    /\ isConnected' = FALSE
    /\ pc' = [k \in Calls |-> IF k \in Waiting(x) THEN "failed" ELSE pc[k]]
    /\ UNCHANGED <<client, on, sets, skipped, disturbed, overlapped>>

\* A client that connects, or connects again, is refused and tries again: 'error'.
ConnectError(x) ==
    /\ Drops
    /\ conn[x] \in {"connecting", "lost"}
    /\ isConnected' = FALSE
    /\ UNCHANGED <<client, conn, pc, on, sets, skipped, disturbed, overlapped>>

\* The client reconnects by itself: 'ready' again.
Reconnect(x) ==
    /\ conn[x] = "lost"
    /\ conn' = [conn EXCEPT ![x] = "ready"]
    /\ isConnected' = TRUE
    /\ UNCHANGED <<client, pc, on, sets, skipped, disturbed, overlapped>>

-----------------------------------------------------------------------------
Answer(c) ==
    \/ Connected(c) \/ GetReply(c)
    \/ CacheHit(c) \/ QueryFails(c) \/ QueryLoads(c) \/ SetReply(c)

Next == \E c \in Calls : StartCall(c) \/ Answer(c) \/ Drop(c) \/ ConnectError(c) \/ Reconnect(c)

Spec == Init /\ [][Next]_vars

\* Redis and PostgreSQL answer, and node runs the continuation.
FairSpec == Spec /\ \A c \in Calls : WF_vars(Answer(c)) /\ WF_vars(Reconnect(c))

-----------------------------------------------------------------------------
TypeOK ==
    /\ client = {} \/ \E c \in Calls : client = {c}
    /\ isConnected \in BOOLEAN
    /\ conn \in [Calls -> {"none", "connecting", "ready", "lost", "closed"}]
    /\ pc \in [Calls -> {"idle"} \cup Active \cup Ended]
    /\ on \in [Calls -> Calls]
    /\ sets \in [Calls -> 0 .. 3]
    /\ skipped \in SUBSET Calls
    /\ disturbed \in SUBSET Calls
    /\ overlapped \in BOOLEAN

\* Some client in the field can be used.
Usable == \E x \in client : conn[x] = "ready"

\* The events of every client write the one flag. It misleads only through the
\* others: it is set over a client that is gone ("Redis Client Not Connected" is
\* not said) while another works, and unset over one that works while another
\* is trying to connect.
FlagErrsByOthers ==
    /\ isConnected /\ ~Usable => \E x \in Calls \ client : conn[x] = "ready"
    /\ ~isConnected /\ Usable => \E x \in Calls \ client : conn[x] \in {"connecting", "lost"}

\* A call that fails in Redis, or that leaves keys unset and answers Ok, was
\* disturbed: another call disconnected while it ran. Calls one at a time
\* never are.
OnlyOverlapsDisturb ==
    /\ disturbed # {} => overlapped
    /\ \A c \in Calls : c \in skipped \/ (pc[c] = "failed" /\ c \in Lookups) => c \in disturbed

\* With one call at a time the only connections nobody closes are the lookups'.
OnlyLookupsLeak ==
    Running = {} /\ ~overlapped => \A x \in Calls : Live(x) => x \in Lookups

\* Only overlapping calls do harm, to each other or by what they leave open.
OnlyOverlapsHarm == OnlyOverlapsDisturb /\ OnlyLookupsLeak

-----------------------------------------------------------------------------
(* The inductive invariant behind the harm of overlaps, when no connection drops. *)

\* Without errors the flag tells whether the client in the field can be used.
FlagTellsTheClient == isConnected <=> Usable

\* The connection of a call follows its steps: nothing is opened twice.
Phases ==
    \A c \in Calls :
        /\ pc[c] = "idle" <=> conn[c] = "none"
        /\ pc[c] = "connecting" <=> conn[c] = "connecting"
        /\ conn[c] # "lost"
        /\ pc[c] \in {"query", "set"} => c \notin Lookups
        /\ client = {c} => conn[c] \in {"ready", "closed"}

\* A call past its connection that finds the flag unset has been disturbed.
UnsetMeansDisturbed ==
    \A c \in Calls : pc[c] \in {"query"} \cup Sending /\ ~isConnected => c \in disturbed

\* Two calls at work overlap.
TwoOverlap == \A a, b \in Running : a # b => overlapped

\* One at a time, the connection of a cache call is the shared one while it runs.
SerialOwnsClient ==
    ~overlapped => \A x \in Calls \ Lookups :
        Live(x) => x \in Running /\ client = {x} /\ isConnected

IInv ==
    /\ TypeOK
    /\ Phases
    /\ FlagTellsTheClient
    /\ UnsetMeansDisturbed
    /\ OnlyOverlapsDisturb
    /\ TwoOverlap
    /\ SerialOwnsClient

-----------------------------------------------------------------------------
(* What every call's end rests on, connections that drop included.          *)

\* No command is in flight on a closed client: closing it rejects what is in
\* flight, and nothing is sent on it afterwards, whoever overwrites the field.
CommandsAreAnswerable == \A c \in Calls : pc[c] \in Sending => Live(on[c])

\* A client of its own for every call.
OpenedOnce == \A c \in Calls : pc[c] = "idle" => conn[c] = "none"

CommandInv ==
    /\ TypeOK
    /\ OpenedOnce
    /\ CommandsAreAnswerable
    /\ FlagErrsByOthers

\* Every call ends, with the answer, an error or an exception.
EveryCallEnds == \A c \in Calls : (pc[c] \in Active) ~> (pc[c] \in Ended)

================================================================================
