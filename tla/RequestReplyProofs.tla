--------------------------- MODULE RequestReplyProofs ---------------------------
(***************************************************************************)
(* The safety of RequestReply for any number of requests, processes, sends  *)
(* and crashes.                                                            *)
(***************************************************************************)
EXTENDS RequestReply, FiniteSetTheorems, TLAPS

-----------------------------------------------------------------------------
(* Messages and replies. *)

LEMMA MessageParts ==
  ASSUME NEW w \in Messages
  PROVE  /\ w[1] \in Requests /\ w[2] \in 1 .. MaxSends[w[1]]
         /\ w = <<w[1], w[2]>>
BY DEF Messages

LEMMA ReplyParts ==
  ASSUME NEW m \in Replies
  PROVE  m[1] \in Messages /\ Of(m) \in Requests
BY MessageParts DEF Replies, Of

\* A request that was sent has a last message.
LEMMA LatestIsMessage ==
  ASSUME TypeOK, NEW r \in Requests, sends[r] # 0
  PROVE  Latest(r) \in Messages /\ Latest(r)[1] = r /\ Latest(r)[2] = sends[r]
<1>1. sends[r] \in 1 .. MaxSends[r]
  BY MaxSendsAssumption DEF TypeOK
<1> QED
  BY <1>1 DEF Messages, Latest

\* The replies to a message can be counted.
LEMMA CopiesFinite ==
  ASSUME NEW w \in Messages
  PROVE  IsFiniteSet(Copies(w)) /\ Cardinality(Copies(w)) \in Nat
<1>1. IsFiniteSet({w}) /\ IsFiniteSet(1 .. MaxCrashes + 1)
  <2>1. 1 \in Int /\ MaxCrashes + 1 \in Int
    BY MaxCrashesAssumption
  <2> QED
    BY <2>1, FS_Singleton, FS_Interval
<1>2. IsFiniteSet({w} \X (1 .. MaxCrashes + 1))
  BY <1>1, FS_Product
<1>3. Copies(w) \subseteq {w} \X (1 .. MaxCrashes + 1)
  BY DEF Copies, Replies
<1>4. IsFiniteSet(Copies(w))
  BY <1>2, <1>3, FS_Subset
<1> QED
  BY <1>4, FS_CardinalityType

\* A reply that moves is no other reply, and the bound stays while no message
\* is handed back.
LEMMA BoundKept ==
  ASSUME IInv, TypeOK', \A m \in Replies : at'[m] = "none" <=> at[m] = "none",
         \A r \in Requests : sends'[r] >= sends[r],
         \A w \in Messages :
            crashes' > crashes
            \/ (crashes' = crashes /\ (work[w] \in {"handled", "done"} => work'[w] \in {"handled", "done"}))
  PROVE  RepliesBounded'
<1> SUFFICES ASSUME NEW w \in Messages
             PROVE  /\ Copies(w)' # {} => w[2] <= sends'[w[1]]
                    /\ Cardinality(Copies(w)') <= crashes' + IF work'[w] \in {"handled", "done"} THEN 1 ELSE 0
  BY DEF RepliesBounded
<1>1. Copies(w)' = Copies(w)
  BY DEF Copies
<1>2. w[1] \in Requests /\ w[2] \in Int
  BY MessageParts
<1>3. sends[w[1]] \in Int /\ sends'[w[1]] \in Int
  BY <1>2, MaxSendsAssumption DEF IInv, TypeOK
<1>4. Copies(w) # {} => w[2] <= sends[w[1]]
  BY DEF IInv, RepliesBounded
<1>5. Copies(w)' # {} => w[2] <= sends'[w[1]]
  BY <1>1, <1>2, <1>3, <1>4
<1>6. Cardinality(Copies(w)) \in Nat /\ crashes \in Int /\ crashes' \in Int
  BY CopiesFinite, MaxCrashesAssumption DEF IInv, TypeOK
<1>7. Cardinality(Copies(w)) <= crashes + IF work[w] \in {"handled", "done"} THEN 1 ELSE 0
  BY DEF IInv, RepliesBounded
<1> QED
  BY <1>1, <1>5, <1>6, <1>7

LEMMA InitIInv == Init => IInv
<1> SUFFICES ASSUME Init PROVE IInv
  OBVIOUS
<1>1. TypeOK
  BY MaxCrashesAssumption, MaxSendsAssumption DEF Init, TypeOK
<1>2. WhereReplies
  BY RequestsAssumption DEF Init, WhereReplies
<1>3. SentFirst
  BY DEF Init, SentFirst
<1>4. RepliesBounded
  <2>1. \A w \in Messages : Copies(w) = {}
    BY DEF Init, Copies
  <2> QED
    BY <2>1, FS_EmptySet DEF Init, RepliesBounded
<1> QED
  BY <1>1, <1>2, <1>3, <1>4 DEF IInv

-----------------------------------------------------------------------------
(* The steps of the requesting side. *)

LEMMA SendStep ==
    ASSUME IInv, NEW r \in Requests, Send(r)
    PROVE  IInv'
<1>0. sends[r] = 0
  BY DEF IInv, SentFirst, Send
<1>1. TypeOK'
  <2>1. sends' \in [Requests -> Nat] /\ \A k \in Requests : sends'[k] <= MaxSends[k]
    <3>1. sends' = [sends EXCEPT ![r] = 1] /\ sends \in [Requests -> Nat]
      BY DEF IInv, TypeOK, Send
    <3>2. MaxSends[r] \in Nat /\ 1 <= MaxSends[r]
      BY MaxSendsAssumption
    <3>3. \A k \in Requests : sends[k] <= MaxSends[k]
      BY DEF IInv, TypeOK
    <3> QED
      BY <3>1, <3>2, <3>3
  <2>2. pc' \in [Requests -> {"idle", "waiting", "resolved", "lost"}]
        /\ out' \in [Requests -> {"none", "sending", "published"}]
    BY DEF IInv, TypeOK, Send
  <2> QED
    BY <2>1, <2>2 DEF IInv, TypeOK, Send
<1>2. WhereReplies'
  <2> SUFFICES ASSUME NEW m \in Replies
               PROVE  /\ at[m] = "acked" => pc'[Of(m)] \in {"resolved", "lost"}
                      /\ at[m] \in Requests => at[m] # Of(m) /\ pc'[at[m]] \in {"waiting", "resolved"}
    BY DEF WhereReplies, Consuming, Send, Of
  <2> QED
    BY ReplyParts, RequestsAssumption DEF IInv, TypeOK, WhereReplies, Send, Consuming
<1>3. SentFirst'
  <2>1. \A w \in Messages : work[w] # "none" => w[1] # r
    <3> SUFFICES ASSUME NEW w \in Messages, work[w] # "none", w[1] = r PROVE FALSE
      OBVIOUS
    <3>1. w[2] <= 0
      BY <1>0 DEF IInv, SentFirst
    <3> QED
      BY <3>1, MessageParts, MaxSendsAssumption
  <2>2. /\ \A k \in Requests : pc'[k] = "idle" => sends'[k] = 0
        /\ \A k \in Requests : out'[k] # "none" => pc'[k] # "idle" /\ sends'[k] # 0
    BY DEF IInv, TypeOK, SentFirst, Send
  <2>3. \A w \in Messages : work'[w] # "none" => w[2] <= sends'[w[1]]
    BY <2>1, MessageParts DEF IInv, TypeOK, SentFirst, Send
  <2>4. \A k \in Requests : out'[k] = "sending" => work'[<<k, sends'[k]>>] = "none"
    <3> SUFFICES ASSUME NEW k \in Requests, out'[k] = "sending"
                 PROVE  work[<<k, sends'[k]>>] = "none"
      BY DEF Send
    <3>1. CASE k = r
      <4>1. sends'[k] = 1 /\ <<k, 1>> \in Messages
        <5>1. sends'[k] = 1
          BY <3>1 DEF Send, IInv, TypeOK
        <5>2. 1 \in 1 .. MaxSends[k]
          BY MaxSendsAssumption
        <5>3. <<k, 1>> \in {k} \X (1 .. MaxSends[k])
          BY <5>2
        <5> QED
          BY <5>1, <5>3 DEF Messages
      <4>2. work[<<k, 1>>] # "none" => <<k, 1>>[1] # r
        BY <4>1, <2>1
      <4> QED
        BY <3>1, <4>1, <4>2
    <3>2. CASE k # r
      BY <3>2 DEF IInv, TypeOK, SentFirst, Send, Latest
    <3> QED
      BY <3>1, <3>2
  <2> QED
    BY <2>2, <2>3, <2>4 DEF SentFirst, Latest
<1>4. RepliesBounded'
  BY <1>0, <1>1, BoundKept DEF IInv, TypeOK, Send
<1> QED
  BY <1>1, <1>2, <1>3, <1>4 DEF IInv

LEMMA PublishStep ==
    ASSUME IInv, NEW r \in Requests, Publish(r)
    PROVE  IInv'
<1>0. Latest(r) \in Messages /\ Latest(r)[1] = r /\ Latest(r)[2] = sends[r] /\ work[Latest(r)] = "none"
  BY LatestIsMessage DEF IInv, SentFirst, Publish
<1>1. TypeOK'
  BY <1>0 DEF IInv, TypeOK, Publish
<1>2. WhereReplies'
  BY DEF IInv, WhereReplies, Publish, Consuming, Of
<1>3. SentFirst'
  <2>1. /\ \A k \in Requests : pc'[k] = "idle" => sends'[k] = 0
        /\ \A k \in Requests : out'[k] # "none" => pc'[k] # "idle" /\ sends'[k] # 0
    BY DEF IInv, TypeOK, SentFirst, Publish
  <2>2. \A w \in Messages : work'[w] # "none" => w[2] <= sends'[w[1]]
    <3> SUFFICES ASSUME NEW w \in Messages, work'[w] # "none"
                 PROVE  w[2] <= sends[w[1]]
      BY DEF Publish
    <3>1. CASE w = Latest(r)
      BY <1>0, <3>1, MaxSendsAssumption DEF IInv, TypeOK
    <3>2. CASE w # Latest(r)
      BY <3>2 DEF IInv, TypeOK, SentFirst, Publish
    <3> QED
      BY <3>1, <3>2
  <2>3. \A k \in Requests : out'[k] = "sending" => work'[<<k, sends'[k]>>] = "none"
    <3> SUFFICES ASSUME NEW k \in Requests, out'[k] = "sending"
                 PROVE  work'[<<k, sends[k]>>] = "none"
      BY DEF Publish
    <3>1. k # r /\ out[k] = "sending"
      BY DEF IInv, TypeOK, Publish
    <3>2. work[Latest(k)] = "none" /\ sends[k] # 0
      BY <3>1 DEF IInv, SentFirst
    <3>3. Latest(k) \in Messages /\ Latest(k) # Latest(r)
      BY <1>0, <3>1, <3>2, LatestIsMessage DEF IInv
    <3> QED
      BY <3>2, <3>3 DEF Publish, IInv, TypeOK, Latest
  <2> QED
    BY <2>1, <2>2, <2>3 DEF SentFirst, Latest
<1>4. RepliesBounded'
  <2>1. \A w \in Messages : work[w] \in {"handled", "done"} => work'[w] \in {"handled", "done"}
    BY <1>0 DEF IInv, TypeOK, Publish
  <2>2. \A k \in Requests : sends'[k] >= sends[k]
    BY MaxSendsAssumption DEF IInv, TypeOK, Publish
  <2> QED
    BY <1>1, <2>1, <2>2, BoundKept DEF Publish
<1> QED
  BY <1>1, <1>2, <1>3, <1>4 DEF IInv

\* A step that sends, serves and answers nothing keeps what was sent and the bound.
LEMMA NothingSent ==
    ASSUME IInv, TypeOK', UNCHANGED <<sends, work, crashes>>,
           \A m \in Replies : at'[m] = "none" <=> at[m] = "none",
           \A r \in Requests :
             /\ pc'[r] = "idle" <=> pc[r] = "idle"
             /\ out'[r] \in {"none", out[r]}
    PROVE  SentFirst' /\ RepliesBounded'
<1>1. SentFirst'
  BY DEF IInv, SentFirst, Latest
<1>2. \A k \in Requests : sends'[k] >= sends[k]
  BY MaxSendsAssumption DEF IInv, TypeOK
<1>3. RepliesBounded'
  BY <1>2, BoundKept
<1> QED
  BY <1>1, <1>3

LEMMA ConfirmStep ==
    ASSUME IInv, NEW r \in Requests, Confirm(r)
    PROVE  IInv'
<1>1. TypeOK'
  BY DEF IInv, TypeOK, Confirm
<1>2. WhereReplies'
  BY DEF IInv, WhereReplies, Confirm, Consuming, Of
<1>3. \A k \in Requests : out'[k] \in {"none", out[k]}
  BY DEF IInv, TypeOK, Confirm
<1>4. SentFirst' /\ RepliesBounded'
  BY <1>1, <1>3, NothingSent DEF Confirm
<1> QED
  BY <1>1, <1>2, <1>4 DEF IInv

\* The broker's hands: a reply goes to its own request or to another one's
\* consumer.
LEMMA DeliverStep ==
    ASSUME IInv, NEW c \in Requests, NEW m \in Replies, Deliver(c, m)
    PROVE  IInv'
<1>1. TypeOK'
  BY DEF IInv, TypeOK, Deliver, channel
<1>2. WhereReplies'
  <2> SUFFICES ASSUME NEW n \in Replies
               PROVE  /\ at'[n] = "acked" => pc'[Of(n)] \in {"resolved", "lost"}
                      /\ at'[n] \in Requests => at'[n] # Of(n) /\ pc'[at'[n]] \in {"waiting", "resolved"}
    BY DEF WhereReplies, Consuming, Of
  <2>1. Of(n) \in Requests /\ Of(m) \in Requests
    BY ReplyParts
  <2>2. CASE Of(m) = c
    <3>1. at' = [at EXCEPT ![m] = "acked"] /\ pc' = [pc EXCEPT ![c] = "resolved"]
      BY <2>2 DEF Deliver
    <3>2. CASE n = m
      BY <2>1, <2>2, <3>1, <3>2, RequestsAssumption DEF IInv, TypeOK
    <3>3. CASE n # m
      BY <2>1, <3>1, <3>3 DEF IInv, TypeOK, WhereReplies, Consuming
    <3> QED
      BY <3>2, <3>3
  <2>3. CASE Of(m) # c
    <3>1. at' = [at EXCEPT ![m] = c] /\ pc' = pc /\ Consuming(c)
      BY <2>3 DEF Deliver
    <3>2. CASE n = m
      BY <2>3, <3>1, <3>2, RequestsAssumption DEF IInv, TypeOK, Consuming
    <3>3. CASE n # m
      BY <3>1, <3>3 DEF IInv, TypeOK, WhereReplies, Consuming
    <3> QED
      BY <3>2, <3>3
  <2> QED
    BY <2>2, <2>3
<1>3. \A n \in Replies : at'[n] = "none" <=> at[n] = "none"
  BY RequestsAssumption DEF IInv, TypeOK, Deliver
<1>4. \A r \in Requests : pc'[r] = "idle" <=> pc[r] = "idle"
  BY DEF IInv, TypeOK, Deliver, Consuming
<1>5. SentFirst' /\ RepliesBounded'
  BY <1>1, <1>3, <1>4, NothingSent DEF Deliver, channel
<1> QED
  BY <1>1, <1>2, <1>5 DEF IInv

\* The requests that are sent again get messages nobody has worked on yet.
LEMMA ReconnectStep ==
    ASSUME IInv, NEW p \in Processes, Reconnect(p)
    PROVE  IInv'
<1>0. \A r \in Unconfirmed(p) : r \in Requests /\ out[r] = "published"
  BY DEF Unconfirmed
<1>1. TypeOK'
  <2>1. sends' \in [Requests -> Nat] /\ \A r \in Requests : sends'[r] <= MaxSends[r]
    <3>1. sends' = [r \in Requests |-> IF r \in Unconfirmed(p) THEN sends[r] + 1 ELSE sends[r]]
      BY DEF Reconnect
    <3>2. sends \in [Requests -> Nat] /\ MaxSends \in [Requests -> Nat \ {0}]
      BY MaxSendsAssumption DEF IInv, TypeOK
    <3>3. /\ \A r \in Requests : sends[r] <= MaxSends[r]
          /\ \A r \in Unconfirmed(p) : sends[r] < MaxSends[r]
      BY DEF IInv, TypeOK, Reconnect
    <3> QED
      BY <3>1, <3>2, <3>3
  <2> QED
    BY <2>1 DEF IInv, TypeOK, Reconnect
<1>2. WhereReplies'
  BY RequestsAssumption DEF IInv, TypeOK, WhereReplies, Reconnect, Consuming, Of
<1>3. \A r \in Requests : /\ r \notin Unconfirmed(p) => sends'[r] = sends[r] /\ out'[r] = out[r]
                          /\ r \in Unconfirmed(p) => sends'[r] = sends[r] + 1 /\ sends[r] # 0 /\ pc[r] # "idle"
                          /\ sends[r] \in Nat
  BY <1>0 DEF IInv, TypeOK, SentFirst, Reconnect
<1>4. SentFirst'
  <2>1. /\ \A r \in Requests : pc'[r] = "idle" => sends'[r] = 0
        /\ \A r \in Requests : out'[r] # "none" => pc'[r] # "idle" /\ sends'[r] # 0
    BY <1>3 DEF IInv, SentFirst, Reconnect
  <2>2. \A w \in Messages : work'[w] # "none" => w[2] <= sends'[w[1]]
    BY <1>3, MessageParts DEF IInv, SentFirst, Reconnect
  <2>3. \A r \in Requests : out'[r] = "sending" => work'[<<r, sends'[r]>>] = "none"
    <3> SUFFICES ASSUME NEW r \in Requests, out'[r] = "sending"
                 PROVE  work[<<r, sends'[r]>>] = "none"
      BY DEF Reconnect
    <3>1. CASE r \in Unconfirmed(p)
      <4>1. sends'[r] = sends[r] + 1 /\ sends'[r] # 0
        BY <1>3, <3>1
      <4>2. <<r, sends'[r]>> \in Messages
        <5>1. sends'[r] \in 1 .. MaxSends[r]
          BY <1>1, <4>1, MaxSendsAssumption DEF TypeOK
        <5>2. <<r, sends'[r]>> \in {r} \X (1 .. MaxSends[r])
          BY <5>1
        <5> QED
          BY <5>2 DEF Messages
      <4>3. work[<<r, sends'[r]>>] # "none" => sends'[r] <= sends[r]
        BY <4>2 DEF IInv, SentFirst
      <4> QED
        BY <1>3, <4>1, <4>3
    <3>2. CASE r \notin Unconfirmed(p)
      BY <1>3, <3>2 DEF IInv, SentFirst, Latest
    <3> QED
      BY <3>1, <3>2
  <2> QED
    BY <2>1, <2>2, <2>3 DEF SentFirst, Latest
<1>5. RepliesBounded'
  <2>1. \A r \in Requests : sends'[r] >= sends[r]
    BY <1>3
  <2>2. \A n \in Replies : at'[n] = "none" <=> at[n] = "none"
    BY RequestsAssumption DEF Reconnect, With
  <2> QED
    BY <1>1, <2>1, <2>2, BoundKept DEF Reconnect
<1> QED
  BY <1>1, <1>2, <1>4, <1>5 DEF IInv

LEMMA RestartStep ==
    ASSUME IInv, NEW p \in Processes, Restart(p)
    PROVE  IInv'
<1>1. TypeOK'
  BY DEF IInv, TypeOK, Restart
<1>2. WhereReplies'
  <2> SUFFICES ASSUME NEW n \in Replies
               PROVE  /\ at'[n] = "acked" => pc'[Of(n)] \in {"resolved", "lost"}
                      /\ at'[n] \in Requests => at'[n] # Of(n) /\ pc'[at'[n]] \in {"waiting", "resolved"}
    BY DEF WhereReplies, Consuming, Of
  <2>1. Of(n) \in Requests
    BY ReplyParts
  <2>2. at'[n] = "acked" => pc'[Of(n)] \in {"resolved", "lost"}
    BY <2>1, RequestsAssumption DEF IInv, TypeOK, WhereReplies, Restart
  <2>3. ASSUME at'[n] \in Requests PROVE at'[n] # Of(n) /\ pc'[at'[n]] \in {"waiting", "resolved"}
    <3>1. at'[n] = at[n] /\ ~With(p, at[n])
      BY <2>3, RequestsAssumption DEF Restart
    <3>2. Consuming(at[n]) /\ at[n] # Of(n)
      BY <2>3, <3>1 DEF IInv, WhereReplies
    <3> QED
      BY <2>3, <3>1, <3>2 DEF Restart, Consuming
  <2> QED
    BY <2>2, <2>3
<1>3. \A n \in Replies : at'[n] = "none" <=> at[n] = "none"
  BY RequestsAssumption DEF Restart, With
<1>4. \A r \in Requests : (pc'[r] = "idle" <=> pc[r] = "idle") /\ out'[r] \in {"none", out[r]}
  BY DEF Restart, Consuming
<1>5. SentFirst' /\ RepliesBounded'
  BY <1>1, <1>3, <1>4, NothingSent DEF Restart
<1> QED
  BY <1>1, <1>2, <1>5 DEF IInv


-----------------------------------------------------------------------------
(* The steps of the serving side. *)

\* The one step that makes a reply also uses up the message, for this life of
\* the serving side.
LEMMA ReplyStep ==
    ASSUME IInv, NEW w \in Messages, Reply(w)
    PROVE  IInv'
<1> PICK m \in Replies : m[1] = w /\ at[m] = "none" /\ at' = [at EXCEPT ![m] = "queue"]
  BY DEF Reply
<1>1. TypeOK'
  BY DEF IInv, TypeOK, Reply, channel
<1>2. WhereReplies'
  BY RequestsAssumption DEF IInv, TypeOK, WhereReplies, Reply, Consuming, Of
<1>3. SentFirst'
  BY DEF IInv, TypeOK, SentFirst, Reply, channel, Latest
<1>4. RepliesBounded'
  <2> SUFFICES ASSUME NEW v \in Messages
               PROVE  /\ Copies(v)' # {} => v[2] <= sends[v[1]]
                      /\ Cardinality(Copies(v)') <= crashes + IF work'[v] \in {"handled", "done"} THEN 1 ELSE 0
    BY DEF RepliesBounded, Reply, channel
  <2>1. CASE v = w
    <3>1. Copies(v)' = Copies(v) \cup {m} /\ m \notin Copies(v)
      BY <2>1 DEF Copies, IInv, TypeOK
    <3>2. Cardinality(Copies(v)') = Cardinality(Copies(v)) + 1
      BY <3>1, CopiesFinite, FS_AddElement
    <3>3. Cardinality(Copies(v)) <= crashes /\ work'[v] = "handled" /\ v[2] <= sends[v[1]]
      BY <2>1, CopiesFinite, MaxCrashesAssumption DEF IInv, TypeOK, RepliesBounded, SentFirst, Reply
    <3> QED
      BY <3>2, <3>3, CopiesFinite, MaxCrashesAssumption DEF IInv, TypeOK
  <2>2. CASE v # w
    <3>1. Copies(v)' = Copies(v)
      BY <2>2 DEF Copies, IInv, TypeOK
    <3>2. work'[v] = work[v]
      BY <2>2 DEF IInv, TypeOK, Reply
    <3> QED
      BY <3>1, <3>2 DEF IInv, RepliesBounded
  <2> QED
    BY <2>1, <2>2
<1> QED
  BY <1>1, <1>2, <1>3, <1>4 DEF IInv

\* The other steps of the serving side leave replies and promises alone.
LEMMA WorkStep ==
    ASSUME IInv, UNCHANGED <<pc, home, sends, out, at>>, TypeOK',
           \A w \in Messages :
             /\ work'[w] # "none" <=> work[w] # "none"
             /\ crashes' > crashes
                \/ (crashes' = crashes /\ (work[w] \in {"handled", "done"} => work'[w] \in {"handled", "done"}))
    PROVE  IInv'
<1>1. WhereReplies'
  BY DEF IInv, WhereReplies, Consuming, Of
<1>2. SentFirst'
  <2>1. \A r \in Requests : out[r] = "sending" => Latest(r) \in Messages /\ work[Latest(r)] = "none"
    BY LatestIsMessage DEF IInv, SentFirst
  <2> QED
    BY <2>1 DEF IInv, SentFirst, Latest
<1>3. \A r \in Requests : sends'[r] >= sends[r]
  BY DEF IInv, TypeOK
<1>4. RepliesBounded'
  BY <1>3, BoundKept
<1> QED
  BY <1>1, <1>2, <1>4 DEF IInv

LEMMA ServerStep ==
    ASSUME IInv, NEW w \in Messages, Server(w)
    PROVE  IInv'
<1>1. CASE Reply(w)
  BY <1>1, ReplyStep
<1>2. CASE HandlerFails(w)
  BY <1>2, WorkStep DEF IInv, TypeOK, HandlerFails, channel
<1>3. CASE Ack(w)
  BY <1>3, WorkStep DEF IInv, TypeOK, Ack, channel
<1> QED
  BY <1>1, <1>2, <1>3 DEF Server

LEMMA CrashStep ==
    ASSUME IInv, ServerCrash
    PROVE  IInv'
<1>1. TypeOK'
  BY MaxCrashesAssumption DEF IInv, TypeOK, ServerCrash, channel
<1>2. crashes' > crashes /\ \A w \in Messages : work'[w] # "none" <=> work[w] # "none"
  BY MaxCrashesAssumption DEF IInv, TypeOK, ServerCrash
<1> QED
  BY <1>1, <1>2, WorkStep DEF ServerCrash, channel

LEMMA NextIInv == IInv /\ [Next]_vars => IInv'
<1> SUFFICES ASSUME IInv, [Next]_vars PROVE IInv'
  OBVIOUS
<1>1. ASSUME NEW r \in Requests, Send(r) \/ Publish(r) \/ Confirm(r) PROVE IInv'
  BY <1>1, SendStep, PublishStep, ConfirmStep
<1>2. ASSUME NEW w \in Messages, Server(w) PROVE IInv'
  BY <1>2, ServerStep
<1>3. ASSUME NEW m \in Replies, Delivery(m) PROVE IInv'
  BY <1>3, DeliverStep DEF Delivery
<1>4. ASSUME NEW p \in Processes, Reconnect(p) \/ Restart(p) PROVE IInv'
  BY <1>4, ReconnectStep, RestartStep
<1>5. CASE ServerCrash
  BY <1>5, CrashStep
<1>6. CASE UNCHANGED vars
  BY <1>6, WorkStep DEF vars, channel, IInv, TypeOK
<1> QED
  BY <1>1, <1>2, <1>3, <1>4, <1>5, <1>6 DEF Next

-----------------------------------------------------------------------------
\* The inductive invariant: an acknowledged reply reached its own request, an
\* unacknowledged one is held by a live consumer of another request, and what is
\* worked on or replied to was sent.
THEOREM Inductive == Spec => []IInv
BY InitIInv, NextIInv, PTL DEF Spec

\* Every variable keeps its type.
THEOREM TypeCorrect == Spec => []TypeOK
<1>1. IInv => TypeOK
  BY DEF IInv
<1> QED
  BY <1>1, Inductive, PTL

\* No reply is lost while its request waits, whatever channels close and
\* processes end.
THEOREM RepliesAreKept == Spec => []ReplyIsKept
<1>1. IInv => ReplyIsKept
  <2> SUFFICES ASSUME IInv, NEW r \in Requests, pc[r] = "waiting", Replied(r)
               PROVE  \E m \in Replies :
                        /\ Of(m) = r
                        /\ at[m] = "queue" \/ (at[m] \in Requests \ {r} /\ Consuming(at[m]))
    BY DEF ReplyIsKept
  <2> PICK m \in Replies : Of(m) = r /\ at[m] # "none"
    BY DEF Replied
  <2>1. at[m] # "acked"
    BY DEF IInv, WhereReplies
  <2> QED
    BY <2>1 DEF IInv, TypeOK, WhereReplies
<1> QED
  BY <1>1, Inductive, PTL

\* A request is replied to at most once for every time it was sent, and for each
\* of them once more than the serving side crashed.
THEOREM RepliesAreBounded == Spec => []RepliesBounded
<1>1. IInv => RepliesBounded
  BY DEF IInv
<1> QED
  BY <1>1, Inductive, PTL

-----------------------------------------------------------------------------
(* The remote call. *)

Answered == {r \in Requests : Replied(r)}

AbstractStep == [Promise!Next]_(Promise!vars)

\* A reply that moves answers nobody else.
LEMMA AnsweredKept ==
  ASSUME \A m \in Replies : at'[m] = "none" <=> at[m] = "none"
  PROVE  Answered' = Answered
BY DEF Answered, Replied, Of

LEMMA SendCalls ==
  ASSUME IInv, NEW r \in Requests, Send(r)
  PROVE  Promise!Call(r)
<1>1. Answered' = Answered
  BY AnsweredKept DEF Send
<1> QED
  BY <1>1 DEF Send, Promise!Call, Answered

\* Only its own reply resolves a promise, and only one that waits.
LEMMA DeliverResolves ==
  ASSUME IInv, NEW c \in Requests, NEW m \in Replies, Deliver(c, m)
  PROVE  Promise!Resolve(c) \/ UNCHANGED (Promise!vars)
<1>1. Answered' = Answered
  BY AnsweredKept, RequestsAssumption DEF Deliver, IInv, TypeOK
<1>2. CASE Of(m) = c
  <2>1. c \in Answered
    BY <1>2 DEF Deliver, Answered, Replied
  <2>2. pc' = [pc EXCEPT ![c] = "resolved"] /\ pc[c] \in {"waiting", "resolved"}
    BY <1>2 DEF Deliver, Consuming
  <2>3. CASE pc[c] = "waiting"
    BY <1>1, <2>1, <2>2, <2>3 DEF Promise!Resolve, Answered
  <2>4. CASE pc[c] = "resolved"
    BY <1>1, <2>2, <2>4 DEF Promise!vars, Answered, IInv, TypeOK
  <2> QED
    BY <2>2, <2>3, <2>4
<1>3. CASE Of(m) # c
  BY <1>1, <1>3 DEF Deliver, Promise!vars, Answered
<1> QED
  BY <1>2, <1>3

LEMMA RestartLoses ==
  ASSUME IInv, NEW p \in Processes, Restart(p)
  PROVE  Promise!Lose({c \in Requests : With(p, c) /\ Consuming(c)})
<1>1. Answered' = Answered
  BY AnsweredKept, RequestsAssumption DEF Restart, With
<1> QED
  BY <1>1 DEF Restart, Promise!Lose, Answered, Consuming

\* What is replied to was sent, by a request that is not idle.
LEMMA ReplyAnswers ==
  ASSUME IInv, NEW w \in Messages, Reply(w)
  PROVE  Promise!Answer(w[1])
<1>0. w[1] \in Requests /\ w[2] \in Nat \ {0}
  BY MessageParts, MaxSendsAssumption
<1>1. PICK m \in Replies : m[1] = w /\ at[m] = "none" /\ at' = [at EXCEPT ![m] = "queue"]
  BY DEF Reply
<1>2. Answered' = Answered \cup {w[1]}
  BY <1>0, <1>1 DEF Answered, Replied, Of, IInv, TypeOK
<1>3. w[2] <= sends[w[1]]
  BY DEF IInv, SentFirst, Reply
<1>4. pc[w[1]] # "idle" /\ pc' = pc
  BY <1>0, <1>3 DEF IInv, SentFirst, Reply
<1> QED
  BY <1>2, <1>4 DEF Promise!Answer, Answered

LEMMA NextAbstract ==
  ASSUME IInv, [Next]_vars
  PROVE  AbstractStep
<1> USE DEF AbstractStep
<1>1. ASSUME NEW r \in Requests, Send(r) PROVE AbstractStep
  BY <1>1, SendCalls DEF Promise!Next
<1>2. ASSUME NEW w \in Messages, Reply(w) PROVE AbstractStep
  BY <1>2, ReplyAnswers, MessageParts DEF Promise!Next
<1>3. ASSUME NEW c \in Requests, NEW m \in Replies, Deliver(c, m) PROVE AbstractStep
  BY <1>3, DeliverResolves DEF Promise!Next
<1>4. ASSUME NEW p \in Processes, Restart(p) PROVE AbstractStep
  BY <1>4, RestartLoses DEF Promise!Next
<1>5. ASSUME NEW p \in Processes, Reconnect(p) PROVE AbstractStep
  <2>1. Answered' = Answered
    BY <1>5, AnsweredKept, RequestsAssumption DEF Reconnect, With
  <2> QED
    BY <1>5, <2>1 DEF Reconnect, Promise!vars, Answered
<1>6. ASSUME UNCHANGED <<pc, at>> PROVE AbstractStep
  <2>1. Answered' = Answered
    BY <1>6, AnsweredKept
  <2> QED
    BY <1>6, <2>1 DEF Promise!vars, Answered
<1> QED
  BY <1>1, <1>2, <1>3, <1>4, <1>5, <1>6
  DEF Next, Publish, Confirm, Server, HandlerFails, Ack, ServerCrash, Delivery, vars

\* Queues, consumers, channels and processes together are a remote call: a
\* promise resolves at most once, with its own reply, and is lost only with its
\* process, however often a request is sent and served.
THEOREM Refinement == Spec => ImplementsRemoteCall
<1>1. Init => Promise!Init
  BY DEF Init, Promise!Init, Replied
<1>2. IInv /\ [Next]_vars => [Promise!Next]_(Promise!vars)
  BY NextAbstract DEF AbstractStep
<1> QED
  BY <1>1, <1>2, Inductive, PTL DEF Spec, Promise!Spec, ImplementsRemoteCall


================================================================================
