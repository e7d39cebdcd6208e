------------------------- MODULE RedisConnectionProofs -------------------------
(***************************************************************************)
(* For any set of calls: nobody waits on a closed client and the flag errs *)
(* only through other clients, whatever drops; and while nothing does,     *)
(* only overlapping calls disturb each other.                              *)
(***************************************************************************)
EXTENDS RedisConnection, TLAPS

LEMMA InitInv == Init => IInv
<1> SUFFICES ASSUME Init PROVE IInv
  OBVIOUS
<1>1. Running = {}
  BY DEF Init, Running, Active, Sending
<1>2. TypeOK
  <2>1. isConnected \in BOOLEAN /\ overlapped \in BOOLEAN
    BY DEF Init
  <2>2. /\ client = {}
        /\ skipped \in SUBSET Calls /\ disturbed \in SUBSET Calls
    BY DEF Init
  <2>3. /\ conn \in [Calls -> {"none", "connecting", "ready", "lost", "closed"}]
        /\ pc \in [Calls -> {"idle"} \cup Active \cup Ended]
        /\ on \in [Calls -> Calls]
        /\ sets \in [Calls -> 0 .. 3]
    BY DEF Init
  <2> QED
    BY <2>1, <2>2, <2>3 DEF TypeOK
<1>3. Phases
  BY DEF Init, Phases
<1>4. FlagTellsTheClient /\ UnsetMeansDisturbed
  BY DEF Init, FlagTellsTheClient, Usable, UnsetMeansDisturbed, Sending
<1>5. OnlyOverlapsDisturb
  BY DEF Init, OnlyOverlapsDisturb
<1>6. TwoOverlap
  BY <1>1 DEF TwoOverlap
<1>7. SerialOwnsClient
  BY DEF Init, SerialOwnsClient, Live
<1> QED
  BY <1>2, <1>3, <1>4, <1>5, <1>6, <1>7 DEF IInv

\* The end of a call: the shared client goes, whoever waits on it fails.
LEMMA DisconnectStep ==
  ASSUME IInv, NEW c \in Calls, NEW result \in Ended,
         pc[c] \in {"query", "set"},
         Disconnect(c, result),
         sets' \in [Calls -> 0 .. 3],
         skipped' = skipped \/ (skipped' = skipped \cup {c} /\ ~isConnected),
         UNCHANGED <<client, on, overlapped>>
  PROVE  IInv'
<1> USE LookupsAssumption DEF IInv
<1>0. c \notin Lookups /\ c \in Running
  BY DEF Phases, Running, Active, Sending
<1>1. CASE ~isConnected
  <2>1. /\ pc' = [pc EXCEPT ![c] = result]
        /\ UNCHANGED <<isConnected, conn, disturbed>>
    BY <1>1 DEF Disconnect
  <2>2. TypeOK'
    BY <2>1 DEF TypeOK, Active, Sending, Ended
  <2>3. Phases'
    BY <2>1 DEF Phases, TypeOK, Ended
  <2>4. FlagTellsTheClient'
    BY <2>1 DEF FlagTellsTheClient, Usable
  <2>5. UnsetMeansDisturbed'
    BY <2>1 DEF UnsetMeansDisturbed, TypeOK, Ended, Sending
  <2>6. OnlyOverlapsDisturb'
    BY <1>0, <1>1, <2>1 DEF OnlyOverlapsDisturb, UnsetMeansDisturbed, TypeOK, Ended, Sending
  <2>7. TwoOverlap'
    BY <1>0, <2>1 DEF TwoOverlap, Running, TypeOK, Ended, Active, Sending
  <2>8. SerialOwnsClient'
    BY <1>1, <2>1 DEF SerialOwnsClient, Running, Live, TypeOK
  <2> QED
    BY <2>2, <2>3, <2>4, <2>5, <2>6, <2>7, <2>8
<1>2. CASE isConnected
  <2>1. PICK x \in client : conn[x] = "ready"
    BY <1>2 DEF FlagTellsTheClient, Usable
  <2>2. client = {x} /\ x \in Calls /\ Live(x)
    BY <2>1 DEF TypeOK, Live
  <2>3. /\ conn' = [conn EXCEPT ![x] = "closed"]
        /\ isConnected' = FALSE
        /\ pc' = [k \in Calls |-> IF k = c THEN result
                                  ELSE IF k \in Waiting(x) THEN "failed" ELSE pc[k]]
        /\ disturbed' = disturbed \cup (Running \ {c})
        /\ skipped' = skipped
    BY <1>0, <1>2, <2>2 DEF Disconnect
  <2>4. TypeOK'
    BY <2>2, <2>3 DEF TypeOK, Active, Sending, Ended, Running
  <2>5. Phases'
    BY <2>1, <2>2, <2>3 DEF Phases, TypeOK, Ended, Waiting, Sending
  <2>6. FlagTellsTheClient'
    BY <2>2, <2>3 DEF FlagTellsTheClient, Usable, TypeOK
  <2>7. UnsetMeansDisturbed'
    BY <2>3 DEF UnsetMeansDisturbed, TypeOK, Ended, Running, Active, Sending, Waiting
  <2>8. OnlyOverlapsDisturb'
    BY <1>0, <2>3 DEF OnlyOverlapsDisturb, TwoOverlap, TypeOK, Ended, Running, Active, Sending, Waiting
  <2>9. TwoOverlap'
    BY <2>3 DEF TwoOverlap, TypeOK, Ended, Running, Active, Sending
  <2>10. SerialOwnsClient'
    BY <2>2, <2>3 DEF SerialOwnsClient, TypeOK, Running, Live
  <2> QED
    BY <2>4, <2>5, <2>6, <2>7, <2>8, <2>9, <2>10
<1> QED
  BY <1>1, <1>2 DEF TypeOK

\* A set, sent on the shared client or skipped.
LEMMA SendStep ==
  ASSUME IInv, NEW c \in Calls, NEW n \in 0 .. 3,
         pc[c] \in {"query", "set"},
         Send(c, n),
         UNCHANGED <<client, overlapped>>
  PROVE  IInv'
<1> USE DEF IInv
<1>0. sets' \in [Calls -> 0 .. 3]
  BY DEF Send, TypeOK
<1>1. CASE ~isConnected
  <2>1. skipped' = skipped \cup {c} /\ Disconnect(c, "answered") /\ UNCHANGED on
    BY <1>1 DEF Send
  <2> QED
    BY <1>0, <1>1, <2>1, DisconnectStep DEF Ended
<1>2. CASE isConnected
  <2>1. PICK x \in client : conn[x] = "ready"
    BY <1>2 DEF FlagTellsTheClient, Usable
  <2>2. client = {x} /\ x \in Calls /\ Live(x)
    BY <2>1 DEF TypeOK, Live
  <2>3. /\ pc' = [pc EXCEPT ![c] = "set"]
        /\ on' = [on EXCEPT ![c] = x]
        /\ UNCHANGED <<isConnected, conn, disturbed, skipped>>
    BY <1>2, <2>2 DEF Send
  <2>4. TypeOK'
    BY <1>0, <2>2, <2>3 DEF TypeOK, Active, Sending
  <2>5. Phases'
    BY <2>3 DEF Phases, TypeOK
  <2>6. FlagTellsTheClient' /\ UnsetMeansDisturbed'
    BY <1>2, <2>3 DEF FlagTellsTheClient, Usable, UnsetMeansDisturbed
  <2>7. OnlyOverlapsDisturb'
    BY <2>3 DEF OnlyOverlapsDisturb, TypeOK
  <2>8. TwoOverlap' /\ SerialOwnsClient'
    BY <2>3 DEF TwoOverlap, SerialOwnsClient, Running, Active, Sending, Live, TypeOK
  <2> QED
    BY <2>4, <2>5, <2>6, <2>7, <2>8
<1> QED
  BY <1>1, <1>2 DEF TypeOK

LEMMA StartCallStep ==
  ASSUME IInv, NEW c \in Calls, StartCall(c)  PROVE IInv'
<1> USE DEF IInv, StartCall
<1>1. TypeOK'
  BY DEF TypeOK, Active
<1>2. Phases'
  BY DEF Phases, TypeOK
<1>3. FlagTellsTheClient'
  BY DEF FlagTellsTheClient, Usable, Phases, TypeOK
<1>4. UnsetMeansDisturbed'
  BY DEF UnsetMeansDisturbed, TypeOK, Sending
<1>5. OnlyOverlapsDisturb'
  BY DEF OnlyOverlapsDisturb, TypeOK
<1>6. TwoOverlap'
  BY DEF TwoOverlap, Running, TypeOK, Active, Sending
<1>7. SerialOwnsClient'
  BY DEF SerialOwnsClient, Running, TypeOK, Active, Sending, Live, Phases
<1> QED
  BY <1>1, <1>2, <1>3, <1>4, <1>5, <1>6, <1>7

LEMMA ConnectedStep ==
  ASSUME IInv, NEW c \in Calls, Connected(c)  PROVE IInv'
<1> USE DEF IInv, Connected
<1>1. TypeOK'
  BY DEF TypeOK, Active, Sending
<1>2. Phases'
  BY DEF Phases, TypeOK
<1>3. FlagTellsTheClient' /\ UnsetMeansDisturbed'
  BY DEF FlagTellsTheClient, Usable, UnsetMeansDisturbed, TypeOK
<1>4. OnlyOverlapsDisturb'
  BY DEF OnlyOverlapsDisturb, TypeOK
<1>5. TwoOverlap'
  BY DEF TwoOverlap, Running, TypeOK, Active, Sending
<1>6. SerialOwnsClient'
  BY DEF SerialOwnsClient, TwoOverlap, Running, TypeOK, Active, Sending, Live
<1> QED
  BY <1>1, <1>2, <1>3, <1>4, <1>5, <1>6

LEMMA GetReplyStep ==
  ASSUME IInv, NEW c \in Calls, GetReply(c)  PROVE IInv'
<1> USE DEF IInv, GetReply
<1>1. TypeOK'
  BY DEF TypeOK, Active, Sending, Ended
<1>2. Phases'
  BY DEF Phases, TypeOK
<1>3. FlagTellsTheClient' /\ UnsetMeansDisturbed'
  BY DEF FlagTellsTheClient, Usable, UnsetMeansDisturbed, TypeOK, Sending
<1>4. OnlyOverlapsDisturb'
  BY DEF OnlyOverlapsDisturb, TypeOK
<1>5. TwoOverlap'
  BY DEF TwoOverlap, Running, TypeOK, Active, Sending
<1>6. SerialOwnsClient'
  BY DEF SerialOwnsClient, Running, TypeOK, Active, Sending, Live
<1> QED
  BY <1>1, <1>2, <1>3, <1>4, <1>5, <1>6

LEMMA NextInv == ASSUME ~Drops PROVE IInv /\ [Next]_vars => IInv'
<1> SUFFICES ASSUME IInv, [Next]_vars PROVE IInv'
  OBVIOUS
<1>1. ASSUME NEW c \in Calls, StartCall(c) PROVE IInv'
  BY <1>1, StartCallStep
<1>2. ASSUME NEW c \in Calls, Answer(c) PROVE IInv'
  <2>0. /\ sets \in [Calls -> 0 .. 3]
        /\ pc[c] = "set" => sets[c] \in 0 .. 3
    BY DEF IInv, TypeOK
  <2>1. CASE Connected(c)
    BY <2>1, ConnectedStep
  <2>2. CASE GetReply(c)
    BY <2>2, GetReplyStep
  <2>3. CASE CacheHit(c)
    BY <2>0, <2>3, DisconnectStep DEF CacheHit, Ended
  <2>4. CASE QueryFails(c)
    BY <2>0, <2>4, DisconnectStep DEF QueryFails, Ended
  <2>5. CASE QueryLoads(c)
    BY <2>5, SendStep DEF QueryLoads
  <2>6. CASE SetReply(c)
    <3>1. CASE sets[c] > 1
      <4>1. sets[c] - 1 \in 0 .. 3
        BY <2>0, <2>6, <3>1 DEF SetReply
      <4> QED
        BY <2>6, <3>1, <4>1, SendStep DEF SetReply
    <3>2. CASE ~(sets[c] > 1)
      <4>1. sets' \in [Calls -> 0 .. 3]
        BY <2>0, <2>6, <3>2 DEF SetReply
      <4> QED
        BY <2>6, <3>2, <4>1, DisconnectStep DEF SetReply, Ended
    <3> QED
      BY <3>1, <3>2
  <2> QED
    BY <1>2, <2>1, <2>2, <2>3, <2>4, <2>5, <2>6 DEF Answer
<1>3. ASSUME NEW c \in Calls PROVE ~Drop(c) /\ ~ConnectError(c) /\ ~Reconnect(c)
  BY DEF Drop, ConnectError, Reconnect, IInv, Phases
<1>4. CASE UNCHANGED vars
  BY <1>4 DEF vars, IInv, TypeOK, Phases, FlagTellsTheClient, Usable, UnsetMeansDisturbed,
     OnlyOverlapsDisturb, TwoOverlap, SerialOwnsClient, Running, Live
<1> QED
  BY <1>1, <1>2, <1>3, <1>4 DEF Next

-----------------------------------------------------------------------------
\* While no connection drops, IInv holds whatever calls there are.
THEOREM Inductive == ASSUME ~Drops PROVE Spec => []IInv
  BY InitInv, NextInv, PTL DEF Spec

\* While no connection drops, a call that skips sets or whose lookup fails ran
\* while another call disconnected, and calls one at a time leave open only what
\* a lookup opened.
THEOREM HarmNeedsOverlap == ASSUME ~Drops PROVE Spec => []OnlyOverlapsHarm
<1>1. IInv => OnlyOverlapsHarm
  BY DEF IInv, SerialOwnsClient, OnlyOverlapsHarm, OnlyLookupsLeak
<1> QED
  BY <1>1, Inductive, PTL

-----------------------------------------------------------------------------
(* With connections that drop. *)

LEMMA CommandInit == Init => CommandInv
<1> SUFFICES ASSUME Init PROVE CommandInv
  OBVIOUS
<1>1. TypeOK
  BY InitInv DEF IInv
<1> QED
  BY <1>1 DEF Init, CommandInv, OpenedOnce, CommandsAreAnswerable, FlagErrsByOthers, Usable, Sending

\* The end of a call rejects what waits on the client it closes.
LEMMA DisconnectAnswers ==
  ASSUME CommandInv, NEW c \in Calls, NEW result \in Ended,
         pc[c] \in {"query", "set"},
         Disconnect(c, result),
         sets' \in [Calls -> 0 .. 3],
         skipped' \in SUBSET Calls,
         UNCHANGED <<client, on, overlapped>>
  PROVE  CommandInv'
<1> USE DEF CommandInv
<1>0. result \notin Sending \cup {"idle"} /\ "failed" \notin Sending /\ result \in Ended
  BY DEF Sending, Ended
<1>1. CASE ~isConnected \/ c \in Lookups
  <2>1. pc' = [pc EXCEPT ![c] = result] /\ UNCHANGED <<isConnected, conn, disturbed>>
    BY <1>1 DEF Disconnect
  <2> QED
    BY <1>0, <2>1 DEF TypeOK, OpenedOnce, CommandsAreAnswerable, FlagErrsByOthers, Usable, Live
<1>2. CASE ~(~isConnected \/ c \in Lookups)
  <2>1. PICK x \in client :
          IF Live(x)
            THEN /\ conn' = [conn EXCEPT ![x] = "closed"]
                 /\ isConnected' = FALSE
                 /\ pc' = [k \in Calls |-> IF k = c THEN result
                                           ELSE IF k \in Waiting(x) THEN "failed" ELSE pc[k]]
                 /\ disturbed' = disturbed \cup (Running \ {c})
            ELSE /\ pc' = [pc EXCEPT ![c] = "failed"]
                 /\ UNCHANGED <<isConnected, conn, disturbed>>
    BY <1>2 DEF Disconnect
  <2>2. x \in Calls
    BY <2>1 DEF TypeOK
  <2>3. CASE Live(x)
    <3>1. TypeOK'
      BY <1>0, <2>1, <2>2, <2>3 DEF TypeOK, Ended, Running
    <3>2. OpenedOnce'
      BY <1>0, <2>1, <2>2, <2>3 DEF OpenedOnce, TypeOK, Live, Waiting
    <3>3. CommandsAreAnswerable'
      <4> SUFFICES ASSUME NEW k \in Calls, pc'[k] \in Sending
                   PROVE  conn'[on'[k]] \in {"ready", "lost"}
        BY DEF CommandsAreAnswerable, Live, Sending
      <4>1. k # c /\ k \notin Waiting(x) /\ pc'[k] = pc[k]
        BY <1>0, <2>1, <2>3
      <4>2. on[k] \in Calls /\ on[k] # x /\ Live(on[k]) /\ on' = on
        BY <4>1 DEF CommandsAreAnswerable, TypeOK, Waiting
      <4> QED
        BY <2>1, <2>3, <4>2 DEF TypeOK, Live
    <3>4. FlagErrsByOthers'
      BY <2>1, <2>2, <2>3 DEF FlagErrsByOthers, Usable, TypeOK
    <3> QED
      BY <3>1, <3>2, <3>3, <3>4
  <2>4. CASE ~Live(x)
    <3>1. pc' = [pc EXCEPT ![c] = "failed"] /\ UNCHANGED <<isConnected, conn, disturbed>>
      BY <2>1, <2>4
    <3> QED
      BY <1>0, <3>1 DEF TypeOK, Ended, OpenedOnce, CommandsAreAnswerable, FlagErrsByOthers, Usable, Live
  <2> QED
    BY <2>3, <2>4
<1> QED
  BY <1>1, <1>2

\* A set goes out on a client that is not closed.
LEMMA SendAnswers ==
  ASSUME CommandInv, NEW c \in Calls, NEW n \in 0 .. 3,
         pc[c] \in {"query", "set"},
         Send(c, n),
         UNCHANGED <<client, overlapped>>
  PROVE  CommandInv'
<1> USE DEF CommandInv
<1>0. sets' \in [Calls -> 0 .. 3]
  BY DEF Send, TypeOK
<1>1. CASE \E result \in Ended : Disconnect(c, result) /\ UNCHANGED on /\ skipped' \in SUBSET Calls
  BY <1>0, <1>1, DisconnectAnswers
<1>2. CASE \E x \in client :
             /\ Live(x) /\ pc' = [pc EXCEPT ![c] = "set"] /\ on' = [on EXCEPT ![c] = x]
             /\ UNCHANGED <<isConnected, conn, disturbed, skipped>>
  <2>1. PICK x \in client :
          /\ Live(x) /\ pc' = [pc EXCEPT ![c] = "set"] /\ on' = [on EXCEPT ![c] = x]
          /\ UNCHANGED <<isConnected, conn, disturbed, skipped>>
    BY <1>2
  <2>2. x \in Calls
    BY DEF TypeOK
  <2> QED
    BY <1>0, <2>1, <2>2 DEF TypeOK, OpenedOnce, CommandsAreAnswerable, FlagErrsByOthers, Usable,
       Active, Sending, Live
<1> QED
  BY <1>1, <1>2 DEF Send, Ended, TypeOK

LEMMA DropAnswers ==
  ASSUME CommandInv, NEW x \in Calls, Drop(x) \/ ConnectError(x) \/ Reconnect(x)
  PROVE  CommandInv'
<1> USE DEF CommandInv
<1>1. TypeOK'
  BY DEF TypeOK, Drop, ConnectError, Reconnect, Ended
<1>2. OpenedOnce'
  BY DEF TypeOK, OpenedOnce, Drop, ConnectError, Reconnect
<1>3. CommandsAreAnswerable'
  BY DEF TypeOK, CommandsAreAnswerable, Drop, ConnectError, Reconnect, Live, Sending
<1>4. FlagErrsByOthers'
  <2>1. CASE Drop(x)
    BY <2>1 DEF TypeOK, FlagErrsByOthers, Usable, Drop
  <2>2. CASE ConnectError(x)
    BY <2>2 DEF TypeOK, FlagErrsByOthers, Usable, ConnectError
  <2>3. CASE Reconnect(x)
    <3>1. /\ isConnected' /\ conn'[x] = "ready" /\ client' = client
      BY <2>3 DEF TypeOK, Reconnect
    <3> QED
      BY <3>1 DEF FlagErrsByOthers, Usable
  <2> QED
    BY <2>1, <2>2, <2>3
<1> QED
  BY <1>1, <1>2, <1>3, <1>4

\* A call opens a client of its own, and once connected it is the one in use.
LEMMA OpenAnswers ==
  ASSUME CommandInv, NEW c \in Calls, StartCall(c) \/ Connected(c)  PROVE CommandInv'
<1> USE DEF CommandInv
<1>1. CASE StartCall(c)
  <2>1. TypeOK' /\ OpenedOnce' /\ CommandsAreAnswerable'
    BY <1>1 DEF StartCall, TypeOK, OpenedOnce, CommandsAreAnswerable, Active, Sending, Live
  <2>2. FlagErrsByOthers'
    BY <1>1 DEF StartCall, TypeOK, OpenedOnce, FlagErrsByOthers, Usable
  <2> QED
    BY <2>1, <2>2
<1>2. CASE Connected(c)
  <2>1. TypeOK' /\ OpenedOnce' /\ CommandsAreAnswerable'
    BY <1>2 DEF Connected, TypeOK, OpenedOnce, CommandsAreAnswerable, Active, Sending, Live
  <2>2. FlagErrsByOthers'
    BY <1>2 DEF Connected, TypeOK, FlagErrsByOthers, Usable
  <2> QED
    BY <2>1, <2>2
<1> QED
  BY <1>1, <1>2

LEMMA CommandNext == CommandInv /\ [Next]_vars => CommandInv'
<1> SUFFICES ASSUME CommandInv, [Next]_vars PROVE CommandInv'
  OBVIOUS
<1>0. /\ sets \in [Calls -> 0 .. 3] /\ skipped \in SUBSET Calls
      /\ "answered" \in Ended /\ "failed" \in Ended
  BY DEF CommandInv, TypeOK, Ended
<1>1. ASSUME NEW c \in Calls, StartCall(c) \/ Connected(c) PROVE CommandInv'
  BY <1>1, OpenAnswers
<1>2. ASSUME NEW c \in Calls, GetReply(c) PROVE CommandInv'
  BY <1>2 DEF GetReply, CommandInv, TypeOK, OpenedOnce, CommandsAreAnswerable, FlagErrsByOthers, Usable,
     Active, Sending, Ended, Live
<1>3. ASSUME NEW c \in Calls, CacheHit(c) \/ QueryFails(c) PROVE CommandInv'
  BY <1>0, <1>3, DisconnectAnswers DEF CacheHit, QueryFails
<1>4. ASSUME NEW c \in Calls, QueryLoads(c) PROVE CommandInv'
  BY <1>4, SendAnswers DEF QueryLoads
<1>5. ASSUME NEW c \in Calls, SetReply(c) PROVE CommandInv'
  <2>1. CASE sets[c] > 1
    <3>1. sets[c] - 1 \in 0 .. 3
      BY <1>0, <2>1
    <3> QED
      BY <1>5, <2>1, <3>1, SendAnswers DEF SetReply
  <2>2. CASE ~(sets[c] > 1)
    <3>1. sets' \in [Calls -> 0 .. 3]
      BY <1>0, <1>5, <2>2 DEF SetReply
    <3> QED
      BY <1>0, <1>5, <2>2, <3>1, DisconnectAnswers DEF SetReply
  <2> QED
    BY <2>1, <2>2
<1>6. ASSUME NEW c \in Calls, Drop(c) \/ ConnectError(c) \/ Reconnect(c) PROVE CommandInv'
  BY <1>6, DropAnswers
<1>7. CASE UNCHANGED vars
  BY <1>7 DEF vars, CommandInv, TypeOK, OpenedOnce, CommandsAreAnswerable, FlagErrsByOthers, Usable, Live
<1> QED
  BY <1>1, <1>2, <1>3, <1>4, <1>5, <1>6, <1>7 DEF Next, Answer

\* Every variable keeps its type, whatever drops.
THEOREM TypeCorrect == Spec => []TypeOK
<1>1. CommandInv => TypeOK
  BY DEF CommandInv
<1> QED
  BY <1>1, CommandInit, CommandNext, PTL DEF Spec

\* Whatever drops and whoever disconnects, no command waits on a closed client,
\* from which no answer comes.
THEOREM NoCommandIsForgotten == Spec => []CommandsAreAnswerable
<1>1. CommandInv => CommandsAreAnswerable
  BY DEF CommandInv
<1> QED
  BY <1>1, CommandInit, CommandNext, PTL DEF Spec

\* Whatever drops, isConnected is wrong about the client in the field only while
\* another client of the process works, or tries to connect.
THEOREM FlagIsOfSomeClient == Spec => []FlagErrsByOthers
<1>1. CommandInv => FlagErrsByOthers
  BY DEF CommandInv
<1> QED
  BY <1>1, CommandInit, CommandNext, PTL DEF Spec

================================================================================
