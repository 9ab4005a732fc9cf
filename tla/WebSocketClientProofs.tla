----------------------- MODULE WebSocketClientProofs -----------------------
(***************************************************************************)
(* Theorems about WebSocketClient, for any number of attempts and of       *)
(* messages: its types, that no call of connect() waits in vain, and that  *)
(* it implements SignalingLine.                                            *)
(***************************************************************************)
EXTENDS WebSocketClient, TLAPS, SequenceTheorems

-----------------------------------------------------------------------------
(* The inductive invariant. *)

\* The oneshots of the attempts that are over are answered, those of the attempts to
\* come are not sent, and a task that has ended left none open.
OneshotsOK ==
    /\ shared <= attempt + 1
    /\ shared = attempt + 1 => task \in {"Waiting", "Dead"}
    /\ task = "Waiting" => attempt < MaxAttempts
    /\ \A k \in Oneshots :
           /\ oneshot[k] = "Sent" => k <= attempt
           /\ oneshot[k] = "Open" => /\ k >= attempt /\ task # "Dead"
                                     /\ k = attempt => task = "Connecting"

\* The connection in use is not newer than the shared oneshot, and what was carried is
\* older than what is pending and went over no newer connection.
CarriedOK ==
    /\ user = "Connecting" => waiting \in Oneshots /\ waiting <= shared
    /\ user \in {"Flushing", "Connecting"} => popped < submitted
    /\ websocket <= shared
    /\ user = "Connecting" => websocket = 0
    /\ \A i \in 1..Len(carried) :
           /\ carried[i].message <= popped
           /\ carried[i].connection <= shared
           /\ websocket # 0 => carried[i].connection <= websocket
           /\ user = "Connecting" => carried[i].connection <= waiting

IInv == TypeOK /\ OneshotsOK /\ CarriedOK

\* The invariant holds at first.
LEMMA InitInvariant == Init => IInv
<1> SUFFICES ASSUME Init PROVE IInv
  OBVIOUS
<1> USE AttemptsArePositive, MessagesAreNatural, PlatformsAreKnown
<1>1. carried = << >> /\ Len(carried) = 0 /\ 1..Len(carried) = {}
  BY EmptySeq DEF Init
<1>2. NoConnection \in Connections
  BY DEF NoConnection, Connections, Results
<1>3. TypeOK
  BY <1>1, <1>2, EmptySeq DEF Init, TypeOK, Attempts, Oneshots
<1>4. OneshotsOK
  BY DEF Init, OneshotsOK, Oneshots
<1>5. CarriedOK
  BY <1>1 DEF Init, CarriedOK
<1> QED BY <1>3, <1>4, <1>5 DEF IInv

-----------------------------------------------------------------------------
(* The steps. *)

\* What was carried has its type, item by item.
LEMMA ItemsTyped ==
  ASSUME TypeOK, NEW i \in 1..Len(carried)
  PROVE  carried[i].message \in Nat /\ carried[i].connection \in Attempts
<1> DEFINE Item == [message : 1..MaxMessages, connection : Attempts]
<1>1. carried \in Seq(Item)
  BY DEF TypeOK
<1>2. carried[i] \in Item
  <2> HIDE DEF Item
  <2> QED BY <1>1, ElementOfSeq
<1> QED BY <1>2, MessagesAreNatural

\* An error of the task leaves its oneshots as the invariant has them.
LEMMA RetryKeeps ==
  ASSUME TypeOK, UNCHANGED attempt, NEW error, NEW oneshots, Retry(error, oneshots),
         oneshots \in [Oneshots -> {"Open", "Sent", "Dropped"}],
         shared' \in Oneshots, shared' <= attempt + 1,
         \A k \in Oneshots : /\ oneshots[k] = "Sent" => k <= attempt
                             /\ oneshots[k] = "Open" => k > attempt
  PROVE  /\ OneshotsOK'
         /\ task' \in {"Waiting", "Dead"}
         /\ oneshot' \in [Oneshots -> {"Open", "Sent", "Dropped"}]
<1> USE AttemptsArePositive
<1>1. CASE task' = "Waiting" /\ oneshot' = oneshots /\ attempt < MaxAttempts
  BY <1>1 DEF TypeOK, OneshotsOK, Attempts, Oneshots
<1>2. CASE task' = "Dead" /\ oneshot' = Closed(oneshots)
  BY <1>2 DEF TypeOK, OneshotsOK, Attempts, Oneshots, Closed
<1> QED BY <1>1, <1>2 DEF Retry

\* Steps of the task.
LEMMA TaskKeeps == IInv /\ TaskNext => IInv'
<1> SUFFICES ASSUME IInv, TaskNext PROVE IInv'
  OBVIOUS
<1> USE AttemptsArePositive
<1>0. TypeOK /\ OneshotsOK /\ CarriedOK
  BY DEF IInv
<1>1. CASE Connects
  <2>1. Up \in Connections
    BY DEF Up, NoConnection, Connections, Results
  <2> QED BY <1>0, <1>1, <2>1 DEF Connects, IInv, TypeOK, OneshotsOK, CarriedOK, signaling, Attempts, Oneshots
<1>2. ASSUME NEW error \in Errors, ConnectFails(error) PROVE IInv'
  <2> DEFINE oneshots == [oneshot EXCEPT ![attempt] = "Dropped"]
  <2>1. /\ oneshots \in [Oneshots -> {"Open", "Sent", "Dropped"}]
        /\ \A k \in Oneshots : /\ oneshots[k] = "Sent" => k <= attempt
                               /\ oneshots[k] = "Open" => k > attempt
    BY <1>0, <1>2 DEF ConnectFails, TypeOK, OneshotsOK, Attempts, Oneshots
  <2>2. Retry(error, oneshots) /\ UNCHANGED <<attempt, shared>>
    BY <1>2 DEF ConnectFails
  <2> HIDE DEF oneshots
  <2>3. /\ OneshotsOK' /\ task' \in {"Waiting", "Dead"}
        /\ oneshot' \in [Oneshots -> {"Open", "Sent", "Dropped"}]
    BY <1>0, <2>1, <2>2, RetryKeeps DEF TypeOK, OneshotsOK
  <2> QED BY <1>0, <1>2, <2>3 DEF ConnectFails, IInv, TypeOK, CarriedOK, signaling
<1>3. CASE Joins
  <2>1. /\ shared' = attempt + 1 /\ shared' \in Oneshots /\ shared <= shared'
        /\ Retry(Joined(connection[attempt].result), oneshot)
        /\ UNCHANGED <<platform, attempt, signaling, carried, arrived>>
    BY <1>0, <1>3 DEF Joins, SharedAfterLoss, TypeOK, OneshotsOK, Attempts, Oneshots
  <2>2. connection' \in [Attempts -> Connections]
    BY <1>0, <1>3 DEF Joins, Taken, TypeOK, Connections, Results
  <2>3. \A k \in Oneshots : /\ oneshot[k] = "Sent" => k <= attempt
                            /\ oneshot[k] = "Open" => k > attempt
    BY <1>0, <1>3 DEF Joins, TypeOK, OneshotsOK, Attempts, Oneshots
  <2>4. /\ OneshotsOK' /\ task' \in {"Waiting", "Dead"}
        /\ oneshot' \in [Oneshots -> {"Open", "Sent", "Dropped"}]
    BY SMTT(30), <1>0, <2>1, <2>3, RetryKeeps DEF TypeOK
  <2>5. TypeOK'
    BY <1>0, <2>1, <2>2, <2>4 DEF TypeOK, signaling
  <2>6. /\ shared \in Nat /\ shared' \in Nat /\ popped \in Nat
        /\ websocket \in Nat /\ UNCHANGED <<user, popped, submitted, websocket, waiting>>
    BY <1>0, <2>1, MessagesAreNatural DEF TypeOK, signaling, Attempts, Oneshots
  <2>7. \A i \in 1..Len(carried) : carried'[i].connection <= shared'
    <3> SUFFICES ASSUME NEW i \in 1..Len(carried) PROVE carried'[i].connection <= shared'
      OBVIOUS
    <3>1. carried[i].connection \in Nat /\ carried[i].connection <= shared
      BY <1>0, ItemsTyped DEF CarriedOK, Attempts
    <3> QED BY <2>1, <2>6, <3>1
  <2>8. user = "Connecting" => waiting \in Oneshots /\ waiting <= shared'
    BY <1>0, <2>1, <2>6 DEF CarriedOK, Oneshots
  <2>9. websocket <= shared'
    BY <1>0, <2>1, <2>6 DEF CarriedOK
  <2>10. CarriedOK'
    <3>1. carried' = carried
      BY <2>1
    <3> QED BY <1>0, <2>6, <2>7, <2>8, <2>9, <3>1 DEF CarriedOK, Oneshots
  <2> QED BY <2>4, <2>5, <2>10 DEF IInv
<1>4. CASE Retries
  <2>1. TypeOK' /\ CarriedOK'
    BY <1>0, <1>4 DEF Retries, TypeOK, OneshotsOK, CarriedOK, signaling, Attempts
  <2>2. OneshotsOK'
    BY <1>0, <1>4 DEF Retries, TypeOK, OneshotsOK, Attempts, Oneshots
  <2> QED BY <2>1, <2>2 DEF IInv
<1>5. CASE Aborts
  BY <1>0, <1>5 DEF Aborts, Closed, IInv, TypeOK, OneshotsOK, CarriedOK, signaling, Attempts, Oneshots
<1> QED BY <1>1, <1>2, <1>3, <1>4, <1>5 DEF TaskNext

\* Steps of the connection and of what it carries.
LEMMA ConnectionKeeps ==
  ASSUME IInv,
         \/ ConnectionEnds \/ HandlerBreaks
         \/ \E error \in Errors : CloseEvent(error)
         \/ \E i \in 1..Len(carried) : Arrives(i)
  PROVE  IInv' /\ UNCHANGED <<submitted, carried>>
<1>0. TypeOK /\ OneshotsOK /\ CarriedOK
  BY DEF IInv
<1>1. ASSUME connection' \in [Attempts -> Connections], arrived' \subseteq 1..Len(carried),
             UNCHANGED <<platform, client, signaling, carried>>
      PROVE  IInv' /\ UNCHANGED <<submitted, carried>>
  BY <1>0, <1>1 DEF IInv, TypeOK, OneshotsOK, CarriedOK, client, signaling
<1>2. ASSUME NEW result \in Results, NEW closeEvent \in BOOLEAN
      PROVE  Ended(result, closeEvent) \in Connections
  BY DEF Ended, Connections
<1>3. CASE ConnectionEnds
  BY <1>0, <1>1, <1>2, <1>3 DEF ConnectionEnds, TypeOK
<1>4. CASE HandlerBreaks
  BY <1>0, <1>1, <1>2, <1>4 DEF HandlerBreaks, TypeOK, Results
<1>5. CASE \E error \in Errors : CloseEvent(error)
  BY <1>0, <1>1, <1>2, <1>5 DEF CloseEvent, TypeOK, Results, Errors
<1>6. CASE \E i \in 1..Len(carried) : Arrives(i)
  BY <1>0, <1>1, <1>6 DEF Arrives, TypeOK
<1> QED BY <1>3, <1>4, <1>5, <1>6

\* Steps of the sender.
LEMMA UserKeeps == IInv /\ UserNext => IInv'
<1> SUFFICES ASSUME IInv, UserNext PROVE IInv'
  OBVIOUS
<1> USE AttemptsArePositive, MessagesAreNatural
<1>0. TypeOK /\ OneshotsOK /\ CarriedOK
  BY DEF IInv
<1>1. \A i \in 1..Len(carried) :
         carried[i].message \in Nat /\ carried[i].connection \in Attempts
  BY <1>0, ItemsTyped
<1>2. CASE Submits
  <2>1. TypeOK' /\ OneshotsOK'
    BY <1>0, <1>2 DEF Submits, TypeOK, OneshotsOK, client
  <2>2. CarriedOK'
    BY <1>0, <1>2 DEF Submits, TypeOK, CarriedOK, client
  <2> QED BY <2>1, <2>2 DEF IInv
<1>3. CASE CallsConnect
  BY <1>0, <1>1, <1>3 DEF CallsConnect, IInv, TypeOK, OneshotsOK, CarriedOK, client, Attempts, Oneshots
<1>4. CASE GetsConnection
  BY <1>0, <1>1, <1>4 DEF GetsConnection, IInv, TypeOK, OneshotsOK, CarriedOK, client, Attempts, Oneshots
<1>5. CASE FindsItDead
  BY <1>0, <1>1, <1>5 DEF FindsItDead, IInv, TypeOK, OneshotsOK, CarriedOK, client, Attempts, Oneshots
<1>6. CASE TimesOut
  BY <1>0, <1>1, <1>6 DEF TimesOut, IInv, TypeOK, OneshotsOK, CarriedOK, client, Attempts, Oneshots
<1>7. CASE Writes
  <2> DEFINE message == [message |-> popped + 1, connection |-> websocket]
  <2>1. message \in [message : 1..MaxMessages, connection : Attempts]
    BY <1>0, <1>7 DEF Writes, TypeOK, CarriedOK, Attempts
  <2>2. /\ carried' = Append(carried, message) /\ Len(carried') = Len(carried) + 1
        /\ carried' \in Seq([message : 1..MaxMessages, connection : Attempts])
        /\ \A i \in 1..Len(carried) : carried'[i] = carried[i]
        /\ carried'[Len(carried) + 1] = message
    BY <1>0, <1>7, <2>1, AppendProperties DEF Writes, TypeOK
  <2>3. /\ popped' = popped + 1 /\ popped' <= submitted
        /\ user' \in {"Idle", "Flushing"} /\ (user' = "Flushing" => popped' < submitted)
    BY <1>0, <1>7 DEF Writes, Popped, Flushed, TypeOK, CarriedOK
  <2>4. /\ websocket \in Attempts
        /\ UNCHANGED <<platform, client, connection, waiting, websocket, submitted, arrived>>
    BY <1>0, <1>7 DEF Writes, TypeOK
  <2>5. Len(carried) \in Nat /\ 1..Len(carried) \subseteq 1..Len(carried')
    BY <1>0, <2>2, LenProperties DEF TypeOK
  <2>6. TypeOK'
    BY <1>0, <2>2, <2>3, <2>4, <2>5 DEF TypeOK, client
  <2>7. OneshotsOK'
    BY <1>0, <2>4 DEF OneshotsOK, client
  <2>8. \A i \in 1..Len(carried') :
           /\ carried'[i].message <= popped'
           /\ carried'[i].connection <= shared
           /\ carried'[i].connection <= websocket
    <3> SUFFICES ASSUME NEW i \in 1..Len(carried')
                 PROVE  /\ carried'[i].message <= popped'
                        /\ carried'[i].connection <= shared
                        /\ carried'[i].connection <= websocket
      OBVIOUS
    <3>0. /\ popped \in Nat /\ popped' = popped + 1
          /\ shared \in Nat /\ websocket \in Nat \ {0} /\ websocket <= shared
      BY <1>0, <2>3, <2>4, MessagesAreNatural DEF TypeOK, CarriedOK, Attempts, Oneshots
    <3>1. CASE i \in 1..Len(carried)
      <4>1. /\ carried'[i] = carried[i] /\ carried[i].message \in Nat
            /\ carried[i].connection \in Nat
            /\ carried[i].message <= popped /\ carried[i].connection <= websocket
        BY SMTT(30), <1>0, <1>1, <2>2, <3>0, <3>1 DEF CarriedOK, Attempts
      <4> QED BY <3>0, <4>1
    <3>2. CASE i = Len(carried) + 1
      BY <2>2, <3>0, <3>2
    <3> QED BY <2>2, <2>5, <3>1, <3>2
  <2>9. CarriedOK'
    BY <1>0, <2>3, <2>4, <2>8 DEF CarriedOK, client
  <2> QED BY <2>6, <2>7, <2>9 DEF IInv
<1>8. ASSUME connection' = [connection EXCEPT ![websocket] = Taken(@)], websocket \in Attempts
      PROVE  connection' \in [Attempts -> Connections]
  BY ZenonT(60), <1>0, <1>8 DEF Taken, TypeOK, Connections, Results
<1>9. CASE WriteFails
  <2>1. /\ popped' = popped + 1 /\ popped' \in 0..submitted
        /\ user' \in {"Idle", "Flushing"} /\ (user' = "Flushing" => popped' < submitted)
    BY <1>0, <1>9 DEF WriteFails, Popped, Flushed, TypeOK, CarriedOK
  <2> QED BY SMTT(30), <1>0, <1>1, <1>8, <1>9, <2>1
          DEF WriteFails, IInv, TypeOK, OneshotsOK, CarriedOK, client, Attempts, Oneshots
<1>10. CASE WritePanics
  BY <1>0, <1>1, <1>8, <1>10
     DEF WritePanics, Closed, IInv, TypeOK, OneshotsOK, CarriedOK, Attempts, Oneshots
<1>11. CASE Leaves
  BY SMTT(30), <1>0, <1>1, <1>11 DEF Leaves, IInv, TypeOK, OneshotsOK, CarriedOK, client, Attempts, Oneshots
<1> QED BY <1>2, <1>3, <1>4, <1>5, <1>6, <1>7, <1>9, <1>10, <1>11 DEF UserNext

\* Every step keeps the invariant.
LEMMA NextInvariant == IInv /\ [Next]_vars => IInv'
<1>1. CASE UNCHANGED vars
  BY <1>1 DEF vars, client, signaling, IInv, TypeOK, OneshotsOK, CarriedOK
<1> QED BY <1>1, TaskKeeps, ConnectionKeeps, UserKeeps DEF Next

\* The invariant of the websocket client.
LEMMA Invariance == Spec => []IInv
BY InitInvariant, NextInvariant, PTL DEF Spec

-----------------------------------------------------------------------------
(* The theorems. *)

\* Every variable has its type: no message is popped that was not pending, and an
\* attempt beyond the schedule is not made.
THEOREM TypeCorrect == Spec => []TypeOK
<1>1. IInv => TypeOK
  BY DEF IInv
<1> QED BY <1>1, Invariance, PTL

\* A call of connect() that has no answer yet waits for an attempt under way or about
\* to start, however the swap of the shared oneshot falls between its clone and its await.
THEOREM NoWaitInVain == Spec => []NobodyWaitsInVain
<1>1. IInv => NobodyWaitsInVain
  BY AttemptsArePositive
     DEF IInv, TypeOK, OneshotsOK, CarriedOK, NobodyWaitsInVain, Attempts, Oneshots
<1> QED BY <1>1, Invariance, PTL

\* The sender over all its connections implements the signaling line.
THEOREM ImplementsTheLine == Spec => IsALine
<1>1. Init => Line!Init
  BY DEF Init, Line!Init
<1>2. IInv /\ [Next]_vars => [Line!Next]_(Line!vars)
  <2> SUFFICES ASSUME IInv, [Next]_vars PROVE [Line!Next]_(Line!vars)
    OBVIOUS
  <2>0. TypeOK /\ CarriedOK
    BY DEF IInv
  <2>1. ASSUME UNCHANGED <<submitted, carried, arrived>> PROVE [Line!Next]_(Line!vars)
    BY <2>1 DEF Line!vars
  <2>2. CASE UNCHANGED vars \/ TaskNext
    BY <2>1, <2>2 DEF vars, TaskNext, Connects, ConnectFails, Joins, Retries, Aborts, signaling
  <2>3. CASE Submits
    BY <2>3 DEF Submits, Line!Next, Line!Submit
  <2>4. CASE CallsConnect \/ GetsConnection \/ FindsItDead \/ TimesOut \/ WriteFails
             \/ WritePanics \/ Leaves
    BY <2>1, <2>4 DEF CallsConnect, GetsConnection, FindsItDead, TimesOut, WriteFails,
                      WritePanics, Leaves
  <2>5. CASE Writes
    <3>1. /\ carried' = Append(carried, [message |-> popped + 1, connection |-> websocket])
          /\ websocket \in Attempts /\ popped + 1 \in 1..submitted
          /\ UNCHANGED <<submitted, arrived>>
      BY <2>0, <2>5 DEF Writes, TypeOK, CarriedOK
    <3>2. \A i \in 1..Len(carried) :
             carried[i].message < popped + 1 /\ carried[i].connection <= websocket
      <4>1. popped \in Nat /\ websocket # 0
        BY <2>0, <3>1, MessagesAreNatural DEF TypeOK, Attempts
      <4>2. \A i \in 1..Len(carried) :
               /\ carried[i].message \in Nat /\ carried[i].message <= popped
               /\ carried[i].connection <= websocket
        BY <2>0, <4>1, ItemsTyped DEF CarriedOK
      <4> QED BY <4>1, <4>2
    <3>3. Line!Carry(popped + 1, websocket)
      BY <3>1, <3>2 DEF Line!Carry
    <3> QED BY <3>1, <3>3 DEF Line!Next
  <2>6. CASE ConnectionEnds \/ HandlerBreaks \/ \E error \in Errors : CloseEvent(error)
    BY <2>1, <2>6 DEF ConnectionEnds, HandlerBreaks, CloseEvent, signaling
  <2>7. CASE \E i \in 1..Len(carried) : Arrives(i)
    BY <2>7 DEF Arrives, signaling, Line!Next, Line!Arrive
  <2> QED BY <2>2, <2>3, <2>4, <2>5, <2>6, <2>7 DEF Next, UserNext
<1> QED BY <1>1, <1>2, Invariance, PTL DEF Spec, Line!Spec, IsALine
=============================================================================
