-------------------------- MODULE WebSocketClient --------------------------
(***************************************************************************)
(* The client's websocket (websocket.rs) with its two implementations      *)
(* (websocket/native.rs, websocket/web.rs), and the one who sends over it, *)
(* SignalingWebSocket of p2p.rs.                                           *)
(*                                                                         *)
(* A task connects, waits for the end of the connection and connects       *)
(* again, until an error is permanent or its schedule is out of time.      *)
(* Attempt k offers its connection through oneshot k.  connect() waits on  *)
(* the oneshot that the client shares, which the task replaces each time a *)
(* connection was lost.                                                    *)
(*                                                                         *)
(* The client is one thread, interrupted at its awaits; a native           *)
(* connection has a thread of its own, and the events of a web connection  *)
(* are callbacks.  External: the network and the server, which end         *)
(* connections at any time, and deliver or lose what a connection carries. *)
(***************************************************************************)
EXTENDS Integers, Sequences

CONSTANTS
    Platforms,      \* the implementations under consideration
    MaxAttempts,    \* bound: the attempts made
    MaxMessages     \* bound: the messages submitted

ASSUME PlatformsAreKnown == Platforms \subseteq {"native", "web"}
ASSUME AttemptsArePositive == MaxAttempts \in Nat \ {0}
ASSUME MessagesAreNatural == MaxMessages \in Nat

VARIABLES
    platform,      \* DefaultWebSocketConnection
    task,          \* what websocket_task is at
    attempt,       \* the attempt of websocket_task, from 1
    shared,        \* WebSocketClient::connection: the oneshot it receives from
    oneshot,       \* the oneshots: attempt k sends to oneshot[k]
    connection,    \* the connections: attempt k makes connection[k]
    user,          \* what SignalingWebSocket is at
    waiting,       \* the oneshot a call of connect() awaits
    websocket,     \* SignalingWebSocket::websocket, or 0
    submitted,     \* how many messages were pushed to SignalingWebSocket::pending
    popped,        \* how many of them were popped
    carried,       \* the messages written to a connection, in order
    arrived        \* the indices in carried of those the relay has received

client == <<task, attempt, shared, oneshot>>
signaling == <<user, waiting, websocket, submitted, popped>>
vars == <<platform, client, connection, signaling, carried, arrived>>

Attempts == 1..MaxAttempts
Oneshots == 1..MaxAttempts + 1

\* What is left to take from a connection that ended: a native thread is
\* joined once; the error of a web connection is taken from its cell, which a
\* close by the application leaves empty.
Results == {"Ok", "Transient", "Permanent", "Taken"}
Connections == [state : {"None", "Up", "Ended"}, result : Results, closeEvent : BOOLEAN]
NoConnection == [state |-> "None", result |-> "Ok", closeEvent |-> FALSE]
Up == [NoConnection EXCEPT !.state = "Up"]
Ended(result, closeEvent) == [state |-> "Ended", result |-> result, closeEvent |-> closeEvent]

\* join_sync (native), try_join (web): the result is taken.
Taken(c) == [c EXCEPT !.result = IF platform = "native" THEN "Taken" ELSE "Ok"]

\* How retry sees what join() returned: an orderly end counts as status 1006,
\* a thread joined before as an error of the client.
Joined(result) ==
    CASE result = "Ok" -> "Transient"
      [] result = "Taken" -> "Permanent"
      [] OTHER -> result

Init ==
    /\ platform \in Platforms
    /\ task = "Connecting" /\ attempt = 1 /\ shared = 1
    /\ oneshot = [k \in Oneshots |-> "Open"]
    /\ connection = [k \in Attempts |-> NoConnection]
    /\ user = "Idle" /\ waiting = 0 /\ websocket = 0
    /\ submitted = 0 /\ popped = 0
    /\ carried = << >> /\ arrived = {}

-----------------------------------------------------------------------------
(* The task. *)

\* mutant: the sender of the next attempt outlives the task
ClosedButNext(oneshots) == oneshots
\* A task that ends drops the senders it has not used.
Closed(oneshots) == [k \in Oneshots |-> IF oneshots[k] = "Open" THEN "Dropped" ELSE oneshots[k]]

\* retry: after a transient error another attempt is made, unless the schedule
\* is out of time; a permanent error ends the task.  (An answer with Retry-After is
\* retried whatever the schedule says: here it is one of the MaxAttempts.)
Retry(error, oneshots) ==
    \/ /\ error = "Transient" /\ attempt < MaxAttempts
       /\ task' = "Waiting" /\ oneshot' = oneshots
    \/ task' = "Dead" /\ oneshot' = Closed(oneshots)

Connects ==
    /\ task = "Connecting"
    /\ task' = "Joined"
    /\ oneshot' = [oneshot EXCEPT ![attempt] = "Sent"]
    /\ connection' = [connection EXCEPT ![attempt] = Up]
    /\ UNCHANGED <<platform, attempt, shared, signaling, carried, arrived>>

ConnectFails(error) ==
    /\ task = "Connecting"
    /\ Retry(error, [oneshot EXCEPT ![attempt] = "Dropped"])
    /\ UNCHANGED <<platform, attempt, shared, connection, signaling, carried, arrived>>

\* mutant: the client shares the oneshot of the attempt after the next one
SharedAhead == IF attempt < MaxAttempts THEN attempt + 2 ELSE attempt + 1
SharedAfterLoss == attempt + 1

\* The connection ended: join() takes its result, and the client shares the
\* oneshot of the next attempt.
Joins ==
    /\ task = "Joined" /\ connection[attempt].state = "Ended"
    /\ connection' = [connection EXCEPT ![attempt] = Taken(@)]
    /\ shared' = SharedAfterLoss
    /\ Retry(Joined(connection[attempt].result), oneshot)
    /\ UNCHANGED <<platform, attempt, signaling, carried, arrived>>

Retries ==
    /\ task = "Waiting"
    /\ task' = "Connecting" /\ attempt' = attempt + 1
    /\ UNCHANGED <<platform, shared, oneshot, connection, signaling, carried, arrived>>

\* The last WebSocketClient is dropped: WebSocketTaskHandle aborts the task.
Aborts ==
    /\ user = "Gone" /\ task # "Dead"
    /\ task' = "Dead" /\ oneshot' = Closed(oneshot)
    /\ UNCHANGED <<platform, attempt, shared, connection, signaling, carried, arrived>>

-----------------------------------------------------------------------------
(* The connection. *)

\* The server closes, the network fails, or a message cannot be decoded.  A
\* native connection that is closed without a status, or whose stream ends,
\* ends Ok.
ConnectionEnds ==
    \E result \in Results \ {"Taken"}, closeEvent \in BOOLEAN :
        /\ connection[attempt].state = "Up"
        /\ platform = "native" => ~closeEvent
        /\ platform = "web" => result = "Permanent" \/ (closeEvent /\ result = "Transient")
        /\ connection' = [connection EXCEPT ![attempt] = Ended(result, closeEvent)]
        /\ UNCHANGED <<platform, client, signaling, carried, arrived>>

\* A signaling message for a peer-to-peer client that is gone: the handler
\* breaks, which ends the connection.
HandlerBreaks ==
    /\ user = "Gone" /\ connection[attempt].state = "Up"
    /\ connection' = [connection EXCEPT ![attempt] = Ended("Ok", FALSE)]
    /\ UNCHANGED <<platform, client, signaling, carried, arrived>>

\* The close event of a web connection that had ended already sets its error again.
CloseEvent(error) ==
    /\ platform = "web"
    /\ connection[attempt].state = "Ended" /\ ~connection[attempt].closeEvent
    /\ connection' = [connection EXCEPT ![attempt] = Ended(error, TRUE)]
    /\ UNCHANGED <<platform, client, signaling, carried, arrived>>

\* What a connection carries arrives in order, if it arrives.
Arrives(i) ==
    /\ i \notin arrived
    /\ \A j \in arrived : carried[j].connection = carried[i].connection => j < i
    /\ arrived' = arrived \cup {i}
    /\ UNCHANGED <<platform, client, connection, signaling, carried>>

-----------------------------------------------------------------------------
(* SignalingWebSocket. *)

\* send: the message is queued, then everything queued is flushed.
Submits ==
    /\ user = "Idle" /\ submitted < MaxMessages
    /\ submitted' = submitted + 1
    /\ user' = "Flushing"
    /\ UNCHANGED <<platform, client, connection, waiting, websocket, popped, carried, arrived>>

\* flush without a websocket: connect() clones the shared receiver.
CallsConnect ==
    /\ user = "Flushing" /\ websocket = 0
    /\ user' = "Connecting" /\ waiting' = shared
    /\ UNCHANGED <<platform, client, connection, websocket, submitted, popped, carried, arrived>>

GetsConnection ==
    /\ user = "Connecting" /\ oneshot[waiting] = "Sent"
    /\ user' = "Flushing" /\ websocket' = waiting /\ waiting' = 0
    /\ UNCHANGED <<platform, client, connection, submitted, popped, carried, arrived>>

\* "websocket thread died": the flush fails and its messages stay pending.
FindsItDead ==
    /\ user = "Connecting" /\ oneshot[waiting] = "Dropped"
    /\ user' = "Idle" /\ waiting' = 0
    /\ UNCHANGED <<platform, client, connection, websocket, submitted, popped, carried, arrived>>

\* Out of time, before the call or while it waits; an answer that is there wins.
TimesOut ==
    /\ \/ user = "Flushing" /\ websocket = 0
       \/ user = "Connecting" /\ oneshot[waiting] = "Open"
    /\ user' = "Idle" /\ waiting' = 0
    /\ UNCHANGED <<platform, client, connection, websocket, submitted, popped, carried, arrived>>

\* The front message is popped whether it was sent or not.
\* mutant: a message that was sent stays pending
PoppedUnlessSent == IF connection[websocket].state = "Up" THEN popped ELSE popped + 1
Popped == popped + 1
Flushed(n) == IF n >= submitted THEN "Idle" ELSE "Flushing"

Writes ==
    /\ user = "Flushing" /\ websocket # 0 /\ connection[websocket].state = "Up"
    /\ carried' = Append(carried, [message |-> popped + 1, connection |-> websocket])
    /\ popped' = Popped /\ user' = Flushed(Popped)
    /\ UNCHANGED <<platform, client, connection, waiting, websocket, submitted, arrived>>

\* send fails: the error is taken from the connection and logged, the websocket
\* forgotten, and the message popped all the same.
WriteFails ==
    /\ user = "Flushing" /\ websocket # 0 /\ connection[websocket].state = "Ended"
    /\ ~(platform = "native" /\ connection[websocket].result = "Ok")
    /\ connection' = [connection EXCEPT ![websocket] = Taken(@)]
    /\ websocket' = 0
    /\ popped' = Popped /\ user' = Flushed(Popped)
    /\ UNCHANGED <<platform, client, waiting, submitted, carried, arrived>>

\* A native connection that ended Ok: unwrap_err panics, and the client with it.
WritePanics ==
    /\ user = "Flushing" /\ websocket # 0 /\ connection[websocket].state = "Ended"
    /\ platform = "native" /\ connection[websocket].result = "Ok"
    /\ connection' = [connection EXCEPT ![websocket] = Taken(@)]
    /\ user' = "Panicked"
    /\ task' = "Dead" /\ oneshot' = Closed(oneshot)
    /\ UNCHANGED <<platform, attempt, shared, waiting, websocket, submitted, popped, carried, arrived>>

\* The peer-to-peer client is dropped, between two messages or while it awaits.
Leaves ==
    /\ user \notin {"Gone", "Panicked"}
    /\ user' = "Gone" /\ waiting' = 0 /\ websocket' = 0
    /\ UNCHANGED <<platform, client, connection, submitted, popped, carried, arrived>>

-----------------------------------------------------------------------------

Errors == {"Transient", "Permanent"}

TaskNext ==
    \/ Connects
    \/ \E error \in Errors : ConnectFails(error)
    \/ Joins \/ Retries \/ Aborts

UserNext ==
    \/ Submits \/ CallsConnect \/ GetsConnection \/ FindsItDead \/ TimesOut
    \/ Writes \/ WriteFails \/ WritePanics \/ Leaves

Next ==
    \/ TaskNext \/ UserNext
    \/ ConnectionEnds \/ HandlerBreaks
    \/ \E error \in Errors : CloseEvent(error)
    \/ \E i \in 1..Len(carried) : Arrives(i)

Spec == Init /\ [][Next]_vars

\* An attempt to connect ends, one way or the other, the backoff passes, and a
\* call whose oneshot was answered is polled again.
FairSpec ==
    /\ Spec
    /\ WF_vars(Connects \/ \E error \in Errors : ConnectFails(error))
    /\ WF_vars(Retries)
    /\ WF_vars(GetsConnection \/ FindsItDead)

-----------------------------------------------------------------------------

TypeOK ==
    /\ platform \in {"native", "web"}
    /\ task \in {"Connecting", "Joined", "Waiting", "Dead"}
    /\ attempt \in Attempts
    /\ shared \in Oneshots
    /\ oneshot \in [Oneshots -> {"Open", "Sent", "Dropped"}]
    /\ connection \in [Attempts -> Connections]
    /\ user \in {"Idle", "Flushing", "Connecting", "Panicked", "Gone"}
    /\ waiting \in Oneshots \cup {0}
    /\ websocket \in Attempts \cup {0}
    /\ submitted \in 0..MaxMessages
    /\ popped \in 0..submitted
    /\ carried \in Seq([message : 1..MaxMessages, connection : Attempts])
    /\ arrived \subseteq 1..Len(carried)

\* A call of connect() that has no answer yet waits for an attempt that is under
\* way or about to start: never for the oneshot of an attempt that is over, nor
\* of one that a task that has ended will not make, nor behind a connection
\* that is up.  (The shared receiver is cloned under a lock and awaited outside
\* of it, while the task swaps it: websocket.rs:193, 218.)
NobodyWaitsInVain ==
    user = "Connecting" /\ oneshot[waiting] = "Open" =>
        \/ task = "Connecting" /\ waiting = attempt
        \/ task = "Waiting" /\ waiting = attempt + 1

\* Over all its connections, the sender is a signaling line: no message is sent
\* twice, although the flush that failed is resumed by the next one, and none
\* goes over a connection older than that of the message before it.
Line == INSTANCE SignalingLine WITH Lines <- Attempts
IsALine == Line!Spec

\* connect() returns, with a connection or an error, whatever the network does:
\* the timeouts of a downloader only bound how long that takes, and an uploader
\* has none (p2p.rs:481).
ConnectReturns == user = "Connecting" ~> user # "Connecting"

=============================================================================
