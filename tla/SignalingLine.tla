--------------------------- MODULE SignalingLine ---------------------------
(***************************************************************************)
(* What one side of the signaling promises the other, whatever happens to  *)
(* its websocket (SignalingWebSocket in p2p.rs, WebSocketClient in         *)
(* websocket.rs): a message is carried at most once, by one connection,    *)
(* and connections take turns.  A message may be skipped, and what a       *)
(* connection carries may be lost; what arrives over one connection        *)
(* arrives in order.  WebSocketClient implements it.                       *)
(***************************************************************************)
EXTENDS Naturals, Sequences

CONSTANT Lines    \* the connections, numbered in the order they are made

VARIABLES
    submitted,    \* how many messages were submitted, numbered from 1
    carried,      \* the messages carried, in order, each with its connection
    arrived       \* the indices in carried of those that arrived

vars == <<submitted, carried, arrived>>

Init == submitted = 0 /\ carried = << >> /\ arrived = {}

Submit == submitted' = submitted + 1 /\ UNCHANGED <<carried, arrived>>

Carry(message, connection) ==
    /\ \A i \in 1..Len(carried) :
           carried[i].message < message /\ carried[i].connection <= connection
    /\ carried' = Append(carried, [message |-> message, connection |-> connection])
    /\ UNCHANGED <<submitted, arrived>>

Arrive(i) ==
    /\ \A j \in arrived : carried[j].connection = carried[i].connection => j < i
    /\ arrived' = arrived \cup {i}
    /\ UNCHANGED <<submitted, carried>>

Next ==
    \/ Submit
    \/ \E message \in 1..submitted, connection \in Lines : Carry(message, connection)
    \/ \E i \in 1..Len(carried) : Arrive(i)

Spec == Init /\ [][Next]_vars
=============================================================================
