----------------------------- MODULE MCSession -----------------------------
(* Session checked alone, with its channels bounded by MaxQueue.           *)
EXTENDS Session, TLC

CONSTANTS MaxQueue

\* The session does not look at where a chunk comes from or whether it is the
\* last one; its size is all that its state depends on.
MCChunks == [at : {0}, size : Positions, final : {FALSE}]

\* No download has more than MaxQueue events to read.
Room == \A d \in Downloads : Len(events[d]) <= MaxQueue

\* Answers and websocket commands are read before the next command is served:
\* no command looks at what has not been read, so this loses no session state.
Prompt ==
    (\E h \in Callers : answers[h] # NoAnswer) \/ (\E w \in Peers : inbox[w] # <<>>)
        => (\E h \in Callers : TakeAnswer(h)) \/ (\E w \in Peers : TakeCommand(w))

BoundedNext == Next /\ Room' /\ Prompt
BoundedSpec == Init /\ [][BoundedNext]_vars

Symmetry == Permutations(Uploads) \cup Permutations(Downloads)
                \cup Permutations(UpPeers) \cup Permutations(DownPeers)
=============================================================================
