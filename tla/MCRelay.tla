------------------------------ MODULE MCRelay ------------------------------
(* Relay on small instances.                                               *)
EXTENDS Relay, TLC

CONSTANTS MaxFrames

\* Every way to cut the file into chunks.
MCChunks == {c \in [at : Positions, size : Positions, final : BOOLEAN] :
                /\ c.at + c.size <= FileSize
                /\ c.final = (c.at + c.size = FileSize)
                /\ c.size > 0 \/ c.at = FileSize}

\* The n-th frame that the client of connection w sends.
MCFrames == Peers \X (1..MaxFrames)

Symmetry == Permutations(Uploads) \cup Permutations(Downloads)
                \cup Permutations(UpPeers) \cup Permutations(DownPeers)
=============================================================================
