--------------------------- MODULE UploaderProofs ---------------------------
(***************************************************************************)
(* Theorems about Uploader, for every size of file and any number of       *)
(* acknowledgements on their way.                                          *)
(***************************************************************************)
EXTENDS Uploader, TLAPS

\* The relayed upload has returned exactly when the upload has, and only the tasks of
\* the transport run.
TasksOK ==
    /\ transport = "P2P" => pc = "None"
    /\ transport = "Relay" => p2p = "None"
    /\ transport # "P2P" => result = outcome
    /\ transport = "P2P" /\ outcome = "None" => p2p = "Running"

IInv == TypeOK /\ SlicesFit /\ OutcomeIsTheRelays /\ TasksOK

\* The invariant holds at first.
LEMMA InitInvariant == Init => IInv
<1> SUFFICES ASSUME Init PROVE IInv
  OBVIOUS
<1>1. transport \in {"Both", "P2P", "Relay"} /\ 0 \in Positions /\ 0 \in 0..MaxAcks /\ 0 <= Size
  BY SizeIsPositive, AcksAreNatural, TransportsAreKnown DEF Init, Positions
<1>2. acked \in BOOLEAN /\ quiet \in BOOLEAN
  BY DEF Init
<1>3. TypeOK
  BY <1>1, <1>2 DEF Init, TypeOK
<1>4. SlicesFit /\ OutcomeIsTheRelays /\ TasksOK
  BY <1>1 DEF Init, SlicesFit, OutcomeIsTheRelays, TasksOK
<1> QED BY <1>3, <1>4 DEF IInv

\* What the ends of a request and of an attempt may change.
LEMMA FailuresKeep ==
  ASSUME IInv, Running, Attempting, position' \in Positions,
         UNCHANGED <<transport, p2p>>,
         NEW error, NEW classified,
         AttemptFails(classified) \/ RequestFails(error, classified),
         pc' = "Backoff" => position' <= Size
  PROVE  /\ pc' \in {"Backoff", "Waiting", "Done"} /\ result' \in {"None", "Ok", "Error"}
         /\ outcome' \in {"None", "Ok", "Error"}
         /\ SlicesFit' /\ OutcomeIsTheRelays' /\ TasksOK'
<1> USE DEF IInv, TypeOK, SlicesFit, OutcomeIsTheRelays, TasksOK, Running, Attempting
<1>1. CASE Returns("Error")
  BY <1>1 DEF Returns
<1>2. CASE pc' = "Waiting" /\ UNCHANGED <<result, outcome>>
  BY <1>2
<1>3. CASE pc' = "Backoff" /\ UNCHANGED <<result, outcome>>
  BY <1>3
<1> QED BY <1>1, <1>2, <1>3 DEF AttemptFails, RequestFails

\* Every step keeps the invariant.
LEMMA NextInvariant == IInv /\ [Next]_vars => IInv'
<1> SUFFICES ASSUME IInv, [Next]_vars PROVE IInv'
  OBVIOUS
<1> USE SizeIsPositive, AcksAreNatural
<1>1. CASE UNCHANGED vars
  BY <1>1 DEF vars, attempt, relay, IInv, TypeOK, SlicesFit, OutcomeIsTheRelays, TasksOK,
              Attempting
<1>2. CASE AttemptBegins \/ BackoffEnds
  <2>1. 0 \in Positions /\ 0 <= Size
    BY DEF Positions
  <2>2. acked' \in BOOLEAN
    BY <1>2 DEF AttemptBegins, BackoffEnds, attempt, IInv, TypeOK
  <2>3. TypeOK'
    BY <1>2, <2>1, <2>2 DEF AttemptBegins, BackoffEnds, NewTimer, attempt, relay, IInv, TypeOK
  <2>4. SlicesFit' /\ OutcomeIsTheRelays' /\ TasksOK'
    BY <1>2, <2>1 DEF AttemptBegins, BackoffEnds, Running, Attempting,
                      IInv, SlicesFit, OutcomeIsTheRelays, TasksOK
  <2> QED BY <2>3, <2>4 DEF IInv
<1>3. CASE TimesOut
  <2>1. /\ Running /\ Attempting /\ AttemptFails("Transient")
        /\ UNCHANGED <<transport, position, attempt, p2p, acks, relay>>
    BY <1>3 DEF TimesOut
  <2>2. pc' = "Backoff" => position' <= Size
    BY <2>1 DEF AttemptFails, Returns
  <2>3. /\ pc' \in {"Backoff", "Waiting", "Done"} /\ result' \in {"None", "Ok", "Error"}
        /\ outcome' \in {"None", "Ok", "Error"}
        /\ SlicesFit' /\ OutcomeIsTheRelays' /\ TasksOK'
    BY <2>1, <2>2, FailuresKeep DEF IInv, TypeOK
  <2> QED BY <2>1, <2>3 DEF IInv, TypeOK, attempt, relay
<1>4. CASE StartAccepted \/ ContentAccepted
  BY <1>4 DEF StartAccepted, ContentAccepted, Returns, Running, attempt, relay, Attempting,
              IInv, TypeOK, SlicesFit, OutcomeIsTheRelays, TasksOK
<1>5. ASSUME NEW p \in Positions, Conflict(p) PROVE IInv'
  <2>1. /\ Running /\ Attempting /\ position' = p
        /\ UNCHANGED <<transport, attempt, p2p, acks, relay>>
    BY <1>5 DEF Conflict, Stored, Requesting, Attempting
  <2>2. CASE pc' = "Starting" /\ p <= Size /\ UNCHANGED <<result, outcome>>
    BY <2>1, <2>2 DEF Running, attempt, relay, Attempting,
                      IInv, TypeOK, SlicesFit, OutcomeIsTheRelays, TasksOK
  <2>3. CASE \/ p > Size /\ RequestFails("Permanent", "Permanent")
             \/ p <= Size /\ RequestFails("Transient", "Permanent")
    <3>1. pc' = "Backoff" => position' <= Size
      BY <2>1, <2>3 DEF RequestFails, AttemptFails, Returns
    <3>2. /\ pc' \in {"Backoff", "Waiting", "Done"} /\ result' \in {"None", "Ok", "Error"}
          /\ outcome' \in {"None", "Ok", "Error"}
          /\ SlicesFit' /\ OutcomeIsTheRelays' /\ TasksOK'
      BY <2>1, <2>3, <3>1, FailuresKeep
    <3> QED BY <2>1, <3>2 DEF IInv, TypeOK, attempt, relay
  <2> QED BY <1>5, <2>2, <2>3 DEF Conflict, BeyondTheFile, Positions
<1>6. ASSUME NEW error \in {"Transient", "Permanent"}, RequestRefused(error) PROVE IInv'
  <2>1. /\ Running /\ Attempting /\ RequestFails(error, error)
        /\ UNCHANGED <<transport, position, attempt, p2p, acks, relay>>
    BY <1>6 DEF RequestRefused, Requesting, Attempting
  <2>2. position' \in Positions /\ position' <= Size
    BY <2>1 DEF IInv, TypeOK, SlicesFit
  <2>3. /\ pc' \in {"Backoff", "Waiting", "Done"} /\ result' \in {"None", "Ok", "Error"}
        /\ outcome' \in {"None", "Ok", "Error"}
        /\ SlicesFit' /\ OutcomeIsTheRelays' /\ TasksOK'
    BY <2>1, <2>2, FailuresKeep
  <2> QED BY <2>1, <2>2, <2>3 DEF IInv, TypeOK, attempt, relay
<1>7. CASE RelayAcks \/ AckArrives \/ AckIsLost
  <2>1. acked' \in BOOLEAN
    BY <1>7 DEF RelayAcks, AckArrives, AckIsLost, attempt, Attempting, IInv, TypeOK
  <2>2. acks' \in 0..MaxAcks
    BY <1>7 DEF RelayAcks, AckArrives, AckIsLost, IInv, TypeOK
  <2>3. TypeOK'
    BY <1>7, <2>1, <2>2 DEF RelayAcks, AckArrives, AckIsLost, attempt, relay, IInv, TypeOK
  <2>4. SlicesFit' /\ OutcomeIsTheRelays' /\ TasksOK'
    BY <1>7 DEF RelayAcks, AckArrives, AckIsLost, Attempting,
                IInv, SlicesFit, OutcomeIsTheRelays, TasksOK
  <2> QED BY <2>3, <2>4 DEF IInv
<1>8. CASE PeerFinishes \/ PeerFails
  BY <1>8 DEF PeerFinishes, PeerFails, EndsWithPeer, Running, attempt, relay, Attempting,
              IInv, TypeOK, SlicesFit, OutcomeIsTheRelays, TasksOK
<1>9. CASE (\E p \in Positions : RelayMoves(p)) \/ RelaySettles
  <2>1. quiet' \in BOOLEAN /\ wanted' \in Positions
    BY <1>9 DEF RelayMoves, RelaySettles, IInv, TypeOK
  <2>2. TypeOK'
    BY <1>9, <2>1 DEF RelayMoves, RelaySettles, attempt, IInv, TypeOK
  <2>3. SlicesFit' /\ OutcomeIsTheRelays' /\ TasksOK'
    BY <1>9 DEF RelayMoves, RelaySettles, Attempting,
                IInv, SlicesFit, OutcomeIsTheRelays, TasksOK
  <2> QED BY <2>2, <2>3 DEF IInv
<1> QED BY <1>1, <1>2, <1>3, <1>4, <1>5, <1>6, <1>7, <1>8, <1>9 DEF Next, Answers

\* The invariant of the uploading client.
LEMMA Invariance == Spec => []IInv
BY InitInvariant, NextInvariant, PTL DEF Spec

\* Every variable has its type.
THEOREM TypeCorrect == Spec => []TypeOK
<1>1. IInv => TypeOK
  BY DEF IInv
<1> QED BY <1>1, Invariance, PTL

\* No request slices the file beyond its end, whatever positions the relay names and
\* however often it is asked.
THEOREM NoSlicePanics == Spec => []SlicesFit
<1>1. IInv => SlicesFit
  BY DEF IInv
<1> QED BY <1>1, Invariance, PTL

\* With the relay involved, the upload ends with the relayed upload and as it does.
THEOREM EndsAsTheRelaySays == Spec => []OutcomeIsTheRelays
<1>1. IInv => OutcomeIsTheRelays
  BY DEF IInv
<1> QED BY <1>1, Invariance, PTL
=============================================================================
