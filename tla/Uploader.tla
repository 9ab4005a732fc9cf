------------------------------ MODULE Uploader ------------------------------
(***************************************************************************)
(* The uploading client (upload_provisioned_file_async in                  *)
(* uploader_client.rs): the relayed upload (ApiClient::upload_file) with   *)
(* its two nested retries and the timeout that an acknowledgement from the *)
(* relay disarms (util/timeout.rs), next to the peer-to-peer transfer.     *)
(*                                                                         *)
(* An attempt asks the relay whether it may start from a position, then    *)
(* sends the content from there; a conflict at either names the position   *)
(* to go on from.  Transient errors are retried within the attempt.  An    *)
(* attempt that is not acknowledged in time is dropped, and begun anew     *)
(* from position 0.                                                        *)
(*                                                                         *)
(* External: the relay, which wants a position that changes as downloads   *)
(* come and go until it is quiet; its acknowledgements, which are delayed  *)
(* and lost; and the peer.                                                 *)
(***************************************************************************)
EXTENDS Integers

CONSTANTS
    Size,         \* file_size, of the encrypted file
    MaxAcks,      \* bound: acknowledgements on their way
    Transports    \* the transports under consideration

ASSUME SizeIsPositive == Size \in Nat \ {0}
ASSUME AcksAreNatural == MaxAcks \in Nat
ASSUME TransportsAreKnown == Transports \subseteq {"Both", "P2P", "Relay"}

VARIABLES
    transport,    \* UploaderClient::transport
    pc,           \* what relay_task is at
    position,     \* position_shared
    timer,        \* the timeout of the attempt
    handle,       \* RelayRequestTimeoutHandle: whether it holds the latest timeout
    acked,        \* whether an acknowledgement has arrived during the attempt
    result,       \* what relay_task returned
    p2p,          \* what p2p_task is at
    outcome,      \* what the upload returned
    acks,         \* how many acknowledgements are on their way
    wanted,       \* the position the relay wants
    quiet         \* whether the relay has settled: its position stays, and it answers

attempt == <<timer, handle, acked>>
relay == <<wanted, quiet>>
vars == <<transport, pc, position, attempt, result, p2p, outcome, acks, relay>>

\* A relay may want a position beyond the file, if a download asks for it.
Positions == 0..Size + 1
Requesting == pc \in {"Starting", "Sending"}
Attempting == pc \in {"Starting", "Sending", "Backoff"}

Init ==
    /\ transport \in Transports
    /\ pc = IF transport = "P2P" THEN "None" ELSE "Starting"
    /\ p2p = IF transport = "Relay" THEN "None" ELSE "Running"
    /\ position = 0
    /\ timer = "Armed" /\ handle = "Held" /\ acked = FALSE
    /\ result = "None" /\ outcome = "None"
    /\ acks = 0
    /\ wanted \in Positions /\ quiet = FALSE

Running == outcome = "None"

-----------------------------------------------------------------------------
(* The retries. *)

\* relay_task returns, and the upload with it.
Returns(r) == pc' = "Done" /\ result' = r /\ outcome' = r

\* The outer retry: an attempt failed.
AttemptFails(error) ==
    \/ Returns("Error")
    \/ /\ error = "Transient"
       /\ pc' = "Waiting" /\ UNCHANGED <<result, outcome>>

\* The inner retry: a request failed.  When it is out of time, the outer one
\* classifies the error itself: an override is lost on the way.
RequestFails(error, classified) ==
    \/ /\ error = "Transient"
       /\ pc' = "Backoff" /\ UNCHANGED <<result, outcome>>
    \/ AttemptFails(classified)

\* mutant: the abort handle is made once, not for every attempt
TimerKept == timer
NewTimer == "Armed"

\* The outer retry begins an attempt: a new position_shared, and a new timeout,
\* whose handle replaces that of the attempt before.
AttemptBegins ==
    /\ Running /\ pc = "Waiting"
    /\ pc' = "Starting" /\ position' = 0
    /\ timer' = NewTimer /\ handle' = "Held" /\ acked' = FALSE
    /\ UNCHANGED <<transport, result, p2p, outcome, acks, relay>>

BackoffEnds ==
    /\ Running /\ pc = "Backoff"
    /\ pc' = "Starting"
    /\ UNCHANGED <<transport, position, attempt, result, p2p, outcome, acks, relay>>

\* Not acknowledged in time; an answer that is there wins.  A relay that is
\* quiet answers /start in time.
TimesOut ==
    /\ Running /\ Attempting /\ timer = "Armed"
    /\ quiet => pc = "Sending"
    /\ AttemptFails("Transient")
    /\ UNCHANGED <<transport, position, attempt, p2p, acks, relay>>

-----------------------------------------------------------------------------
(* upload_file. *)

StartAccepted ==
    /\ Running /\ pc = "Starting"
    /\ quiet => position = wanted
    /\ pc' = "Sending"
    /\ UNCHANGED <<transport, position, attempt, result, p2p, outcome, acks, relay>>

ContentAccepted ==
    /\ Running /\ pc = "Sending"
    /\ Returns("Ok")
    /\ UNCHANGED <<transport, position, attempt, p2p, acks, relay>>

\* mutant: the position of a conflict is not stored
StoredNever(p) == position
Stored(p) == p

\* mutant: a position beyond the file is taken for a failure of the server
BeyondIsTransient == "Transient"
BeyondTheFile == "Permanent"

\* 409, to /start or to the content: the next request goes on from its position,
\* after a pause when that is the one just asked for.
Conflict(p) ==
    /\ Running /\ Requesting
    /\ quiet => p = wanted /\ p # position
    /\ position' = Stored(p)
    /\ IF p > Size THEN RequestFails(BeyondTheFile, BeyondTheFile)
       ELSE IF p = position THEN RequestFails("Transient", "Permanent")
       ELSE pc' = "Starting" /\ UNCHANGED <<result, outcome>>
    /\ UNCHANGED <<transport, attempt, p2p, acks, relay>>

\* Any other status, a body that says so, or no response at all.
RequestRefused(error) ==
    /\ Running /\ Requesting /\ ~quiet
    /\ RequestFails(error, error)
    /\ UNCHANGED <<transport, position, attempt, p2p, acks, relay>>

-----------------------------------------------------------------------------
(* The acknowledgements: UploadWebSocketHandler and RelayRequestTimeoutHandle. *)

RelayAcks ==
    /\ pc = "Sending" /\ acks < MaxAcks
    /\ acks' = acks + 1
    /\ UNCHANGED <<transport, pc, position, attempt, result, p2p, outcome, relay>>

\* cancel takes the handle, whosever acknowledgement it is.
AckArrives ==
    /\ Running /\ acks > 0
    /\ acks' = acks - 1
    /\ timer' = IF handle = "Held" THEN "Aborted" ELSE timer
    /\ acked' = (acked \/ Attempting)
    /\ handle' = "None"
    /\ UNCHANGED <<transport, pc, position, result, p2p, outcome, relay>>

AckIsLost ==
    /\ acks > 0
    /\ acks' = acks - 1
    /\ UNCHANGED <<transport, pc, position, attempt, result, p2p, outcome, relay>>

-----------------------------------------------------------------------------
(* The peer-to-peer task, and the loop that drives both. *)

\* mutant: the upload is over with the first task that is
EitherEnds(r) == outcome' = r
EndsWithPeer(r) == outcome' = IF transport = "P2P" THEN r ELSE outcome

PeerFinishes ==
    /\ Running /\ p2p = "Running"
    /\ p2p' = "Finished" /\ EndsWithPeer("Ok")
    /\ UNCHANGED <<transport, pc, position, attempt, result, acks, relay>>

PeerFails ==
    /\ Running /\ p2p = "Running"
    /\ p2p' = "Failed" /\ EndsWithPeer("Error")
    /\ UNCHANGED <<transport, pc, position, attempt, result, acks, relay>>

-----------------------------------------------------------------------------

RelayMoves(p) ==
    /\ ~quiet
    /\ wanted' = p
    /\ UNCHANGED <<transport, pc, position, attempt, result, p2p, outcome, acks, quiet>>

RelaySettles ==
    /\ ~quiet
    /\ quiet' = TRUE
    /\ UNCHANGED <<transport, pc, position, attempt, result, p2p, outcome, acks, wanted>>

Answers == StartAccepted \/ \E p \in Positions : Conflict(p)

Next ==
    \/ AttemptBegins \/ BackoffEnds \/ TimesOut
    \/ Answers \/ ContentAccepted
    \/ \E error \in {"Transient", "Permanent"} : RequestRefused(error)
    \/ RelayAcks \/ AckArrives \/ AckIsLost
    \/ PeerFinishes \/ PeerFails
    \/ (\E p \in Positions : RelayMoves(p)) \/ RelaySettles

Spec == Init /\ [][Next]_vars

\* The client's timers, and a quiet relay, which answers.
FairSpec ==
    /\ Spec
    /\ WF_vars(AttemptBegins) /\ WF_vars(BackoffEnds) /\ WF_vars(TimesOut)
    /\ WF_vars(quiet /\ pc = "Starting" /\ Answers)

-----------------------------------------------------------------------------

TypeOK ==
    /\ transport \in {"Both", "P2P", "Relay"}
    /\ pc \in {"None", "Starting", "Sending", "Backoff", "Waiting", "Done"}
    /\ position \in Positions
    /\ timer \in {"Armed", "Aborted"}
    /\ handle \in {"None", "Held"}
    /\ acked \in BOOLEAN
    /\ result \in {"None", "Ok", "Error"}
    /\ p2p \in {"None", "Running", "Finished", "Failed"}
    /\ outcome \in {"None", "Ok", "Error"}
    /\ acks \in 0..MaxAcks
    /\ wanted \in Positions /\ quiet \in BOOLEAN

\* No request is made from a position beyond the file, where its slice would
\* panic, although the position is stored before it is looked at and lives on from
\* one try to the next.  (api_client.rs:132, 175)
SlicesFit == Attempting => position <= Size

\* With the relay involved, the upload ends as the relayed upload does: neither a
\* peer that is served nor one that fails ends it, and without the relay the
\* peer's word counts.  (uploader_client.rs:186)
OutcomeIsTheRelays ==
    outcome # "None" =>
        IF transport = "P2P" THEN p2p = (IF outcome = "Ok" THEN "Finished" ELSE "Failed")
        ELSE result = outcome

\* An attempt that no acknowledgement arrives for comes to an end, even when
\* the relay never answers and whichever earlier attempt's acknowledgements
\* come late: those during the pause must not disarm the next timeout.
\* (uploader_client.rs:136, 362)
UnacknowledgedEnds ==
    Running /\ Attempting /\ ~acked ~> acked \/ ~Attempting \/ ~Running

\* Once the relay is quiet, the attempts find the position it wants, or learn that
\* there is none: the conflicts come to an end.  (api_client.rs:126)
QuietRelayIsServed ==
    quiet /\ Running /\ pc # "None" ~> pc = "Sending" \/ ~Running
=============================================================================
