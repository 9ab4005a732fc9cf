----------------------------- MODULE Downloader -----------------------------
(***************************************************************************)
(* The downloading client (downloader_client.rs) with the file it writes   *)
(* (DecryptedFile), the relayed transfer (ApiClient::download_content) and *)
(* the uploading peer that serves its requests (UploadState).              *)
(*                                                                         *)
(* First the file is asked of the peer alone.  When that fails or times    *)
(* out, it is fetched through the relay while a new offer is made to the   *)
(* peer; the peer's next message takes the transfer back from the relay.   *)
(* The client is one thread: it is interrupted at its awaits only, and the *)
(* two futures of the race are polled in any order.                        *)
(*                                                                         *)
(* External: the RTC channel, which opens once, delivers in order, stalls  *)
(* and breaks at any time; the relay, of which this module takes what      *)
(* Relay shows of it (a response goes on from the position it was asked    *)
(* for), and which may end a response early, fail or refuse.               *)
(***************************************************************************)
EXTENDS Integers, Sequences

CONSTANTS
    Size,         \* total_len, of the encrypted file
    ChunkSize,    \* CHUNK_SIZE
    Window,       \* MAX_P2P_INFLIGHT_DATA_LEN
    MaxRetries,   \* bound: how often the schedule of retry lets the relayed transfer be retried
    Transports    \* the transports under consideration

ASSUME SizesArePositive == {Size, ChunkSize, Window} \subseteq Nat \ {0}
ASSUME RetriesAreNatural == MaxRetries \in Nat
ASSUME TransportsAreKnown == Transports \subseteq {"Both", "P2P", "Relay"}

VARIABLES
    transport,    \* DownloaderClient::transport
    timed,        \* whether there is a p2p_timeout
    pc,           \* what download_async is at
    outcome,      \* what it returned, or the assertion it panicked at
    before,       \* offset_before_p2p
    file,         \* DecryptedFile: its state, and the bytes written to it so far
    requested,    \* DownloadState::requested_offset
    flushing,     \* the p2p handler awaits the flush of the file
    relayed,      \* the future of download_relayed
    told,         \* how the relay knows that the download is over
    channel,      \* the RTC data channel
    toUploader,   \* messages on their way to the peer
    rx            \* events and messages on their way to PeerToPeerClient::transfer

options == <<transport, timed>>
network == <<channel, toUploader, rx>>
vars == <<options, pc, outcome, before, file, requested, flushing, relayed, told, network>>

Positions == 0..Size
NoOffset == -1
Bytes(offset, len) == [i \in 1..len |-> offset + i - 1]

Hello == [tag |-> "Hello"]
Finished == [tag |-> "TransferFinished"]
Request(offset, len) == [tag |-> "DataRequest", offset |-> offset, len |-> len]
Response(offset, len) == [tag |-> "DataResponse", offset |-> offset, len |-> len]
Opened == [tag |-> "DataChannelOpened"]
Failed == [tag |-> "DataChannelError"]

\* What may be asked of the peer: read_at_exact panics beyond the end of the file.
Pieces(tag) == {m \in [tag : {tag}, offset : Positions, len : Positions] :
                    m.offset + m.len <= Size}
ToUploader == {Hello, Finished} \cup Pieces("DataRequest")
ToDownloader == {Hello, Opened, Failed} \cup Pieces("DataResponse")

\* connect_p2p and transfer_p2p, the first time and in the loop; Finishing is
\* finish_download, which is Postponed while it waits as long as the relay asks for,
\* and Relaying the relayed transfer without the peer.
ConnectPCs == {"Connecting", "Racing"}
TransferPCs == {"Transferring", "Retrying"}
PCs == ConnectPCs \cup TransferPCs \cup {"Finishing", "Postponed", "Relaying", "Done"}

FileStates == {"Unwritten", "Pending", "Complete", "Poisoned"}

NoRelay == [pc |-> "None", next |-> 0, retries |-> 0]
NewRelay == [pc |-> "Starting", next |-> 0, retries |-> 0]
RelayPCs == {"None", "Starting", "Requesting", "Streaming", "Flushing"}

Init ==
    /\ transport \in Transports /\ timed \in BOOLEAN
    /\ pc = IF transport = "Relay" THEN "Relaying" ELSE "Connecting"
    /\ relayed = IF transport = "Relay" THEN NewRelay ELSE NoRelay
    /\ outcome = "None" /\ before = NoOffset
    /\ file = [state |-> "Unwritten", data |-> <<>>]
    /\ requested = 0 /\ flushing = FALSE /\ told = {}
    /\ channel = "Closed" /\ toUploader = <<>> /\ rx = <<>>

-----------------------------------------------------------------------------
(* DecryptedFile. *)

\* offset, which panics when the state is Poisoned: see its uses.
Offset(f) == IF f.state = "Unwritten" THEN Len(f.data) ELSE Size
Poisoned(f) == f.state = "Poisoned"

\* write_all on a file that is Unwritten.
Written(f, bytes) == [f EXCEPT !.data = @ \o bytes]

\* poll_flush, up to where it waits: nothing happens before all bytes are there.
FlushBegun(f) == IF f.state = "Unwritten" /\ Len(f.data) = Size
                   THEN [f EXCEPT !.state = "Pending"] ELSE f

\* Decryption refuses any other bytes than those the uploader encrypted; the
\* output may refuse them anyway.
Authentic(f) == f.data = Bytes(0, Size)

\* What poll_flush then returns, and the state it leaves: a failed write leaves
\* the file Poisoned.
FlushEnds(f) ==
    IF f.state = "Pending"
      THEN {[file |-> [f EXCEPT !.state = "Poisoned"], result |-> "Error"]}
             \cup (IF Authentic(f)
                     THEN {[file |-> [f EXCEPT !.state = "Complete"], result |-> "Ok"]} ELSE {})
      ELSE {[file |-> f, result |-> IF Poisoned(f) THEN "PoisonedPanic" ELSE "Ok"]}

-----------------------------------------------------------------------------
(* The ends of the futures. *)

\* download_async returns, and drops what it had under way.
Returns(o) ==
    /\ pc' = "Done" /\ outcome' = o
    /\ relayed' = NoRelay /\ flushing' = FALSE
    /\ UNCHANGED before

FirstAttempt == pc \in {"Connecting", "Transferring"} \/ (pc = "Finishing" /\ before = NoOffset)

\* The p2p side ends with an error: the relay takes over if it may, goes on if
\* it is at work, and is left to finish alone when p2p had made no progress.
P2PFails ==
    \/ FirstAttempt /\ transport = "P2P" /\ Returns("Error")
    \/ /\ FirstAttempt /\ transport = "Both"
       /\ pc' = "Racing" /\ relayed' = NewRelay /\ flushing' = FALSE
       /\ UNCHANGED <<outcome, before>>
    \/ /\ pc = "Racing"
       /\ pc' = "Relaying" /\ flushing' = FALSE
       /\ UNCHANGED <<outcome, relayed, before>>
    \/ /\ ~FirstAttempt /\ pc # "Racing"
       /\ IF Poisoned(file') THEN Returns("PoisonedPanic")
          ELSE /\ pc' = IF Offset(file') = before THEN "Relaying" ELSE "Racing"
               /\ relayed' = NewRelay /\ flushing' = FALSE
               /\ UNCHANGED <<outcome, before>>

\* The connect handler has its answer; the relayed transfer, if any, is dropped.
Connects ==
    \/ /\ pc = "Connecting" /\ pc' = "Transferring"
       /\ UNCHANGED <<relayed, before>>
    \/ /\ pc = "Racing" /\ pc' = "Retrying"
       /\ relayed' = NoRelay /\ before' = Offset(file')
    \/ /\ pc \in TransferPCs
       /\ UNCHANGED <<pc, relayed, before>>

-----------------------------------------------------------------------------
(* PeerToPeerClient::transfer with PeerToPeerConnectHandler (ConnectPCs) and *)
(* DownloadState (TransferPCs).                                              *)

Listening == pc \in ConnectPCs \cup TransferPCs /\ ~flushing
Hears(tag) == Listening /\ rx # <<>> /\ Head(rx).tag = tag

\* next_data_request, until it has nothing to ask for.
Least(a, b) == IF a < b THEN a ELSE b
RequestedOneChunk(f) ==  \* mutant: `if let` for `while let`
    Least(requested + ChunkSize, Least(Size, Offset(f) + Window))
RequestedUnbounded(f) == Offset(f) + Window  \* mutant: forgets unrequested_len
RequestedAfter(f) == Least(Size, Offset(f) + Window)
Requests(f) ==
    LET end == RequestedAfter(f)
        at(i) == requested + (i - 1) * ChunkSize
    IN  [i \in 1 .. (end - requested + ChunkSize - 1) \div ChunkSize |->
            Request(at(i), Least(ChunkSize, end - at(i)))]

\* request_data_or_finish, up to where it waits, with the handler around it.
RequestDataOrFinish(f) ==
    /\ file' = FlushBegun(f)
    /\ IF Offset(f) >= Size
         THEN /\ flushing' = TRUE
              /\ UNCHANGED <<pc, outcome, before, relayed, requested, toUploader>>
       ELSE IF Offset(f) > requested
         THEN Returns("WindowPanic") /\ UNCHANGED <<requested, toUploader>>
       ELSE IF Requests(f) # <<>> /\ channel # "Open"
         THEN P2PFails /\ UNCHANGED <<requested, toUploader>>
         ELSE /\ toUploader' = toUploader \o Requests(f)
              /\ requested' = RequestedAfter(f)
              /\ Connects
              /\ UNCHANGED <<outcome, flushing>>

\* data_channel_opened; before it there are no messages, so that no transfer hears it.
HearsOpened ==
    /\ Hears("DataChannelOpened") /\ pc \in ConnectPCs
    /\ rx' = Tail(rx)
    /\ IF channel = "Open"
         THEN /\ toUploader' = Append(toUploader, Hello)
              /\ UNCHANGED <<pc, outcome, before, relayed, flushing>>
         ELSE P2PFails /\ UNCHANGED toUploader
    /\ UNCHANGED <<options, file, requested, told, channel>>

\* The first message, so that it is the connect handler that hears it.
HearsHello ==
    /\ Hears("Hello") /\ pc \in ConnectPCs
    /\ rx' = Tail(rx)
    /\ IF Poisoned(file)
         THEN Returns("PoisonedPanic") /\ UNCHANGED <<file, requested, toUploader>>
         ELSE RequestDataOrFinish(file)
    /\ UNCHANGED <<options, told, channel>>

\* A response that is not the next one is skipped.
ReceivedAnywhere(response) ==  \* mutant: takes responses as they come
    IF file.state = "Unwritten" THEN Written(file, Bytes(response.offset, response.len)) ELSE file
Received(response) ==
    IF file.state = "Unwritten" /\ response.offset = Offset(file)
      THEN Written(file, Bytes(response.offset, response.len)) ELSE file

HearsResponse ==
    /\ Hears("DataResponse")
    /\ rx' = Tail(rx)
    /\ IF Poisoned(file)
         THEN Returns("PoisonedPanic") /\ UNCHANGED <<file, requested, toUploader>>
         ELSE RequestDataOrFinish(Received(Head(rx)))
    /\ UNCHANGED <<options, told, channel>>

HearsError ==
    /\ Hears("DataChannelError")
    /\ rx' = Tail(rx)
    /\ UNCHANGED <<options, file, requested, told, channel, toUploader>>
    /\ P2PFails

\* The flush ends: the peer is told, and then, unless it was the connect handler
\* that finished the file, the relay.
FlushedUnchecked ==  \* mutant: the result of the flush is not looked at
    /\ flushing
    /\ \E end \in FlushEnds(file) :
        /\ file' = end.file
        /\ IF channel # "Open" THEN P2PFails /\ UNCHANGED toUploader
           ELSE /\ toUploader' = Append(toUploader, Finished)
                /\ IF pc \in ConnectPCs THEN Returns("Ok")
                   ELSE pc' = "Finishing" /\ flushing' = FALSE
                        /\ UNCHANGED <<outcome, before, relayed>>
    /\ UNCHANGED <<options, requested, told, channel, rx>>
Flushed ==
    /\ flushing
    /\ \E end \in FlushEnds(file) :
        /\ file' = end.file
        /\ IF end.result = "PoisonedPanic" THEN Returns("PoisonedPanic") /\ UNCHANGED toUploader
           ELSE IF end.result = "Error" \/ channel # "Open" THEN P2PFails /\ UNCHANGED toUploader
           ELSE /\ toUploader' = Append(toUploader, Finished)
                /\ IF pc \in ConnectPCs THEN Returns("Ok")
                   ELSE pc' = "Finishing" /\ flushing' = FALSE
                        /\ UNCHANGED <<outcome, before, relayed>>
    /\ UNCHANGED <<options, requested, told, channel, rx>>

\* No message for p2p_timeout; the race has no timeout.
FirstTimesOut ==  \* mutant: only the first attempt has a timeout
    /\ timed /\ Listening /\ pc \in {"Connecting", "Transferring"}
    /\ UNCHANGED <<options, file, requested, told, network>>
    /\ P2PFails
TimesOut ==
    /\ timed /\ Listening /\ pc # "Racing"
    /\ UNCHANGED <<options, file, requested, told, network>>
    /\ P2PFails

\* The offer cannot be made, or a signaling message not be sent or decrypted.
SignalingFails ==
    /\ Listening
    /\ UNCHANGED <<options, file, requested, told, network>>
    /\ P2PFails

FinishesDownload ==
    /\ pc = "Finishing"
    /\ told' = told \cup {"Finished"}
    /\ Returns("Ok")
    /\ UNCHANGED <<options, file, requested, network>>

\* The relay may have served a request whose response is lost.
FinishDownloadFails ==
    /\ pc = "Finishing"
    /\ told' \in {told, told \cup {"Finished"}}
    /\ UNCHANGED <<options, file, requested, network>>
    /\ P2PFails

\* The relay, or a proxy before it, answers with Retry-After: the request is made
\* again, whatever the schedule of retry says.
FinishDownloadPostponed ==
    /\ pc = "Finishing"
    /\ pc' = "Postponed"
    /\ told' \in {told, told \cup {"Finished"}}
    /\ UNCHANGED <<options, outcome, before, file, requested, flushing, relayed, network>>

FinishDownloadResumes ==
    /\ pc = "Postponed"
    /\ pc' = "Finishing"
    /\ UNCHANGED <<options, outcome, before, file, requested, flushing, relayed, told, network>>

FinishDownload ==
    FinishesDownload \/ FinishDownloadFails \/ FinishDownloadPostponed \/ FinishDownloadResumes

-----------------------------------------------------------------------------
(* download_relayed: retries of one request, each from where the file is. *)

RelayStarts ==
    /\ relayed.pc = "Starting"
    /\ IF Poisoned(file) THEN Returns("PoisonedPanic")
       ELSE /\ relayed' = [relayed EXCEPT !.pc = "Requesting", !.next = Offset(file)]
            /\ UNCHANGED <<pc, outcome, before, flushing>>
    /\ UNCHANGED <<options, file, requested, told, network>>

RelayResponds ==
    /\ relayed.pc = "Requesting"
    /\ relayed' = [relayed EXCEPT !.pc = "Streaming"]
    /\ UNCHANGED <<options, pc, outcome, before, file, requested, flushing, told, network>>

\* The request is answered with Retry-After, and made again after that time:
\* retry does so also when its schedule has come to an end.
RelayPostpones ==
    /\ relayed.pc = "Requesting"
    /\ relayed' = [relayed EXCEPT !.pc = "Starting"]
    /\ UNCHANGED <<options, pc, outcome, before, file, requested, flushing, told, network>>

\* The request or the response breaks off or times out, and is retried while
\* the schedule lasts, or the relay refuses it.
RelayFails ==
    /\ relayed.pc \in {"Requesting", "Streaming"}
    /\ \/ Returns("Error")
       \/ /\ relayed.retries < MaxRetries
          /\ relayed' = [relayed EXCEPT !.pc = "Starting", !.retries = @ + 1]
          /\ UNCHANGED <<pc, outcome, before, flushing>>
    /\ UNCHANGED <<options, file, requested, told, network>>

\* The relay counts a response as complete once it has handed over the last byte.
RelayYields(n) ==
    /\ relayed.pc = "Streaming" /\ relayed.next + n <= Size
    /\ told' = IF relayed.next + n = Size THEN told \cup {"Streamed"} ELSE told
    /\ IF file.state = "Unwritten"
         THEN /\ file' = Written(file, Bytes(relayed.next, n))
              /\ relayed' = [relayed EXCEPT !.next = @ + n]
              /\ UNCHANGED <<pc, outcome, before, flushing>>
         ELSE /\ Returns(IF Poisoned(file) THEN "PoisonedPanic" ELSE "Error")
              /\ UNCHANGED file
    /\ UNCHANGED <<options, requested, network>>

\* The response ends, with the file or earlier, because the session or its
\* place in it is gone: the client cannot tell the two apart.
RelayEnds ==
    /\ relayed.pc = "Streaming"
    /\ relayed' = [relayed EXCEPT !.pc = "Flushing"]
    /\ file' = FlushBegun(file)
    /\ told' = IF relayed.next = Size THEN told \cup {"Streamed"} ELSE told
    /\ UNCHANGED <<options, pc, outcome, before, requested, flushing, network>>

\* flush, and then close, which wants the file to be complete.
RelayFlushed ==
    /\ relayed.pc = "Flushing"
    /\ \E end \in FlushEnds(file) :
        /\ file' = end.file
        /\ Returns(IF end.result = "Ok" /\ end.file.state = "Unwritten"
                     THEN "Error" ELSE end.result)
    /\ UNCHANGED <<options, requested, told, network>>

-----------------------------------------------------------------------------
(* The peer and the channel. *)

Watched == pc \in ConnectPCs \cup TransferPCs

ChannelOpens ==
    /\ Watched /\ channel = "Closed"
    /\ channel' = "Open"
    /\ rx' = Append(rx, Opened)
    /\ UNCHANGED <<options, pc, outcome, before, file, requested, flushing, relayed, told,
                   toUploader>>

\* What has not arrived is lost; the client may or may not be told.
ChannelBreaks ==
    /\ Watched /\ channel = "Open"
    /\ channel' = "Broken"
    /\ toUploader' = <<>>
    /\ \E arrived \in 0..Len(rx), news \in {<<>>, <<Failed>>} :
        rx' = SubSeq(rx, 1, arrived) \o news
    /\ UNCHANGED <<options, pc, outcome, before, file, requested, flushing, relayed, told>>

\* UploadState::data_channel_message.
Replies(message) ==
    IF message.tag = "Hello" THEN <<Hello>>
    ELSE IF message.tag = "DataRequest" THEN <<Response(message.offset, message.len)>>
    ELSE <<>>
UploaderServes ==
    /\ Watched /\ channel = "Open" /\ toUploader # <<>>
    /\ toUploader' = Tail(toUploader)
    /\ rx' = rx \o Replies(Head(toUploader))
    /\ UNCHANGED <<options, pc, outcome, before, file, requested, flushing, relayed, told, channel>>

-----------------------------------------------------------------------------
P2PNext == HearsOpened \/ HearsHello \/ HearsResponse \/ HearsError \/ Flushed
            \/ TimesOut \/ SignalingFails \/ FinishDownload
RelayStep == RelayStarts \/ RelayResponds \/ RelayPostpones \/ RelayFails
            \/ (\E n \in 1..Size : RelayYields(n)) \/ RelayEnds \/ RelayFlushed
Network == ChannelOpens \/ ChannelBreaks \/ UploaderServes
Next == P2PNext \/ RelayStep \/ Network

Spec == Init /\ [][Next]_vars

\* The client's own clocks and writes: a p2p timeout fires, the relayed transfer
\* goes on, fails or times out, a write ends, and a request of finish_download is
\* answered, or times out.
Scheduled ==
    /\ WF_vars(TimesOut) /\ WF_vars(RelayStep) /\ WF_vars(Flushed)
    /\ WF_vars(FinishDownload)

FairSpec == Spec /\ Scheduled

-----------------------------------------------------------------------------
(* Properties. *)

TypeOK ==
    /\ transport \in Transports /\ timed \in BOOLEAN
    /\ pc \in PCs
    /\ outcome \in {"None", "Ok", "Error", "WindowPanic", "PoisonedPanic"}
    /\ before \in Positions \cup {NoOffset}
    /\ file \in [state : FileStates, data : Seq(Nat)]
    /\ requested \in Positions
    /\ flushing \in BOOLEAN
    /\ relayed \in [pc : RelayPCs, next : Nat, retries : 0..MaxRetries]
    /\ told \subseteq {"Finished", "Streamed"}
    /\ channel \in {"Closed", "Open", "Broken"}
    /\ toUploader \in Seq(ToUploader)
    /\ rx \in Seq(ToDownloader)

InOrder(f) == \A i \in 1..Len(f.data) : f.data[i] = i - 1

\* Whichever of the peer and the relay the bytes come from, through any number of
\* changes from one to the other, the file is written byte after byte (write_all
\* in handle_uploader_message and download_content).  Nothing is said of the file
\* once the channel is broken and the relay was left to finish alone, or the
\* download is over: when the channel breaks in the race, a response of the peer
\* may be written whose successor cannot be requested any more, and the relayed
\* transfer writes the same bytes again (downloader_client.rs:182).
ContentIsInOrder ==
    InOrder(file) \/ (channel = "Broken" /\ pc \in {"Relaying", "Done"})

\* Nobody is told that the transfer is over (the peer by TransferFinished, the
\* relay by finish_download, the caller by Ok) before all of the file is written.
OverMeansWritten ==
    (outcome = "Ok" \/ "Finished" \in told \/ \E i \in 1..Len(toUploader) : toUploader[i] = Finished)
        => file.state = "Complete" /\ Authentic(file)

\* The messages on their way, the next one to arrive first.
InFlight == rx \o toUploader

\* While the relay has not interfered, the window is full and in order: what is in
\* flight goes on where the file ends, each where the one before ends, up to
\* requested_offset, which is as far ahead as the window lets it.
WindowIsFull ==
    pc = "Transferring" /\ ~flushing /\ channel = "Open" =>
        /\ requested = Least(Size, Offset(file) + Window)
        /\ InFlight # <<>>
        /\ InFlight[1].offset = Offset(file)
        /\ \A i \in 1 .. Len(InFlight) :
            InFlight[i].offset + InFlight[i].len =
                IF i = Len(InFlight) THEN requested ELSE InFlight[i + 1].offset

\* With a p2p_timeout, or without p2p, every download returns, however the channel
\* stalls or breaks and the relay refuses, breaks off or stays silent, unless requests
\* are answered with Retry-After for ever: those are retried for more than the quarter
\* of an hour that the schedule allows (retry.rs:12, 33).
Postpones == RelayPostpones \/ FinishDownloadPostponed
DownloadReturns == <>[][~Postpones]_vars => ((timed \/ transport = "Relay") ~> pc = "Done")

-----------------------------------------------------------------------------
(* What an assertion of the code says, and the code does not do.             *)

\* downloader_client.rs:433, next_data_request expects that nothing was received
\* that it has not requested.
RequestsAreAhead == outcome # "WindowPanic"

=============================================================================
