------------------------------- MODULE Relay -------------------------------
(***************************************************************************)
(* One session of the relay together with the tasks that use it: the HTTP  *)
(* handlers of api.rs, the websocket relay of websocket.rs and the mailbox *)
(* between them and the session task.                                      *)
(*                                                                         *)
(* A handler runs from one await to the next in one step, because all it   *)
(* shares is the mailbox it appends to and the channels it reads.  When    *)
(* the client goes away the server drops the handler's future at whatever  *)
(* await it has reached; what its drop guards send is part of that step.   *)
(*                                                                         *)
(* The uploading clients all hold the same file and send it from the       *)
(* position they name to its end, cut into chunks anyhow, unless they are  *)
(* interrupted.                                                            *)
(***************************************************************************)
EXTENDS Session

\* A request or connection is of one kind.
ASSUME HandlersAreDistinct ==
    /\ Uploads \cap (Downloads \cup Checks \cup Finishes \cup Peers) = {}
    /\ Downloads \cap (Checks \cup Finishes \cup Peers) = {}
    /\ (Checks \cup Finishes) \cap Peers = {}

VARIABLES
    mailbox,     \* the session's mpsc channel of commands
    uploads,     \* the POST /upload/{id} handlers
    downloads,   \* the GET /download/{id}/content handlers and their streams
    calls,       \* the handlers of one call: /start, and `bytes=-0`
    peers        \* the websocket relay tasks

handlers == <<uploads, downloads, calls, peers>>
sessionVars == <<running, slots, signaling, events, inbox, started>>
relayVars == <<vars, mailbox, handlers>>

RelayInit ==
    /\ Init
    /\ mailbox = <<>>
    /\ uploads = [u \in Uploads |->
                    [pc |-> "Idle", next |-> 0, last |-> FALSE, outcome |-> NoAnswer]]
    /\ downloads = [d \in Downloads |-> [pc |-> "Idle", next |-> 0, completed |-> FALSE]]
    /\ calls = [c \in Checks \cup Finishes |-> "Idle"]
    /\ peers = [w \in Peers |-> [pc |-> "Idle", sent |-> 0, received |-> <<>>]]

-----------------------------------------------------------------------------
(* The mailbox. *)

\* Command, with the handler that sent it; `from` doubles as the token.
Messages ==
    [cmd : {"StartDownload"}, from : Downloads, position : Positions]
    \cup [cmd : {"DownloaderDisconnected"}, from : Downloads, completed : BOOLEAN]
    \cup [cmd : {"FinishDownload"}, from : Finishes]
    \cup [cmd : {"CheckStartUpload"}, from : Checks, position : Positions]
    \cup [cmd : {"StartUpload"}, from : Uploads, position : Positions]
    \cup [cmd : {"FlushUpload", "UploaderDisconnected"}, from : Uploads]
    \cup [cmd : {"UploadData"}, from : Uploads, chunk : Chunks]
    \cup [cmd : {"StartWebsocket", "WebsocketDisconnected"}, from : Peers]
    \cup [cmd : {"WebsocketData"}, from : Peers, frame : Frames]

\* Once the session task has returned, sending to it fails.
Post(m) == mailbox' = IF running THEN Append(mailbox, m) ELSE mailbox

\* Session::request: the reply, or NotFound when the session dropped the call.
ResultWithoutNotFound(h) == answers[h]  \* mutant: waits for a session that is gone
Result(h) == IF ~running /\ answers[h] = NoAnswer THEN NotFound ELSE answers[h]
Answered(h) == Result(h) # NoAnswer
ReadAnswer(h) == answers' = [answers EXCEPT ![h] = NoAnswer]

Dispatch(m) ==
    \/ m.cmd = "StartDownload" /\ StartDownload(m.from, m.position)
    \/ m.cmd = "FinishDownload" /\ FinishDownload(m.from)
    \/ m.cmd = "CheckStartUpload" /\ CheckStartUpload(m.from, m.position)
    \/ m.cmd = "StartUpload" /\ StartUpload(m.from, m.position)
    \/ m.cmd = "UploadData" /\ UploadData(m.from, m.chunk)
    \/ m.cmd = "FlushUpload" /\ FlushUpload(m.from)
    \/ m.cmd = "StartWebsocket" /\ StartWebsocket(m.from)
    \/ m.cmd = "WebsocketData" /\ RelayFrame(DirectionOf(m.from), m.frame)
    \/ m.cmd = "DownloaderDisconnected" /\ DownloaderDisconnected(m.from, m.completed)
    \/ m.cmd = "UploaderDisconnected" /\ UploaderDisconnected(m.from)
    \/ m.cmd = "WebsocketDisconnected" /\ WebsocketDisconnected(m.from)

\* One turn of the session task; when it breaks, the mailbox is dropped.
Serve ==
    /\ mailbox # <<>>
    /\ Dispatch(Head(mailbox))
    /\ mailbox' = IF running' THEN Tail(mailbox) ELSE <<>>
    /\ UNCHANGED handlers

-----------------------------------------------------------------------------
(* POST /upload/{id}: start, flush, then one chunk at a time. *)

UploadPCs == {"Idle", "Starting", "Flushing", "Reading", "Sending", "Done"}
Awaiting(u) == uploads[u].pc \in {"Starting", "Flushing", "Sending"}
Live(u) == Awaiting(u) \/ uploads[u].pc = "Reading"

\* upload_error: a download that finished counts as success.
Response(result) == IF result = Finished THEN Ok ELSE result
Aborted == [tag |-> "Aborted"]

UploadArrives(u, p) ==
    /\ uploads[u].pc = "Idle"
    /\ IF running
         THEN uploads' = [uploads EXCEPT ![u].pc = "Starting", ![u].next = p]
         ELSE uploads' = [uploads EXCEPT ![u].pc = "Done", ![u].outcome = NotFound]
    /\ Post([cmd |-> "StartUpload", from |-> u, position |-> p])
    /\ UNCHANGED <<vars, downloads, calls, peers>>

\* The handler returns or is dropped, and its Upload guard with it.
UploadEnds(u, outcome) ==
    /\ uploads' = [uploads EXCEPT ![u] =
                    [pc |-> "Done", next |-> 0, last |-> FALSE, outcome |-> outcome]]
    /\ Post([cmd |-> "UploaderDisconnected", from |-> u])

UploadRefused(u) ==
    /\ Awaiting(u) /\ Answered(u) /\ Result(u) # Ok
    /\ UploadEnds(u, Response(Result(u)))
    /\ ReadAnswer(u)
    /\ UNCHANGED <<sessionVars, downloads, calls, peers>>

UploadStarted(u) ==
    /\ uploads[u].pc = "Starting" /\ Result(u) = Ok
    /\ uploads' = [uploads EXCEPT ![u].pc = "Flushing"]
    /\ Post([cmd |-> "FlushUpload", from |-> u])
    /\ ReadAnswer(u)
    /\ UNCHANGED <<sessionVars, downloads, calls, peers>>

UploadAccepted(u) ==
    /\ uploads[u].pc \in {"Flushing", "Sending"} /\ Result(u) = Ok
    /\ IF uploads[u].last
         THEN UploadEnds(u, Ok)
         ELSE /\ uploads' = [uploads EXCEPT ![u].pc = "Reading"]
              /\ UNCHANGED mailbox
    /\ ReadAnswer(u)
    /\ UNCHANGED <<sessionVars, downloads, calls, peers>>

\* The handler reads one chunk ahead, so it knows which one is the last; only
\* an empty body gives an empty chunk.
UploadReads(u) ==
    /\ uploads[u].pc = "Reading"
    /\ \E chunk \in Chunks :
        LET end == chunk.at + chunk.size
        IN  /\ chunk.at = uploads[u].next
            /\ chunk.size > 0 \/ chunk.at = FileSize
            /\ end <= FileSize
            /\ chunk.final = (end = FileSize)
            /\ uploads' = [uploads EXCEPT ![u].pc = "Sending", ![u].next = end,
                                          ![u].last = chunk.final]
            /\ Post([cmd |-> "UploadData", from |-> u, chunk |-> chunk])
    /\ UNCHANGED <<vars, downloads, calls, peers>>

\* The client goes away, or its body cannot be read any further.
UploadAbortsUnguarded(u) ==  \* mutant: the guard is created once the upload started
    /\ Live(u)
    /\ uploads' = [uploads EXCEPT ![u].pc = "Done", ![u].outcome = Aborted]
    /\ IF uploads[u].pc = "Starting" THEN UNCHANGED mailbox
       ELSE Post([cmd |-> "UploaderDisconnected", from |-> u])
    /\ UNCHANGED <<vars, downloads, calls, peers>>
UploadAborts(u) ==
    /\ Live(u)
    /\ UploadEnds(u, Aborted)
    /\ UNCHANGED <<vars, downloads, calls, peers>>

-----------------------------------------------------------------------------
(* GET /download/{id}/content. *)

DownloadPCs == {"Idle", "Starting", "Streaming", "Done"}

DownloadRetries(d, p) ==  \* mutant: a retry reuses the token of the first attempt
    /\ downloads[d].pc \in {"Idle", "Done"} /\ running
    /\ downloads' = [downloads EXCEPT ![d].pc = "Starting", ![d].next = p]
    /\ Post([cmd |-> "StartDownload", from |-> d, position |-> p])
    /\ UNCHANGED <<vars, uploads, calls, peers>>
DownloadArrives(d, p) ==
    /\ downloads[d].pc = "Idle"
    /\ IF running
         THEN downloads' = [downloads EXCEPT ![d].pc = "Starting", ![d].next = p]
         ELSE downloads' = [downloads EXCEPT ![d].pc = "Done"]
    /\ Post([cmd |-> "StartDownload", from |-> d, position |-> p])
    /\ UNCHANGED <<vars, uploads, calls, peers>>

DownloadStarted(d) ==
    /\ downloads[d].pc = "Starting" /\ Answered(d)
    /\ downloads' = [downloads EXCEPT
                        ![d].pc = IF Result(d) = Ok THEN "Streaming" ELSE "Done"]
    /\ ReadAnswer(d)
    /\ UNCHANGED <<sessionVars, mailbox, uploads, calls, peers>>

\* The stream yields the next chunk of content.
DownloadYieldsOnce(d) ==  \* mutant: any chunk completes the response
    /\ downloads[d].pc = "Streaming" /\ ~downloads[d].completed
    /\ events[d] # <<>> /\ Head(events[d]).tag = "Bytes"
    /\ downloads' = [downloads EXCEPT ![d].next = @ + Head(events[d]).chunk.size,
                                      ![d].completed = TRUE]
    /\ events' = [events EXCEPT ![d] = Tail(@)]
    /\ UNCHANGED <<running, slots, signaling, answers, inbox, started,
                   mailbox, uploads, calls, peers>>
DownloadYields(d) ==
    /\ downloads[d].pc = "Streaming" /\ ~downloads[d].completed
    /\ events[d] # <<>> /\ Head(events[d]).tag = "Bytes"
    /\ LET chunk == Head(events[d]).chunk
       IN  downloads' = [downloads EXCEPT ![d].next = @ + chunk.size,
                                          ![d].completed = chunk.final]
    /\ events' = [events EXCEPT ![d] = Tail(@)]
    /\ UNCHANGED <<running, slots, signaling, answers, inbox, started,
                   mailbox, uploads, calls, peers>>

\* The response ends, and its Download guard is dropped.
DownloadCloses(d) ==
    /\ downloads' = [downloads EXCEPT ![d].pc = "Done"]
    /\ Post([cmd |-> "DownloaderDisconnected", from |-> d, completed |-> downloads[d].completed])
    /\ UNCHANGED <<vars, uploads, calls, peers>>

\* The stream is over: it is complete, replaced, or its session is gone.
DownloadEnds(d) ==
    /\ downloads[d].pc = "Streaming"
    /\ \/ downloads[d].completed
       \/ events[d] # <<>> /\ Head(events[d]) = Replaced
       \/ events[d] = <<>> /\ ~running
    /\ DownloadCloses(d)

\* The client goes away.  Until start_download has returned there is no guard.
DownloadDropped(d) ==
    \/ downloads[d].pc = "Streaming" /\ DownloadCloses(d)
    \/ /\ downloads[d].pc = "Starting"
       /\ downloads' = [downloads EXCEPT ![d].pc = "Done"]
       /\ UNCHANGED <<vars, mailbox, uploads, calls, peers>>

-----------------------------------------------------------------------------
(* POST /upload/{id}/start and GET /download/{id}/content with `bytes=-0`. *)

CallArrives(c) ==
    /\ calls[c] = "Idle"
    /\ IF running
         THEN calls' = [calls EXCEPT ![c] = "Waiting"]
         ELSE calls' = [calls EXCEPT ![c] = "Done"]
    /\ \/ c \in Finishes /\ Post([cmd |-> "FinishDownload", from |-> c])
       \/ c \in Checks /\ \E p \in Positions : Post([cmd |-> "CheckStartUpload", from |-> c, position |-> p])
    /\ UNCHANGED <<vars, uploads, downloads, peers>>

CallReturns(c) ==
    /\ calls[c] = "Waiting" /\ Answered(c)
    /\ calls' = [calls EXCEPT ![c] = "Done"]
    /\ ReadAnswer(c)
    /\ UNCHANGED <<sessionVars, mailbox, uploads, downloads, peers>>

-----------------------------------------------------------------------------
(* The websocket relay task, which nothing drops from outside. *)

PeerPCs == {"Idle", "Starting", "Open", "Done"}

PeerConnects(w) ==
    /\ peers[w].pc = "Idle"
    /\ peers' = [peers EXCEPT ![w].pc = IF running THEN "Starting" ELSE "Done"]
    /\ Post([cmd |-> "StartWebsocket", from |-> w])
    /\ UNCHANGED <<vars, uploads, downloads, calls>>

PeerStarted(w) ==
    /\ peers[w].pc = "Starting" /\ Answered(w)
    /\ peers' = [peers EXCEPT ![w].pc = IF Result(w) = Ok THEN "Open" ELSE "Done"]
    /\ ReadAnswer(w)
    /\ UNCHANGED <<sessionVars, mailbox, uploads, downloads, calls>>

PeerDelivers(w) ==
    /\ peers[w].pc = "Open" /\ inbox[w] # <<>> /\ Head(inbox[w]) # SessionError
    /\ peers' = [peers EXCEPT ![w].received = Append(@, Head(inbox[w]))]
    /\ inbox' = [inbox EXCEPT ![w] = Tail(@)]
    /\ UNCHANGED <<running, slots, signaling, answers, events, started,
                   mailbox, uploads, downloads, calls>>

PeerSends(w) ==
    /\ peers[w].pc = "Open"
    /\ <<w, peers[w].sent + 1>> \in Frames
    /\ peers' = [peers EXCEPT ![w].sent = @ + 1]
    /\ Post([cmd |-> "WebsocketData", from |-> w, frame |-> <<w, peers[w].sent + 1>>])
    /\ UNCHANGED <<vars, uploads, downloads, calls>>

PeerEnds(w) ==
    /\ peers' = [peers EXCEPT ![w].pc = "Done"]
    /\ Post([cmd |-> "WebsocketDisconnected", from |-> w])
    /\ UNCHANGED <<vars, uploads, downloads, calls>>

\* SessionError, or the session dropped its end of the channel.
PeerReplaced(w) ==
    /\ peers[w].pc = "Open"
    /\ IF inbox[w] = <<>> THEN ~running ELSE Head(inbox[w]) = SessionError
    /\ PeerEnds(w)

\* The client closes, stays silent for IDLE_TIMEOUT, or cannot be written to.
PeerCloses(w) == peers[w].pc = "Open" /\ PeerEnds(w)

-----------------------------------------------------------------------------
RelayNext ==
    \/ Serve
    \/ \E u \in Uploads :
        \/ \E p \in Positions : UploadArrives(u, p)
        \/ UploadRefused(u) \/ UploadStarted(u) \/ UploadAccepted(u)
        \/ UploadReads(u) \/ UploadAborts(u)
    \/ \E d \in Downloads :
        \/ \E p \in Positions : DownloadArrives(d, p)
        \/ DownloadStarted(d) \/ DownloadYields(d)
        \/ DownloadEnds(d) \/ DownloadDropped(d)
    \/ \E c \in Checks \cup Finishes : CallArrives(c) \/ CallReturns(c)
    \/ \E w \in Peers :
        \/ PeerConnects(w) \/ PeerStarted(w) \/ PeerDelivers(w)
        \/ PeerSends(w) \/ PeerReplaced(w) \/ PeerCloses(w)

RelaySpec == RelayInit /\ [][RelayNext]_relayVars

-----------------------------------------------------------------------------
(* Properties. *)

\* The handlers hold what their futures may hold at each await.
RelayTypeOK ==
    /\ TypeOK
    /\ mailbox \in Seq(Messages)
    /\ uploads \in [Uploads -> [pc : UploadPCs, next : Positions, last : BOOLEAN,
                                outcome : Answers \cup {Aborted}]]
    /\ downloads \in [Downloads -> [pc : DownloadPCs, next : Positions,
                                    completed : BOOLEAN]]
    /\ calls \in [Checks \cup Finishes -> {"Idle", "Waiting", "Done"}]
    /\ peers \in [Peers -> [pc : PeerPCs, sent : Nat, received : Seq(Commands)]]

\* Where in the file the i-th event of a download has to continue.
Expected(d, i) ==
    IF i = 1 THEN downloads[d].next
    ELSE events[d][i - 1].chunk.at + events[d][i - 1].chunk.size

\* Every download is fed the file from the position it asked for, byte after
\* byte: no gap, no repetition, whichever uploads the bytes come from and
\* wherever those stopped or resumed (start_download, start_upload, upload_data).
StreamIsContiguous ==
    \A d \in Downloads : \A i \in 1..Len(events[d]) :
        events[d][i].tag = "Bytes" => events[d][i].chunk.at = Expected(d, i)

\* A response that ended as complete carried the file up to its last byte.
CompleteMeansToTheEnd ==
    \A d \in Downloads : downloads[d].completed => downloads[d].next = FileSize

\* A queued chunk and the uploader behind it are where their handlers say: the
\* position the session keeps by adding up sizes is that of the bytes.
PositionsAreTrue ==
    /\ pending.tag = "Data" => pending.position = pending.chunk.at
    /\ \A u \in Uploads :
        uploads[u].pc = "Reading" /\ IsUploader(u) => uploader.position = uploads[u].next

\* The session forgets no call: a handler that waits, and whose command is no
\* longer in the mailbox, has an answer or is the waiter of the queued chunk.
NoCallIsForgotten ==
    \A u \in Uploads :
        running /\ Awaiting(u) /\ answers[u] = NoAnswer
            => \/ Waiter = u
               \/ \E i \in 1..Len(mailbox) : mailbox[i].from = u

\* Only the waiter of a request that is gone is ever overwritten by
\* flush_upload: a live request never sees NotFound while its session runs.
NoLiveWaiterIsDropped ==
    \A u \in Uploads : running /\ Awaiting(u) => answers[u] # NotFound

\* The Upload guard works: the uploader of a session has a live request, or
\* the news that the request is gone is on its way.
NoGhostUploader ==
    \A u \in Uploads :
        running /\ IsUploader(u) /\ ~Live(u)
            => \E i \in 1..Len(mailbox) :
                mailbox[i].cmd = "UploaderDisconnected" /\ mailbox[i].from = u

\* A session only ends when a response has carried the last byte or a
\* downloader has declared that it has everything.
EndsOnlyWhenDone ==
    ~running => \/ \E d \in Downloads : downloads[d].completed
                \/ \E f \in Finishes : calls[f] # "Idle"

\* An upload is answered ok only once the last chunk of the file is on a
\* download's channel, or a downloader has declared that it has everything.
OkMeansHandedOver ==
    \A u \in Uploads : uploads[u].outcome = Ok =>
        \/ \E d \in Downloads :
            \/ downloads[d].completed
            \/ \E i \in 1..Len(events[d]) :
                events[d][i].tag = "Bytes" /\ events[d][i].chunk.final
        \/ \E f \in Finishes : calls[f] # "Idle"

\* Token works: news of a replaced connection is ignored.  A response or a
\* websocket that is open and was not told otherwise is the session's own.
OpenConnectionsAreRegistered ==
    /\ \A d \in Downloads :
        /\ running /\ downloads[d].pc = "Streaming"
        /\ \A i \in 1..Len(events[d]) : events[d][i] # Replaced
        => IsConnected(d)
    /\ \A w \in Peers :
        /\ running /\ peers[w].pc = "Open"
        /\ \A i \in 1..Len(inbox[w]) : inbox[w][i] # SessionError
        => socket[DirectionOf(w)] = w

\* Everything the session sent to websocket connection w, oldest first.
SentTo(w) == peers[w].received \o inbox[w]

\* A client sees the frames of each client of the other side in the order they
\* were sent and at most once, across the move from held to live delivery.
FramesInOrder ==
    \A w \in Peers : \A i, j \in 1..Len(SentTo(w)) :
        LET a == SentTo(w)[i]  b == SentTo(w)[j]
        IN  i < j /\ a.tag = "Send" /\ b.tag = "Send" /\ a.frame[1] = b.frame[1]
                => a.frame[2] < b.frame[2]

\* No frame disappears while its session runs, however the two sides connect,
\* replace each other and leave (as long as held does not overflow): it is on
\* its way, held for the other side, or was sent to one of its connections.
FramesAreKept ==
    \A v \in Peers : \A n \in 1..peers[v].sent : running =>
        LET to == Opposite(DirectionOf(v))
        IN  \/ \E i \in 1..Len(mailbox) :
                mailbox[i].cmd = "WebsocketData" /\ mailbox[i].frame = <<v, n>>
            \/ \E i \in 1..Len(held[to]) : held[to][i] = <<v, n>>
            \/ \E w \in Peers : /\ DirectionOf(w) = to
                                /\ \E i \in 1..Len(SentTo(w)) : SentTo(w)[i] = Send(<<v, n>>)

-----------------------------------------------------------------------------
(* Liveness.  Ready tasks are scheduled: the session serves its mailbox and *)
(* a handler whose answer has come runs on.  Nothing is assumed of clients. *)

Scheduled ==
    /\ WF_relayVars(Serve)
    /\ \A u \in Uploads :
        WF_relayVars(UploadRefused(u) \/ UploadStarted(u) \/ UploadAccepted(u))
    /\ \A d \in Downloads :
        WF_relayVars(DownloadStarted(d)) /\ WF_relayVars(DownloadEnds(d))
    /\ \A c \in Checks \cup Finishes : WF_relayVars(CallReturns(c))

FairSpec == RelaySpec /\ Scheduled

\* An upload that another one replaced, or whose chunk the downloader does not
\* want, does not wait for ever: its call is answered (terminate_uploader).
ReplacedUploadReturns ==
    \A u \in Uploads :
        (u \in started /\ Awaiting(u) /\ ~IsUploader(u)) ~> ~Awaiting(u)

\* A connected download whose response is complete ends the session, unless
\* another downloader took its place first.
CompletionEndsSession ==
    \A d \in Downloads :
        (downloads[d].completed /\ IsConnected(d))
            ~> (~running \/ \E i \in 1..Len(events[d]) : events[d][i] = Replaced)

\* Connecting a download and the one-call requests never block.
CallsReturn ==
    /\ \A d \in Downloads : (downloads[d].pc = "Starting") ~> (downloads[d].pc # "Starting")
    /\ \A c \in Checks \cup Finishes : (calls[c] = "Waiting") ~> (calls[c] = "Done")

\* A session whose download is finished ends, unless a new downloader starts
\* over, the client of its uploader stalls in the middle of its body (the relay
\* has no timeout there), or an upload that started only after the finish has
\* queued a chunk (see FinishedUploadReturns).
FinishedSessionEnds ==
    (downloader = Complete) ~>
        \/ ~running
        \/ downloader # Complete
        \/ \E u \in Uploads : IsUploader(u) /\ uploads[u].pc = "Reading"
        \/ pending.tag = "Data"

-----------------------------------------------------------------------------
(* What a comment of the code says, and the code does not do.                *)

\* session.rs:145, finish_download "marks the download complete, ending the
\* session once the uploader disconnects": an upload that waits on a session
\* whose download is finished does not wait for ever.
FinishedUploadReturns ==
    \A u \in Uploads :
        (downloader = Complete /\ Awaiting(u)) ~> (~Awaiting(u) \/ downloader # Complete)

=============================================================================
