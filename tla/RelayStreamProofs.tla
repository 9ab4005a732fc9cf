------------------------- MODULE RelayStreamProofs -------------------------
(* Theorems about module Relay: what a download is fed, when a response or a *)
(* session ends, which connections the session knows, and which frames reach *)
(* them.                                                                     *)
EXTENDS RelayProofs

\* A websocket that is registered has started, and is of that direction.
SocketsOK ==
    \A dir \in Directions : socket[dir] # NoOne =>
        socket[dir] \in started /\ DirectionOf(socket[dir]) = dir

\* The session registers no websocket that has not started.
LEMMA SocketsCorrect == Spec => []SocketsOK
<1>1. Init => SocketsOK
    BY DEF Init, SocketsOK
<1>2. TypeOK /\ SocketsOK /\ [Next]_vars => SocketsOK'
    <2> SUFFICES ASSUME TypeOK, SocketsOK, [Next]_vars
                 PROVE  SocketsOK'
        OBVIOUS
    <2>1. CASE socket' = socket /\ started \subseteq started'
        BY <2>1 DEF SocketsOK, DirectionOf
    <2>2. ASSUME NEW w \in Peers, StartWebsocket(w)
          PROVE  SocketsOK'
        <3>1. /\ socket' = [socket EXCEPT ![DirectionOf(w)] = w]
              /\ started' = started \cup {w}
            BY <2>2 DEF StartWebsocket
        <3>2. DirectionOf(w) \in Directions
            BY DEF DirectionOf, Directions
        <3> QED
            BY <3>1, <3>2 DEF SocketsOK, TypeOK, DirectionOf
    <2>3. ASSUME NEW w \in Peers, WebsocketDisconnected(w)
          PROVE  SocketsOK'
        BY <2>3 DEF WebsocketDisconnected, SocketsOK, DirectionOf
    <2>4. ASSUME NEW h \in Callers,
                 \/ \E p \in Positions : StartDownload(h, p) \/ CheckStartUpload(h, p)
                                            \/ StartUpload(h, p)
                 \/ FinishDownload(h) \/ FlushUpload(h)
                 \/ \E chunk \in ChunksFor(h) : UploadData(h, chunk)
                 \/ \E completed \in BOOLEAN : DownloaderDisconnected(h, completed)
                 \/ UploaderDisconnected(h)
                 \/ TakeAnswer(h) \/ TakeEvent(h) \/ TakeCommand(h)
          PROVE  socket' = socket /\ started \subseteq started'
        BY <2>4 DEF StartDownload, CheckStartUpload, StartUpload, FinishDownload,
                    FlushUpload, UploadData, DownloaderDisconnected,
                    UploaderDisconnected, TakeAnswer, TakeEvent, TakeCommand, signaling
    <2>5. (\E from \in Directions, frame \in Frames : RelayFrame(from, frame))
             => socket' = socket /\ started \subseteq started'
        BY DEF RelayFrame
    <2> QED
        BY <2>1, <2>2, <2>3, <2>4, <2>5 DEF Next, Callers, vars
<1> QED
    BY <1>1, <1>2, TypeCorrect, PTL DEF Spec

\* What is known of the session alone, because the handlers implement Session.
SessionInv ==
    /\ CallInv
    /\ Positional /\ ReplacedIsLast /\ DownloadsStartFresh
    /\ HeldOnlyForAbsentPeers /\ SocketsOK

\* What is proved of Session holds of the session in the relay.
LEMMA SessionInvariance == RelaySpec => []SessionInv
BY CallInvariance, RelayImplementsSession, PositionsCorrect, DownloadsCorrect, HeldCorrect,
   SocketsCorrect, PTL
   DEF SessionInv, Positional

-----------------------------------------------------------------------------
(* The stream of a download, from its handler over its channel to the        *)
(* session: each part goes on where the one before it ends.                 *)

\* The session has a download where its channel ends.
StreamOf(d) ==
    /\ \A i \in 1..Len(events[d]) : events[d][i].tag = "Bytes" =>
          Fits(events[d][i].chunk) /\ events[d][i].chunk.at = Expected(d, i)
    /\ IsConnected(d) => downloader.position = Expected(d, Len(events[d]) + 1)
    /\ downloads[d].next <= FileSize
    /\ downloads[d].completed => downloads[d].next = FileSize

\* The queued chunk is at the position the session has computed for it.
QueueIsTrue == pending.tag = "Data" => pending.position = pending.chunk.at /\ Fits(pending.chunk)

\* A download starts from the position its handler was asked for.
StartsAreTrue ==
    \A i \in Mails : mailbox[i].cmd = "StartDownload"
        => mailbox[i].position = downloads[mailbox[i].from].next

\* A response that has not begun is not complete.
NoneIsCompleteEarly == \A d \in Downloads : downloads[d].pc = "Idle" => ~downloads[d].completed

StreamInv ==
    QueueIsTrue /\ StartsAreTrue /\ NoneIsCompleteEarly /\ \A d \in Downloads : StreamOf(d)

\* The ways a stream goes on, one lemma each.  Nothing is sent:
LEMMA StreamStays ==
    ASSUME NEW d \in Downloads, StreamOf(d), events'[d] = events[d],
           downloads'[d].next = downloads[d].next,
           downloads'[d].completed = downloads[d].completed,
           IsConnected(d)' => IsConnected(d) /\ downloader'.position = downloader.position
    PROVE  StreamOf(d)'
BY DEF StreamOf, Expected

\* Chunk c is sent, from where the channel ended:
LEMMA StreamIsFed ==
    ASSUME TypeOK, NEW d \in Downloads, StreamOf(d), NEW c \in Chunks, Fits(c),
           c.at = Expected(d, Len(events[d]) + 1),
           events'[d] = Append(events[d], Bytes(c)), downloads' = downloads,
           IsConnected(d)' => downloader'.position = c.at + c.size
    PROVE  StreamOf(d)'
<1>1. events[d] \in Seq(Events) /\ Bytes(c) \in Events
    BY BytesType DEF TypeOK
<1>2. /\ Len(events'[d]) = Len(events[d]) + 1
      /\ events'[d][Len(events[d]) + 1] = Bytes(c)
      /\ \A i \in 1..Len(events[d]) : events'[d][i] = events[d][i]
    BY <1>1, AppendProperties
<1>3. \A i \in 1..Len(events[d]) + 1 : Expected(d, i)' = Expected(d, i)
    BY <1>1, <1>2 DEF Expected
<1>4. Expected(d, Len(events[d]) + 1)' = c.at + c.size
    BY <1>1, <1>2 DEF Expected, Bytes
<1>5. ASSUME NEW i \in 1..Len(events'[d]), events'[d][i].tag = "Bytes"
      PROVE  Fits(events'[d][i].chunk) /\ events'[d][i].chunk.at = Expected(d, i)'
    <2>1. CASE i = Len(events[d]) + 1
        BY <1>2, <1>3, <2>1, <1>1 DEF Bytes
    <2>2. CASE i \in 1..Len(events[d])
        BY <1>2, <1>3, <1>5, <2>2, <1>1 DEF StreamOf
    <2> QED
        BY <1>1, <1>2, <2>1, <2>2
<1> QED
    BY <1>2, <1>4, <1>5 DEF StreamOf, Fits

\* The download is told that it was replaced:
LEMMA StreamIsReplaced ==
    ASSUME TypeOK, NEW d \in Downloads, StreamOf(d), downloads' = downloads,
           events'[d] = Append(events[d], Replaced), ~IsConnected(d)'
    PROVE  StreamOf(d)'
<1>1. events[d] \in Seq(Events) /\ Replaced \in Events
    BY DEF TypeOK, Events
<1>2. /\ Len(events'[d]) = Len(events[d]) + 1
      /\ events'[d][Len(events[d]) + 1] = Replaced
      /\ \A i \in 1..Len(events[d]) : events'[d][i] = events[d][i]
    BY <1>1, AppendProperties
<1>3. \A i \in 1..Len(events[d]) + 1 : Expected(d, i)' = Expected(d, i)
    BY <1>1, <1>2 DEF Expected
<1>4. ASSUME NEW i \in 1..Len(events'[d]), events'[d][i].tag = "Bytes"
      PROVE  Fits(events'[d][i].chunk) /\ events'[d][i].chunk.at = Expected(d, i)'
    <2>1. i \in 1..Len(events[d])
        BY <1>1, <1>2, <1>4 DEF Replaced
    <2> QED
        BY <1>2, <1>3, <1>4, <2>1, <1>1 DEF StreamOf
<1> QED
    BY <1>4 DEF StreamOf, Fits

\* The handler reads the oldest event, a chunk:
LEMMA StreamIsRead ==
    ASSUME TypeOK, HandlersOK, NEW d \in Downloads, StreamOf(d), DownloadYields(d)
    PROVE  StreamOf(d)'
<1> DEFINE chunk == events[d][1].chunk
<1>1. events[d] \in Seq(Events) /\ events[d] # <<>>
    BY DEF TypeOK, DownloadYields
<1>2. Head(events[d]) = events[d][1] /\ Len(events[d]) \in Nat /\ Len(events[d]) >= 1
    BY <1>1
<1>3. /\ events[d][1].tag = "Bytes"
      /\ events'[d] = Tail(events[d])
      /\ downloads'[d].next = downloads[d].next + chunk.size
      /\ downloads'[d].completed = chunk.final
      /\ downloader' = downloader
    BY <1>2 DEF DownloadYields, slots, TypeOK, HandlersOK
<1>4. Fits(chunk) /\ chunk.at = downloads[d].next
    BY <1>2, <1>3 DEF StreamOf, Expected
<1> HIDE DEF chunk
<1>5. /\ Len(events'[d]) = Len(events[d]) - 1
      /\ \A i \in 1..Len(events'[d]) : events'[d][i] = events[d][i + 1]
    BY <1>1, <1>2, <1>3
<1>6. \A i \in 1..Len(events'[d]) + 1 : Expected(d, i)' = Expected(d, i + 1)
    BY <1>2, <1>3, <1>4, <1>5 DEF Expected, chunk
<1>7. ASSUME NEW i \in 1..Len(events'[d]), events'[d][i].tag = "Bytes"
      PROVE  Fits(events'[d][i].chunk) /\ events'[d][i].chunk.at = Expected(d, i)'
    <2>1. /\ i + 1 \in 1..Len(events[d])
          /\ events'[d][i] = events[d][i + 1]
          /\ Expected(d, i)' = Expected(d, i + 1)
        BY <1>2, <1>5, <1>6
    <2>2. Fits(events[d][i + 1].chunk) /\ events[d][i + 1].chunk.at = Expected(d, i + 1)
        BY <1>7, <2>1 DEF StreamOf
    <2> QED
        BY <2>1, <2>2
<1>8. IsConnected(d)' => downloader'.position = Expected(d, Len(events[d]) + 1)'
    BY <1>2, <1>3, <1>5, <1>6 DEF StreamOf, IsConnected
<1> QED
    BY <1>3, <1>4, <1>7, <1>8 DEF StreamOf, Fits

-----------------------------------------------------------------------------
(* What a turn of the session task sends.                                   *)

\* A start of download d, which nobody was fed or told anything before:
LEMMA StartFeeds ==
    ASSUME SessionInv, NEW d \in Downloads, NEW p \in Positions, StartDownload(d, p),
           d \notin started, QueueIsTrue, StreamOf(d), downloads' = downloads,
           p = downloads[d].next
    PROVE  StreamOf(d)'
<1>1. /\ events[d] = <<>> /\ ~IsConnected(d) /\ TypeOK
      /\ p \in Nat
    BY SizesAreNatural DEF SessionInv, CallInv, DownloadsStartFresh, Positions
<1>2. /\ events'[d] = IF Meets(p) THEN Append(events[d], Bytes(pending.chunk)) ELSE events[d]
      /\ downloader' = Connected(d, PositionAfterQueued(p))
    BY <1>1 DEF StartDownload, EventsAfterReplacing
<1>3. Expected(d, Len(events[d]) + 1) = p
    BY <1>1 DEF Expected
<1>4. CASE Meets(p)
    <2>1. /\ pending.chunk \in Chunks /\ Fits(pending.chunk)
          /\ pending.chunk.at = p
        BY <1>1, <1>4, QueuedChunkType DEF Meets, QueueIsTrue
    <2>2. downloader'.position = pending.chunk.at + pending.chunk.size
        BY <1>2, <1>4, <2>1 DEF Connected, PositionAfterQueued
    <2> QED
        BY <1>1, <1>2, <1>3, <1>4, <2>1, <2>2, StreamIsFed
<1>5. CASE ~Meets(p)
    <2>1. /\ downloader'.position = p /\ events'[d] = <<>>
          /\ Len(events'[d]) = 0 /\ Expected(d, 1)' = p
        BY <1>1, <1>2, <1>5 DEF Connected, PositionAfterQueued, Expected
    <2> QED
        BY <1>1, <2>1 DEF StreamOf
<1> QED
    BY <1>4, <1>5

\* A start or the end of another download, which replaces d if d is connected:
LEMMA ReplacingFeeds ==
    ASSUME TypeOK, NEW d \in Downloads, StreamOf(d), downloads' = downloads,
           events'[d] = EventsAfterReplacing[d], ~IsConnected(d)'
    PROVE  StreamOf(d)'
<1>1. CASE IsConnected(d)
    BY <1>1, StreamIsReplaced DEF EventsAfterReplacing
<1>2. CASE ~IsConnected(d)
    BY <1>2, StreamStays DEF EventsAfterReplacing
<1> QED
    BY <1>1, <1>2

\* The uploader's next chunk, which goes straight to the connected download:
LEMMA UploadFeeds ==
    ASSUME SessionInv, NEW u \in Uploads, NEW chunk \in Chunks, UploadData(u, chunk),
           Fits(chunk), IsUploader(u) => uploader.position = chunk.at,
           NEW d \in Downloads, StreamOf(d), downloads' = downloads
    PROVE  StreamOf(d)'
<1>1. TypeOK /\ PositionsAgree
    BY DEF SessionInv, CallInv, Positional
<1>2. CASE UNCHANGED <<downloader, events>>
    BY <1>2, StreamStays DEF IsConnected
<1>3. CASE /\ IsUploader(u) /\ pending.tag = "None" /\ downloader.tag = "Connected"
           /\ downloader' = [downloader EXCEPT !.position = uploader.position + chunk.size]
           /\ events' = [events EXCEPT ![downloader.token] = Append(@, Bytes(chunk))]
    <2>1. /\ downloader.token \in Downloads /\ downloader.position = chunk.at
          /\ uploader.position = chunk.at
        BY <1>1, <1>3, DownloaderType DEF PositionsAgree, IsUploader
    <2>2. /\ downloader'.tag = "Connected" /\ downloader'.token = downloader.token
          /\ downloader'.position = chunk.at + chunk.size
        <3> DEFINE at == uploader.position + chunk.size
        <3>1. at = chunk.at + chunk.size
            BY <2>1
        <3> HIDE DEF at
        <3>2. downloader = Connected(downloader.token, downloader.position)
            BY <1>1, <1>3, DownloaderType
        <3>3. downloader' = Connected(downloader.token, at)
            BY <1>3, <3>2 DEF Connected, at
        <3> QED
            BY <3>1, <3>3 DEF Connected
    <2>3. CASE IsConnected(d)
        <3>1. events'[d] = Append(events[d], Bytes(chunk))
            BY <1>1, <1>3, <2>3 DEF IsConnected, TypeOK
        <3>2. chunk.at = Expected(d, Len(events[d]) + 1)
            BY <2>1, <2>3 DEF StreamOf
        <3> QED
            BY <1>1, <2>2, <3>1, <3>2, StreamIsFed
    <2>4. CASE ~IsConnected(d)
        <3>1. events'[d] = events[d] /\ ~IsConnected(d)'
            BY <1>1, <1>3, <2>2, <2>4 DEF IsConnected, TypeOK
        <3> QED
            BY <3>1, StreamStays
    <2> QED
        BY <2>3, <2>4
<1> QED
    BY <1>2, <1>3 DEF UploadData, slots

\* Every other command leaves the channels of the downloads alone, and at most
\* disconnects one.
LEMMA OthersFeedNothing ==
    ASSUME TypeOK, NEW m \in Messages, Dispatch(m),
           m.cmd \notin {"StartDownload", "FinishDownload", "UploadData"}
    PROVE  /\ events' = events
           /\ downloader' = downloader \/ downloader'.tag # "Connected"
<1>1. CASE m.cmd = "DownloaderDisconnected" /\ DownloaderDisconnected(m.from, m.completed)
    BY SMTT(30), <1>1, MessageFields DEF DownloaderDisconnected, Complete, Absent
<1>2. CASE \/ CheckStartUpload(m.from, m.position) \/ StartUpload(m.from, m.position)
           \/ FlushUpload(m.from) \/ StartWebsocket(m.from)
           \/ RelayFrame(DirectionOf(m.from), m.frame)
           \/ UploaderDisconnected(m.from) \/ WebsocketDisconnected(m.from)
    BY <1>2 DEF CheckStartUpload, StartUpload, FlushUpload, StartWebsocket, RelayFrame,
                UploaderDisconnected, WebsocketDisconnected, slots
<1> QED
    BY <1>1, <1>2 DEF Dispatch

\* What the session puts in a channel goes on where its stream ends.
LEMMA ServeKeepsStream ==
    ASSUME SessionInv, StreamInv, Serve, NEW d \in Downloads
    PROVE  StreamOf(d)'
<1> DEFINE m == mailbox[1]
<1>1. /\ 1 \in Mails /\ m \in Messages /\ Dispatch(m)
      /\ TypeOK /\ downloads' = downloads
    BY OldestMessage DEF SessionInv, CallInv, handlers
<1>2. /\ m.cmd = "StartDownload" => /\ m.position = downloads[m.from].next
                                    /\ m.from \notin started
      /\ m.cmd = "UploadData" => /\ Fits(m.chunk)
                                 /\ IsUploader(m.from) => uploader.position = m.chunk.at
    BY <1>1 DEF SessionInv, CallInv, StartsOnce, IsStart, UploadsOK, UploadMail, StreamInv,
                StartsAreTrue
<1> HIDE DEF m
<1>3. StreamOf(d) /\ QueueIsTrue
    BY DEF StreamInv
<1> USE <1>1, <1>3, MessageFields
<1>4. CASE m.cmd = "StartDownload" /\ StartDownload(m.from, m.position)
    <2>1. CASE d = m.from
        BY <1>2, <1>4, <2>1, StartFeeds
    <2>2. CASE d # m.from
        <3>1. events'[d] = EventsAfterReplacing[d] /\ ~IsConnected(d)'
            BY <1>4, <2>2 DEF StartDownload, IsConnected, Connected, EventsAfterReplacing
        <3> QED
            BY <3>1, ReplacingFeeds
    <2> QED
        BY <2>1, <2>2
<1>5. CASE m.cmd = "FinishDownload" /\ FinishDownload(m.from)
    <2>1. events'[d] = EventsAfterReplacing[d] /\ ~IsConnected(d)'
        BY <1>5 DEF FinishDownload, IsConnected, Complete
    <2> QED
        BY <2>1, ReplacingFeeds
<1>6. CASE m.cmd = "UploadData" /\ UploadData(m.from, m.chunk)
    BY <1>2, <1>6, UploadFeeds
<1>7. CASE m.cmd \notin {"StartDownload", "FinishDownload", "UploadData"}
    <2>1. /\ events' = events
          /\ downloader' = downloader \/ downloader'.tag # "Connected"
        BY <1>7, OthersFeedNothing
    <2> QED
        BY <2>1, StreamStays DEF IsConnected
<1> QED
    BY <1>4, <1>5, <1>6, <1>7 DEF Dispatch

\* A chunk is queued where its upload had it, and stays where it is.
LEMMA ServeQueues ==
    ASSUME SessionInv, Serve, pending'.tag = "Data"
    PROVE  \/ /\ pending.tag = "Data"
              /\ pending'.chunk = pending.chunk /\ pending'.position = pending.position
           \/ /\ mailbox[1].cmd = "UploadData" /\ IsUploader(mailbox[1].from)
              /\ pending' = Data(mailbox[1].chunk, mailbox[1].from, uploader.position)
<1> DEFINE m == mailbox[1]
           Kept == /\ pending.tag = "Data"
                   /\ pending'.chunk = pending.chunk /\ pending'.position = pending.position
<1>1. 1 \in Mails /\ m \in Messages /\ Dispatch(m) /\ TypeOK
    BY OldestMessage DEF SessionInv, CallInv
<1> HIDE DEF m
<1> USE <1>1, MessageFields
<1>2. ASSUME pending' = pending PROVE Kept
    BY <1>2
<1>3. ASSUME NEW waiter, pending.tag = "Data", pending' = [pending EXCEPT !.waiter = waiter]
      PROVE  Kept
    <2>1. pending = Data(pending.chunk, pending.waiter, pending.position)
        BY <1>3, QueuedChunkType
    <2>2. pending' = Data(pending.chunk, waiter, pending.position)
        BY <1>3, <2>1 DEF Data
    <2> QED
        BY <1>3, <2>2 DEF Data
<1>4. ASSUME NEW e, pending' = PendingAfterTermination(e) PROVE Kept
    BY <1>3, <1>4 DEF PendingAfterTermination, Error
<1>5. CASE m.cmd = "StartDownload" /\ StartDownload(m.from, m.position)
    BY <1>5 DEF StartDownload, PendingAfterDownload, Error, NoPending
<1>6. CASE m.cmd = "FinishDownload" /\ FinishDownload(m.from)
    BY <1>2, <1>4, <1>6 DEF FinishDownload
<1>7. CASE m.cmd = "StartUpload" /\ StartUpload(m.from, m.position)
    <2>1. \/ pending' = pending \/ pending' = NoPending
          \/ pending' = PendingAfterTermination(ConnectionReplaced)
        BY <1>7 DEF StartUpload
    <2> QED
        BY <1>2, <1>4, <2>1 DEF NoPending
<1>8. CASE m.cmd = "UploadData" /\ UploadData(m.from, m.chunk)
    BY <1>2, <1>8 DEF UploadData, slots, m
<1>9. CASE m.cmd = "FlushUpload" /\ FlushUpload(m.from)
    BY <1>2, <1>3, <1>9 DEF FlushUpload
<1>10. CASE m.cmd = "UploaderDisconnected" /\ UploaderDisconnected(m.from)
    <2>1. pending' = pending \/ pending' = NoPending
        BY <1>10, Zenon DEF UploaderDisconnected
    <2> QED
        BY <1>2, <2>1 DEF NoPending
<1>11. CASE \/ CheckStartUpload(m.from, m.position) \/ StartWebsocket(m.from)
            \/ RelayFrame(DirectionOf(m.from), m.frame)
            \/ DownloaderDisconnected(m.from, m.completed) \/ WebsocketDisconnected(m.from)
    BY <1>2, <1>11 DEF CheckStartUpload, StartWebsocket, RelayFrame, DownloaderDisconnected,
                       WebsocketDisconnected, slots
<1> QED
    BY <1>5, <1>6, <1>7, <1>8, <1>9, <1>10, <1>11 DEF Dispatch, m

-----------------------------------------------------------------------------
(* What the handlers do to the streams.                                     *)

DownloadMoves(d) ==
    \/ \E p \in Positions : DownloadArrives(d, p)
    \/ DownloadStarted(d) \/ DownloadYields(d)
    \/ DownloadEnds(d) \/ DownloadDropped(d)

\* What the handlers of the other kinds send: of an end, only what is true.
FromOthers(m) ==
    /\ m.cmd \notin {"StartDownload", "DownloaderDisconnected"}
    /\ m.cmd = "FinishDownload" /\ running => calls'[m.from] # "Idle"

\* The handlers of the other kinds leave the downloads alone.
LEMMA OthersLeaveDownloads ==
    ASSUME CallInv, RelayNext, ~Serve, ~\E d \in Downloads : DownloadMoves(d)
    PROVE  /\ downloads' = downloads /\ events' = events
           /\ \/ mailbox' = mailbox
              \/ \E m \in Messages : Post(m) /\ FromOthers(m)
<1>1. ASSUME NEW u \in Uploads, NEW p \in Positions, UploadArrives(u, p)
      PROVE  /\ downloads' = downloads /\ events' = events
             /\ \E m \in Messages : Post(m) /\ FromOthers(m)
    BY <1>1 DEF UploadArrives, vars, Messages, FromOthers
<1>2. ASSUME NEW u \in Uploads, UploadRefused(u) \/ UploadStarted(u) \/ UploadAccepted(u)
      PROVE  /\ downloads' = downloads /\ events' = events
             /\ \/ mailbox' = mailbox
                \/ \E m \in Messages : Post(m) /\ FromOthers(m)
    BY <1>2 DEF UploadRefused, UploadStarted, UploadAccepted, UploadEnds, sessionVars, Messages,
                FromOthers
<1>3. ASSUME NEW u \in Uploads, UploadReads(u) \/ UploadAborts(u)
      PROVE  /\ downloads' = downloads /\ events' = events
             /\ \E m \in Messages : Post(m) /\ FromOthers(m)
    <2>1. CASE UploadAborts(u)
        BY <2>1 DEF UploadAborts, UploadEnds, vars, Messages, FromOthers
    <2>2. CASE UploadReads(u)
        <3>1. PICK chunk \in Chunks :
                  /\ Post([cmd |-> "UploadData", from |-> u, chunk |-> chunk])
                  /\ UNCHANGED <<vars, downloads, calls, peers>>
            BY <2>2, ChunkRead DEF CallInv
        <3>2. [cmd |-> "UploadData", from |-> u, chunk |-> chunk] \in Messages
            BY DEF Messages
        <3> QED
            BY <3>1, <3>2 DEF vars, FromOthers
    <2> QED
        BY <1>3, <2>1, <2>2
<1>4. ASSUME NEW c \in Checks \cup Finishes, CallArrives(c) \/ CallReturns(c)
      PROVE  /\ downloads' = downloads /\ events' = events
             /\ \/ mailbox' = mailbox
                \/ \E m \in Messages : Post(m) /\ FromOthers(m)
    <2>1. CASE CallReturns(c)
        BY <2>1 DEF CallReturns, sessionVars
    <2>2. CASE CallArrives(c)
        <3>1. CASE c \in Finishes /\ Post([cmd |-> "FinishDownload", from |-> c])
            <4>1. calls'[c] # "Idle" /\ UNCHANGED <<vars, downloads>>
                BY <2>2, <3>1 DEF CallArrives, CallInv, HandlersOK
            <4>2. [cmd |-> "FinishDownload", from |-> c] \in Messages
                BY <3>1 DEF Messages
            <4> QED
                BY <3>1, <4>1, <4>2 DEF vars, FromOthers
        <3>2. ASSUME c \in Checks, NEW p \in Positions,
                     Post([cmd |-> "CheckStartUpload", from |-> c, position |-> p])
              PROVE  \E m \in Messages : Post(m) /\ FromOthers(m)
            BY <3>2 DEF Messages, FromOthers
        <3> QED
            BY <2>2, <3>1, <3>2 DEF CallArrives, vars
    <2> QED
        BY <1>4, <2>1, <2>2
<1>5. ASSUME NEW w \in Peers,
             \/ PeerConnects(w) \/ PeerStarted(w) \/ PeerDelivers(w)
             \/ PeerSends(w) \/ PeerReplaced(w) \/ PeerCloses(w)
      PROVE  /\ downloads' = downloads /\ events' = events
             /\ \/ mailbox' = mailbox
                \/ \E m \in Messages : Post(m) /\ FromOthers(m)
    <2>1. CASE PeerConnects(w)
        BY <2>1 DEF PeerConnects, vars, Messages, FromOthers
    <2>2. CASE PeerStarted(w) \/ PeerDelivers(w)
        BY <2>2 DEF PeerStarted, PeerDelivers, sessionVars
    <2>3. CASE PeerSends(w)
        BY <2>3 DEF PeerSends, vars, Messages, FromOthers
    <2>4. CASE PeerReplaced(w) \/ PeerCloses(w)
        BY <2>4 DEF PeerReplaced, PeerCloses, PeerEnds, vars, Messages, FromOthers
    <2> QED
        BY <1>5, <2>1, <2>2, <2>3, <2>4
<1> QED
    BY <1>1, <1>2, <1>3, <1>4, <1>5 DEF RelayNext, DownloadMoves

\* What a download's handler does to its own state, its channel and the mailbox.
LEMMA DownloadSteps ==
    ASSUME CallInv, NEW d \in Downloads, DownloadMoves(d)
    PROVE  /\ \A e \in Downloads \ {d} : downloads'[e] = downloads[e] /\ events'[e] = events[e]
           /\ \/ /\ downloads[d].pc = "Idle" /\ running
                 /\ \E p \in Positions :
                       /\ downloads'[d] = [downloads[d] EXCEPT !.pc = "Starting", !.next = p]
                       /\ Post([cmd |-> "StartDownload", from |-> d, position |-> p])
                 /\ events' = events
              \/ /\ downloads[d].pc = "Idle" /\ ~running
                 /\ downloads'[d] = [downloads[d] EXCEPT !.pc = "Done"]
                 /\ events' = events /\ mailbox' = mailbox
              \/ /\ downloads[d].pc = "Starting"
                 /\ \/ Result(d) # Ok /\ downloads'[d] = [downloads[d] EXCEPT !.pc = "Done"]
                    \/ Result(d) = Ok /\ downloads'[d] = [downloads[d] EXCEPT !.pc = "Streaming"]
                    \/ downloads'[d] = [downloads[d] EXCEPT !.pc = "Done"]
                 /\ events' = events /\ mailbox' = mailbox
              \/ /\ DownloadYields(d)
                 /\ downloads'[d].pc = "Streaming" /\ downloads[d].pc = "Streaming"
                 /\ events[d] # <<>> /\ events'[d] = Tail(events[d])
                 /\ mailbox' = mailbox
              \/ /\ downloads[d].pc = "Streaming"
                 /\ downloads'[d] = [downloads[d] EXCEPT !.pc = "Done"]
                 /\ Post([cmd |-> "DownloaderDisconnected", from |-> d,
                          completed |-> downloads[d].completed])
                 /\ events' = events
           /\ \/ DownloadYields(d)
              \/ events' = events /\ downloads'[d].completed = downloads[d].completed
<1>1. /\ downloads \in [Downloads -> [pc : DownloadPCs, next : Nat, completed : BOOLEAN]]
      /\ events \in [Downloads -> Seq(Events)]
    BY DEF CallInv, HandlersOK, TypeOK
<1>2. ASSUME NEW p \in Positions, DownloadArrives(d, p), running
      PROVE  /\ \A e \in Downloads \ {d} : downloads'[e] = downloads[e]
             /\ downloads[d].pc = "Idle"
             /\ downloads'[d] = [downloads[d] EXCEPT !.pc = "Starting", !.next = p]
             /\ Post([cmd |-> "StartDownload", from |-> d, position |-> p])
             /\ events' = events /\ downloads'[d].completed = downloads[d].completed
    BY <1>1, <1>2 DEF DownloadArrives, vars
<1>3. ASSUME NEW p \in Positions, DownloadArrives(d, p), ~running
      PROVE  /\ \A e \in Downloads \ {d} : downloads'[e] = downloads[e]
             /\ downloads[d].pc = "Idle"
             /\ downloads'[d] = [downloads[d] EXCEPT !.pc = "Done"]
             /\ downloads'[d].completed = downloads[d].completed
             /\ events' = events /\ mailbox' = mailbox
    BY <1>1, <1>3 DEF DownloadArrives, vars, Post
<1>4. CASE DownloadStarted(d)
    BY <1>1, <1>4 DEF DownloadStarted, sessionVars
<1>5. CASE DownloadYields(d)
    <2>1. /\ \A e \in Downloads \ {d} : downloads'[e] = downloads[e] /\ events'[e] = events[e]
          /\ downloads'[d].pc = downloads[d].pc
          /\ downloads[d].pc = "Streaming" /\ events[d] # <<>> /\ events'[d] = Tail(events[d])
          /\ mailbox' = mailbox
        BY <1>1, <1>5 DEF DownloadYields
    <2> QED
        BY <1>5, <2>1
<1>6. CASE DownloadEnds(d)
    BY <1>1, <1>6 DEF DownloadEnds, DownloadCloses, vars
<1>7. CASE DownloadDropped(d)
    BY <1>1, <1>7 DEF DownloadDropped, DownloadCloses, vars
<1> QED
    BY <1>2, <1>3, <1>4, <1>5, <1>6, <1>7 DEF DownloadMoves

\* The positions a download asks for are its handler's: the handler of a start
\* that is still in the mailbox has read nothing.
LEMMA HandlersKeepStarts ==
    ASSUME SessionInv, StartsAreTrue, RelayNext, ~Serve
    PROVE  StartsAreTrue'
<1>1. mailbox \in Seq(Messages) /\ CallInv
    BY DEF SessionInv, CallInv, HandlersOK
<1>2. ASSUME NEW i \in Mails, mailbox[i].cmd = "StartDownload"
      PROVE  mailbox[i].position = downloads'[mailbox[i].from].next
    <2> DEFINE d == mailbox[i].from
    <2>1. d \in Downloads /\ mailbox[i].position = downloads[d].next
        BY <1>1, <1>2, MessageFields DEF Mails, StartsAreTrue
    <2>2. downloads[d].pc \notin {"Idle", "Streaming"}
        BY <1>1, <1>2, <2>1 DEF CallInv, OneCall, Resting, Asked, IsCall
    <2>3. downloads'[d].next = downloads[d].next
        <3>1. CASE \E e \in Downloads : DownloadMoves(e)
            <4>1. PICK e \in Downloads : DownloadMoves(e)
                BY <3>1
            <4>2. CASE e = d
                <5>1. downloads[d] \in [pc : DownloadPCs, next : Nat, completed : BOOLEAN]
                    BY <1>1, <2>1 DEF CallInv, HandlersOK
                <5> HIDE DEF d
                <5>2. \E pc : downloads'[d] = [downloads[d] EXCEPT !.pc = pc]
                    BY <1>1, <2>1, <2>2, <4>1, <4>2, DownloadSteps
                <5> QED
                    BY <5>1, <5>2
            <4> QED
                BY <1>1, <2>1, <4>1, <4>2, DownloadSteps
        <3> QED
            BY <1>1, <3>1, OthersLeaveDownloads
    <2> QED
        BY <2>1, <2>3
<1>3. ASSUME NEW m \in Messages, Post(m),
             m.cmd = "StartDownload" => m.position = downloads'[m.from].next
      PROVE  StartsAreTrue'
    BY <1>1, <1>2, <1>3, Posted DEF StartsAreTrue
<1>4. CASE mailbox' = mailbox
    BY <1>2, <1>4 DEF StartsAreTrue, Mails
<1>5. ASSUME NEW d \in Downloads, DownloadMoves(d)
      PROVE  StartsAreTrue'
    <2>1. ASSUME NEW p \in Positions,
                 downloads'[d] = [downloads[d] EXCEPT !.pc = "Starting", !.next = p],
                 Post([cmd |-> "StartDownload", from |-> d, position |-> p])
          PROVE  StartsAreTrue'
        <3>1. downloads'[d].next = p
            BY <1>1, <2>1 DEF CallInv, HandlersOK
        <3>2. [cmd |-> "StartDownload", from |-> d, position |-> p] \in Messages
            BY DEF Messages
        <3> QED
            BY <1>3, <2>1, <3>1, <3>2
    <2>2. ASSUME Post([cmd |-> "DownloaderDisconnected", from |-> d,
                       completed |-> downloads[d].completed])
          PROVE  StartsAreTrue'
        <3>1. [cmd |-> "DownloaderDisconnected", from |-> d,
               completed |-> downloads[d].completed] \in Messages
            BY <1>1 DEF CallInv, HandlersOK, Messages
        <3> QED
            BY <1>3, <2>2, <3>1
    <2> QED
        BY <1>1, <1>4, <1>5, <2>1, <2>2, DownloadSteps
<1> QED
    BY <1>1, <1>3, <1>4, <1>5, OthersLeaveDownloads DEF FromOthers

\* A handler reads a stream from where it is.
LEMMA HandlersKeepStream ==
    ASSUME SessionInv, StreamInv, RelayNext, ~Serve, NEW d \in Downloads
    PROVE  StreamOf(d)' /\ (downloads'[d].pc = "Idle" => ~downloads'[d].completed)
<1>1. /\ CallInv /\ TypeOK /\ HandlersOK /\ StreamOf(d)
      /\ downloads[d].pc = "Idle" => ~downloads[d].completed
      /\ downloads[d] \in [pc : DownloadPCs, next : Nat, completed : BOOLEAN]
    BY DEF SessionInv, CallInv, StreamInv, NoneIsCompleteEarly, HandlersOK
<1>2. downloader' = downloader
    BY <1>1, HandlerStepIsAStep DEF slots
<1>3. ASSUME events'[d] = events[d], downloads'[d] = downloads[d]
      PROVE  StreamOf(d)' /\ (downloads'[d].pc = "Idle" => ~downloads'[d].completed)
    BY <1>1, <1>2, <1>3, StreamStays DEF IsConnected
<1>4. ASSUME events' = events, NEW pc \in {"Done", "Streaming"},
             downloads'[d] = [downloads[d] EXCEPT !.pc = pc]
      PROVE  StreamOf(d)' /\ (downloads'[d].pc = "Idle" => ~downloads'[d].completed)
    <2>1. /\ downloads'[d].next = downloads[d].next
          /\ downloads'[d].completed = downloads[d].completed
          /\ downloads'[d].pc # "Idle"
        BY <1>1, <1>4
    <2> QED
        BY <1>1, <1>2, <1>4, <2>1, StreamStays DEF IsConnected
<1>5. ASSUME NEW p \in Positions, downloads[d].pc = "Idle", events' = events,
             downloads'[d] = [downloads[d] EXCEPT !.pc = "Starting", !.next = p]
      PROVE  StreamOf(d)' /\ (downloads'[d].pc = "Idle" => ~downloads'[d].completed)
    <2>1. events[d] = <<>> /\ ~IsConnected(d)
        BY <1>1, <1>5 DEF CallInv, StartsOnce, SessionInv, DownloadsStartFresh
    <2>2. /\ downloads'[d].next = p /\ p <= FileSize
          /\ ~downloads'[d].completed /\ downloads'[d].pc # "Idle"
        BY <1>1, <1>5, SizesAreNatural DEF Positions
    <2> QED
        BY <1>2, <1>5, <2>1, <2>2 DEF StreamOf, IsConnected
<1>6. ASSUME DownloadMoves(d)
      PROVE  StreamOf(d)' /\ (downloads'[d].pc = "Idle" => ~downloads'[d].completed)
    <2>1. CASE DownloadYields(d) /\ downloads'[d].pc = "Streaming"
        BY <1>1, <2>1, StreamIsRead
    <2> QED
        BY <1>1, <1>4, <1>5, <1>6, <2>1, DownloadSteps
<1>7. ASSUME NEW e \in Downloads \ {d}, DownloadMoves(e)
      PROVE  StreamOf(d)' /\ (downloads'[d].pc = "Idle" => ~downloads'[d].completed)
    BY <1>1, <1>3, <1>7, DownloadSteps
<1> QED
    BY <1>1, <1>3, <1>6, <1>7, OthersLeaveDownloads

\* Every step keeps the streams.
LEMMA StreamInvStep ==
    ASSUME SessionInv, StreamInv, [RelayNext]_relayVars
    PROVE  StreamInv'
<1>1. mailbox \in Seq(Messages) /\ CallInv
    BY DEF SessionInv, CallInv, HandlersOK
<1>2. CASE Serve
    <2>1. QueueIsTrue'
        <3> SUFFICES ASSUME pending'.tag = "Data"
                     PROVE  pending'.position = pending'.chunk.at /\ Fits(pending'.chunk)
            BY DEF QueueIsTrue, Fits
        <3>1. 1 \in Mails /\ (mailbox[1].cmd = "UploadData" /\ IsUploader(mailbox[1].from)
                 => Fits(mailbox[1].chunk) /\ uploader.position = mailbox[1].chunk.at)
            BY <1>1, <1>2, OldestMessage DEF CallInv, UploadsOK, UploadMail
        <3> QED
            BY <1>2, <3>1, ServeQueues DEF StreamInv, QueueIsTrue, Data
    <2>2. StartsAreTrue' /\ NoneIsCompleteEarly'
        <3>1. downloads' = downloads
            BY <1>1, <1>2, OldestMessage DEF handlers
        <3> QED
            BY <1>1, <1>2, <3>1, Served DEF StreamInv, StartsAreTrue, NoneIsCompleteEarly
    <2> QED
        BY <1>2, <2>1, <2>2, ServeKeepsStream DEF StreamInv
<1>3. CASE RelayNext /\ ~Serve
    <2>1. pending' = pending
        BY <1>1, <1>3, HandlerStepIsAStep DEF slots
    <2>2. QueueIsTrue'
        BY <2>1 DEF StreamInv, QueueIsTrue, Fits
    <2> QED
        BY <1>3, <2>2, HandlersKeepStarts, HandlersKeepStream DEF StreamInv, NoneIsCompleteEarly
<1>4. CASE UNCHANGED relayVars
    BY <1>4 DEF relayVars, vars, handlers, StreamInv, QueueIsTrue, StartsAreTrue, NoneIsCompleteEarly,
                StreamOf, Expected, IsConnected, Fits, Mails
<1> QED
    BY <1>2, <1>3, <1>4

\* Every part of every stream continues the part before it, from the bytes a
\* response has sent to those that its session has queued.
LEMMA StreamInvariance == RelaySpec => []StreamInv
<1>1. RelayInit => StreamInv
    BY SizesAreNatural DEF RelayInit, Init, StreamInv, QueueIsTrue, StartsAreTrue, NoneIsCompleteEarly,
                           StreamOf, NoPending, Absent, IsConnected, Mails
<1>2. SessionInv /\ StreamInv /\ [RelayNext]_relayVars => StreamInv'
    BY StreamInvStep
<1> QED
    BY <1>1, <1>2, SessionInvariance, PTL DEF RelaySpec

\* Whichever uploads its bytes come from, wherever those stopped and resumed,
\* a download gets them without gap or repetition from where it asked.
THEOREM StreamsAreContiguous == RelaySpec => []StreamIsContiguous
<1>1. StreamInv => StreamIsContiguous
    BY DEF StreamInv, StreamOf, StreamIsContiguous
<1> QED
    BY <1>1, StreamInvariance, PTL

\* A response that its handler ends as complete carried the file to its end.
THEOREM CompleteIsToTheEnd == RelaySpec => []CompleteMeansToTheEnd
<1>1. StreamInv => CompleteMeansToTheEnd
    BY DEF StreamInv, StreamOf, CompleteMeansToTheEnd
<1> QED
    BY <1>1, StreamInvariance, PTL

\* The positions that the session adds up from sizes, and that an uploader is
\* told to resume from, are those of the bytes.
THEOREM PositionsStayTrue == RelaySpec => []PositionsAreTrue
<1>1. CallInv /\ StreamInv => PositionsAreTrue
    BY DEF CallInv, UploadsOK, UploaderIsAt, StreamInv, QueueIsTrue, PositionsAreTrue
<1> QED
    BY <1>1, CallInvariance, StreamInvariance, PTL

\* The handlers hold what their types say; no response goes past the file.
THEOREM RelayTypeCorrect == RelaySpec => []RelayTypeOK
<1>1. CallInv /\ StreamInv => RelayTypeOK
    <2> SUFFICES ASSUME CallInv, StreamInv
                 PROVE  RelayTypeOK
        OBVIOUS
    <2>1. downloads \in [Downloads -> [pc : DownloadPCs, next : Nat, completed : BOOLEAN]]
        BY DEF CallInv, HandlersOK
    <2>2. \A d \in Downloads : downloads[d] \in [pc : DownloadPCs, next : Positions,
                                                 completed : BOOLEAN]
        <3> TAKE d \in Downloads
        <3>1. downloads[d].next <= FileSize
            BY DEF StreamInv, StreamOf
        <3>2. downloads[d] \in [pc : DownloadPCs, next : Nat, completed : BOOLEAN]
            BY <2>1
        <3>3. downloads[d].next \in Positions
            BY <3>1, <3>2, SizesAreNatural DEF Positions
        <3> QED
            BY <3>2, <3>3
    <2>3. downloads \in [Downloads -> [pc : DownloadPCs, next : Positions, completed : BOOLEAN]]
        BY <2>1, <2>2
    <2> QED
        BY <2>3 DEF CallInv, HandlersOK, RelayTypeOK
<1> QED
    BY <1>1, CallInvariance, StreamInvariance, PTL

-----------------------------------------------------------------------------
(* When a response, an upload and the session end.                          *)

Declared == \E f \in Finishes : calls[f] # "Idle"

\* The last chunk is on the channel of d, or its handler has read it.
HasTheEnd(d) ==
    \/ downloads[d].completed
    \/ \E i \in 1..Len(events[d]) : events[d][i].tag = "Bytes" /\ events[d][i].chunk.final

Delivered == Declared \/ \E d \in Downloads : HasTheEnd(d)

\* The news of an end is true.
EndsAreTrue ==
    \A i \in Mails :
        /\ mailbox[i].cmd = "FinishDownload" => Declared
        /\ mailbox[i].cmd = "DownloaderDisconnected" =>
              /\ downloads[mailbox[i].from].pc = "Done"
              /\ downloads[mailbox[i].from].completed = mailbox[i].completed

\* The session remembers that the download is finished, or has ended, only then.
SessionEndsTrue ==
    downloader = Complete \/ ~running
        => Declared \/ \E d \in Downloads : downloads[d].completed

FinishedIsTrue ==
    /\ \A u \in Uploads : answers[u] = Finished => Delivered
    /\ pending.tag = "Error" /\ pending.error = Finished => Delivered

\* The last chunk of an upload is queued until it is on a download's channel.
LastIsTrue ==
    \A u \in Uploads : uploads[u].last =>
        /\ answers[u] = Ok => Delivered
        /\ Waiter = u => pending.chunk.final

OutcomeIsTrue == \A u \in Uploads : uploads[u].outcome = Ok => Delivered

EndInv == EndsAreTrue /\ SessionEndsTrue /\ FinishedIsTrue /\ LastIsTrue /\ OutcomeIsTrue

\* The session only ever adds to the channels.
LEMMA EventsGrow ==
    ASSUME CallInv, Serve, NEW d \in Downloads
    PROVE  /\ Len(events[d]) \in Nat /\ Len(events'[d]) \in Nat
           /\ \A i \in 1..Len(events[d]) : i \in 1..Len(events'[d]) /\ events'[d][i] = events[d][i]
<1> DEFINE m == mailbox[1]
<1>1. 1 \in Mails /\ m \in Messages /\ Dispatch(m) /\ TypeOK
    BY OldestMessage DEF CallInv
<1>2. events \in [Downloads -> Seq(Events)] /\ events[d] \in Seq(Events)
    BY <1>1 DEF TypeOK
<1>3. ASSUME NEW e \in Events, events'[d] = Append(events[d], e)
      PROVE  /\ Len(events'[d]) = Len(events[d]) + 1
             /\ \A i \in 1..Len(events[d]) : events'[d][i] = events[d][i]
    BY <1>2, <1>3, AppendProperties
<1>4. ASSUME NEW e \in Events, NEW f \in Events,
             events'[d] = Append(Append(events[d], e), f)
      PROVE  /\ Len(events'[d]) = Len(events[d]) + 2
             /\ \A i \in 1..Len(events[d]) : events'[d][i] = events[d][i]
    <2>1. Append(events[d], e) \in Seq(Events)
        BY <1>2
    <2> QED
        BY <1>2, <1>4, <2>1, AppendProperties
<1> HIDE DEF m
<1> USE <1>1, <1>2, MessageFields
<1>5. Replaced \in Events
    BY DEF Events
<1>6. CASE m.cmd = "StartDownload" /\ StartDownload(m.from, m.position)
    <2>1. Meets(m.position) => Bytes(pending.chunk) \in Events
        BY QueuedChunkType, BytesType DEF Meets
    <2>2. events'[d] = IF d = m.from /\ Meets(m.position)
                         THEN Append(EventsAfterReplacing[d], Bytes(pending.chunk))
                         ELSE EventsAfterReplacing[d]
        BY <1>6 DEF StartDownload, EventsAfterReplacing
    <2>3. EventsAfterReplacing[d] = Append(events[d], Replaced) \/ EventsAfterReplacing[d] = events[d]
        BY DEF EventsAfterReplacing
    <2> QED
        BY SMTT(30), <1>3, <1>4, <1>5, <2>1, <2>2, <2>3
<1>7. CASE m.cmd = "FinishDownload" /\ FinishDownload(m.from)
    <2>1. events'[d] = Append(events[d], Replaced) \/ events'[d] = events[d]
        BY <1>7 DEF FinishDownload, EventsAfterReplacing
    <2> QED
        BY <1>3, <1>5, <2>1
<1>8. CASE m.cmd = "UploadData" /\ UploadData(m.from, m.chunk)
    <2>1. \/ events' = events
          \/ events' = [events EXCEPT ![downloader.token] = Append(@, Bytes(m.chunk))]
        BY <1>8 DEF UploadData
    <2>2. events'[d] = Append(events[d], Bytes(m.chunk)) \/ events'[d] = events[d]
        BY <2>1
    <2> QED
        BY <1>3, <1>8, <2>2, BytesType
<1>9. CASE m.cmd \notin {"StartDownload", "FinishDownload", "UploadData"}
    BY <1>9, OthersFeedNothing
<1> QED
    BY <1>6, <1>7, <1>8, <1>9 DEF Dispatch

\* What is delivered stays delivered, whether a turn of the session or a
\* handler takes the next step.
LEMMA DeliveredStays ==
    ASSUME CallInv, [RelayNext]_relayVars
    PROVE  /\ Declared => Declared'
           /\ \A d \in Downloads : downloads[d].completed => downloads'[d].completed
           /\ Delivered => Delivered'
<1>1. Declared => Declared'
    <2>1. calls \in [Checks \cup Finishes -> {"Idle", "Waiting", "Done"}]
        BY DEF CallInv, HandlersOK
    <2>2. calls' = calls \/ \E c \in Checks \cup Finishes : CallArrives(c) \/ CallReturns(c)
        BY Zenon DEF RelayNext, relayVars, handlers, Serve, UploadArrives, UploadRefused, UploadStarted,
               UploadAccepted, UploadReads, UploadAborts, DownloadArrives, DownloadStarted,
               DownloadYields, DownloadEnds, DownloadDropped, DownloadCloses, PeerConnects,
               PeerStarted, PeerDelivers, PeerSends, PeerReplaced, PeerCloses, PeerEnds
    <2>3. \A c \in Finishes : calls[c] # "Idle" => calls'[c] # "Idle"
        BY <2>1, <2>2 DEF CallArrives, CallReturns
    <2> QED
        BY <2>3 DEF Declared
<1>2. CASE Serve
    <2>1. downloads' = downloads
        BY <1>2, OldestMessage DEF handlers
    <2> QED
        BY <1>1, <1>2, <2>1, EventsGrow DEF Delivered, HasTheEnd
<1>3. CASE downloads' = downloads /\ events' = events
    BY <1>1, <1>3 DEF Delivered, HasTheEnd
<1>4. ASSUME NEW d \in Downloads, DownloadMoves(d)
      PROVE  /\ \A e \in Downloads : downloads[e].completed => downloads'[e].completed
             /\ \A e \in Downloads : HasTheEnd(e) => HasTheEnd(e)'
    <2>1. downloads[d] \in [pc : DownloadPCs, next : Nat, completed : BOOLEAN]
        BY DEF CallInv, HandlersOK
    <2>2. \A e \in Downloads \ {d} : downloads'[e] = downloads[e] /\ events'[e] = events[e]
        BY <1>4, DownloadSteps
    <2>3. CASE DownloadYields(d)
        <3>1. /\ events[d] \in Seq(Events) /\ events[d] # <<>> /\ ~downloads[d].completed
              /\ downloads'[d].completed = events[d][1].chunk.final
              /\ events'[d] = Tail(events[d])
            BY <2>3 DEF CallInv, HandlersOK, TypeOK, DownloadYields
        <3>2. \A i \in 1..Len(events[d]) :
                 i = 1 \/ (i - 1 \in 1..Len(events'[d]) /\ events'[d][i - 1] = events[d][i])
            BY <3>1
        <3>3. HasTheEnd(d) => HasTheEnd(d)'
            <4> SUFFICES ASSUME NEW i \in 1..Len(events[d]), events[d][i].tag = "Bytes",
                                events[d][i].chunk.final
                         PROVE  HasTheEnd(d)'
                BY <3>1 DEF HasTheEnd
            <4>1. CASE i = 1
                BY <3>1, <4>1 DEF HasTheEnd
            <4>2. CASE i # 1
                BY <3>2, <4>2 DEF HasTheEnd
            <4> QED
                BY <4>1, <4>2
        <3>4. \A e \in Downloads \ {d} : HasTheEnd(e) => HasTheEnd(e)'
            BY <2>2 DEF HasTheEnd
        <3> QED
            BY <2>2, <3>1, <3>3, <3>4
    <2>4. CASE ~DownloadYields(d)
        <3>1. downloads'[d].completed = downloads[d].completed /\ events' = events
            BY <1>4, <2>4, DownloadSteps
        <3> QED
            BY <2>2, <3>1 DEF HasTheEnd
    <2> QED
        BY <2>3, <2>4
<1>5. CASE UNCHANGED relayVars
    BY <1>3, <1>5 DEF relayVars, vars, handlers
<1> QED
    BY <1>1, <1>2, <1>3, <1>4, <1>5, OthersLeaveDownloads DEF Delivered

\* Only a declared end brings the answer Finished, at once or through the
\* error that is queued for the uploader.
LEMMA FinishedIsDeclared ==
    ASSUME CallInv, Serve, mailbox[1].cmd # "FinishDownload",
           pending.tag = "Error" => pending.error # Finished
    PROVE  /\ pending'.tag = "Error" => pending'.error # Finished
           /\ \A u \in Uploads : answers'[u] = Finished => answers[u] = Finished
<1> DEFINE m == mailbox[1]
<1>1. 1 \in Mails /\ m \in Messages /\ Dispatch(m) /\ TypeOK
    BY OldestMessage DEF CallInv
<1>2. Finished \notin {NoAnswer, Ok, ConnectionReplaced, NotFound, DataPending}
    BY DEF NotFound, NoAnswer, Ok, ConnectionReplaced, Finished, DataPending
<1>3. \A p : AtPosition(p) # Finished
    BY DEF AtPosition, Finished
<1>4. \A p : StartPositionError(p) # Finished /\ WaiterResult(p) # Finished
    BY <1>2, <1>3 DEF StartPositionError, WaiterResult
<1>5. Uploads \subseteq Callers
    BY DEF Callers
<1> DEFINE NoneNew == \A u \in Uploads : answers'[u] = Finished => answers[u] = Finished
           NoneQueued == pending'.tag = "Error" => pending'.error # Finished
<1>6. ASSUME NEW h, NEW result, NEW waiter, NEW waiterResult,
             answers' = AnswersWith(h, result, waiter, waiterResult),
             result # Finished, waiterResult # Finished
      PROVE  NoneNew
    BY <1>5, <1>6, AnswersWithValues
<1>7. ASSUME NEW u \in Uploads, Refused(u)
      PROVE  NoneNew
    <2>1. PICK error : answers' = AnswersWith(u, error, NoOne, Ok) /\ error # Finished
        BY <1>2, <1>7 DEF Refused
    <2> QED
        BY <1>2, <1>6, <2>1
<1>8. ASSUME pending' = pending \/ pending'.tag # "Error"
      PROVE  NoneQueued
    BY <1>8
<1>9. ASSUME pending' = PendingAfterTermination(ConnectionReplaced)
      PROVE  NoneQueued
    <2>1. CASE pending.tag = "Data"
        <3>1. pending = Data(pending.chunk, pending.waiter, pending.position)
            BY <1>1, <2>1, QueuedChunkType
        <3>2. pending' = Data(pending.chunk, NoOne, pending.position)
            BY <1>9, <2>1, <3>1 DEF PendingAfterTermination, Data
        <3> QED
            BY <3>2 DEF Data
    <2>2. CASE pending.tag # "Data"
        BY <1>2, <1>9, <2>2 DEF PendingAfterTermination, Error
    <2> QED
        BY <2>1, <2>2
<1> HIDE DEF m, NoneNew, NoneQueued
<1> USE MessageFields, <1>1
<1>10. CASE m.cmd = "StartDownload" /\ StartDownload(m.from, m.position)
    <2>1. NoneQueued
        BY <1>3, <1>10 DEF StartDownload, PendingAfterDownload, Error, NoPending, NoneQueued
    <2>2. answers' = AnswersWith(m.from, Ok, Waiter, WaiterResult(m.position))
        BY <1>10 DEF StartDownload
    <2> QED
        BY <1>2, <1>4, <1>6, <2>1, <2>2 DEF NoneNew, NoneQueued
<1>11. CASE m.cmd = "CheckStartUpload" /\ CheckStartUpload(m.from, m.position)
    <2>1. /\ answers' = AnswersWith(m.from, StartPositionError(m.position), NoOne, Ok)
          /\ pending' = pending
        BY <1>11 DEF CheckStartUpload, slots
    <2> QED
        BY <1>2, <1>4, <1>6, <1>8, <2>1 DEF NoneNew, NoneQueued
<1>12. CASE m.cmd = "StartUpload" /\ StartUpload(m.from, m.position)
    <2>1. \/ pending' = PendingAfterTermination(ConnectionReplaced)
          \/ pending' = pending \/ pending' = NoPending
        BY <1>12 DEF StartUpload
    <2>2. answers' = AnswersWith(m.from, StartPositionError(m.position), TerminatedWaiter,
                                 ConnectionReplaced)
        BY <1>12 DEF StartUpload
    <2> QED
        BY <1>2, <1>4, <1>6, <1>8, <1>9, <2>1, <2>2 DEF NoPending, NoneNew, NoneQueued
<1>13. CASE m.cmd = "UploadData" /\ UploadData(m.from, m.chunk)
    <2>1. CASE Refused(m.from) /\ pending' = pending
        BY <1>7, <1>8, <1>13, <2>1 DEF NoneNew, NoneQueued
    <2>2. CASE answers' = AnswersWith(m.from, DataPending, NoOne, Ok) /\ pending' = pending
        BY <1>2, <1>6, <1>8, <2>2 DEF NoneNew, NoneQueued
    <2>3. CASE answers' = AnswersWith(m.from, Ok, NoOne, Ok) /\ pending' = pending
        BY <1>2, <1>6, <1>8, <2>3 DEF NoneNew, NoneQueued
    <2>4. CASE answers' = answers /\ pending' = Data(m.chunk, m.from, uploader.position)
        BY <2>4 DEF Data
    <2> QED
        BY <1>13, <2>1, <2>2, <2>3, <2>4 DEF UploadData, slots
<1>14. CASE m.cmd = "FlushUpload" /\ FlushUpload(m.from)
    <2>1. CASE Refused(m.from) /\ pending' = pending
        BY <1>7, <1>8, <1>14, <2>1 DEF NoneNew, NoneQueued
    <2>2. CASE /\ pending.tag = "Data"
               /\ pending' = [pending EXCEPT !.waiter = m.from]
               /\ answers' = AnswersWith(NoOne, Ok, Waiter, NotFound)
        <3>1. pending = Data(pending.chunk, pending.waiter, pending.position)
            BY <2>2, QueuedChunkType
        <3>2. pending' = Data(pending.chunk, m.from, pending.position)
            BY <2>2, <3>1 DEF Data
        <3> QED
            BY <1>2, <1>6, <2>2, <3>2 DEF Data, NoneNew, NoneQueued
    <2>3. CASE answers' = AnswersWith(m.from, Ok, NoOne, Ok) /\ pending' = pending
        BY <1>2, <1>6, <1>8, <2>3 DEF NoneNew, NoneQueued
    <2> QED
        BY <1>14, <2>1, <2>2, <2>3 DEF FlushUpload
<1>15. CASE m.cmd = "StartWebsocket" /\ StartWebsocket(m.from)
    <2>1. answers' = AnswersWith(m.from, Ok, NoOne, Ok) /\ pending' = pending
        BY <1>15 DEF StartWebsocket, slots
    <2> QED
        BY <1>2, <1>6, <1>8, <2>1 DEF NoneNew, NoneQueued
<1>16. CASE \/ RelayFrame(DirectionOf(m.from), m.frame)
            \/ DownloaderDisconnected(m.from, m.completed) \/ WebsocketDisconnected(m.from)
    BY <1>16 DEF RelayFrame, DownloaderDisconnected, WebsocketDisconnected, slots
<1>17. CASE m.cmd = "UploaderDisconnected" /\ UploaderDisconnected(m.from)
    <2>1. (pending' = pending \/ pending' = NoPending) /\ answers' = answers
        BY <1>17, Zenon DEF UploaderDisconnected
    <2> QED
        BY <2>1 DEF NoPending
<1> QED
    BY <1>10, <1>11, <1>12, <1>13, <1>14, <1>15, <1>16, <1>17 DEF Dispatch, m

\* The session accepts the last chunk of an upload only by sending it on.
LEMMA LastIsHandedOver ==
    ASSUME CallInv, LastIsTrue, Serve, NEW u \in Uploads, uploads[u].last,
           answers'[u] = Ok, answers[u] # Ok
    PROVE  \E d \in Downloads : HasTheEnd(d)'
<1> DEFINE m == mailbox[1]
<1>1. /\ 1 \in Mails /\ m \in Messages /\ Dispatch(m)
      /\ TypeOK /\ downloads' = downloads
    BY OldestMessage DEF CallInv, handlers
<1>2. /\ Waiter = u => pending.tag = "Data" /\ pending.chunk \in Chunks /\ pending.chunk.final
      /\ uploads[u].pc = "Sending" /\ u \in Callers
    BY <1>1, WaiterType, QueuedChunkType, NoOneIsNoHandler
       DEF LastIsTrue, CallInv, UploadsOK, Callers
<1>3. m.from = u => /\ m.cmd \notin {"StartUpload", "FlushUpload"}
                    /\ m.cmd = "UploadData" => m.chunk.final
    BY <1>1, <1>2 DEF CallInv, UploadsOK, UploadMail
<1>4. ASSUME NEW d \in Downloads, NEW s \in Seq(Events), NEW c \in Chunks, c.final,
             events'[d] = Append(s, Bytes(c))
      PROVE  HasTheEnd(d)'
    <2>1. Bytes(c) \in Events
        BY BytesType
    <2>2. /\ Len(events'[d]) = Len(s) + 1 /\ Len(s) \in Nat
          /\ events'[d][Len(s) + 1] = Bytes(c)
        BY <1>4, <2>1, AppendProperties
    <2> QED
        BY <1>4, <2>2 DEF HasTheEnd, Bytes
<1> HIDE DEF m
<1> USE MessageFields, <1>1
<1>5. /\ \A h \in Downloads \cup Checks \cup Finishes \cup Peers : h # u
      /\ Ok \notin {Finished, ConnectionReplaced, DataPending, NotFound}
    BY HandlersAreDistinct DEF Ok, Finished, ConnectionReplaced, DataPending, NotFound
<1>6. CASE m.cmd = "StartDownload" /\ StartDownload(m.from, m.position)
    <2>1. answers' = AnswersWith(m.from, Ok, Waiter, WaiterResult(m.position))
        BY <1>6 DEF StartDownload
    <2>2. u = Waiter /\ WaiterResult(m.position) = Ok
        BY <1>2, <1>5, <1>6, <2>1, AnswersWithValues
    <2>3. Meets(m.position)
        BY <2>2 DEF WaiterResult, AtPosition, Ok
    <2>4. /\ EventsAfterReplacing[m.from] \in Seq(Events)
          /\ events'[m.from] = Append(EventsAfterReplacing[m.from], Bytes(pending.chunk))
        BY <1>6, <2>3, EventsAfterReplacingType DEF StartDownload, EventsAfterReplacing
    <2> QED
        BY <1>2, <1>4, <1>6, <2>2, <2>4
<1>7. CASE m.cmd = "FinishDownload" /\ FinishDownload(m.from)
    <2>1. answers' = AnswersWith(m.from, Ok, TerminatedWaiter, Finished)
        BY <1>7 DEF FinishDownload
    <2> QED
        BY <1>2, <1>5, <1>7, <2>1, AnswersWithValues
<1>8. CASE m.cmd = "CheckStartUpload" /\ CheckStartUpload(m.from, m.position)
    <2>1. answers' = AnswersWith(m.from, StartPositionError(m.position), NoOne, Ok)
        BY <1>8 DEF CheckStartUpload
    <2> QED
        BY <1>2, <1>5, <1>8, <2>1, AnswersWithValues, NoOneIsNoHandler
<1>9. CASE m.cmd = "StartUpload" /\ StartUpload(m.from, m.position)
    <2>1. answers' = AnswersWith(m.from, StartPositionError(m.position), TerminatedWaiter,
                                 ConnectionReplaced)
        BY <1>9 DEF StartUpload
    <2> QED
        BY <1>2, <1>3, <1>5, <1>9, <2>1, AnswersWithValues
<1>10. ASSUME NEW v \in Uploads, Refused(v), pending' = pending, IsCall(m), v = m.from
       PROVE  FALSE
    <2>1. Waiter # v
        BY <1>10, CallerIsFree DEF Free, m
    <2>2. PICK error : answers' = AnswersWith(v, error, NoOne, Ok)
        BY <1>10 DEF Refused
    <2>3. CASE v = u
        BY <1>10, <2>1, <2>3, RefusedAnswers
    <2>4. CASE v # u
        BY <1>2, <2>2, <2>4, AnswersWithValues, NoOneIsNoHandler
    <2> QED
        BY <2>3, <2>4
<1>11. CASE m.cmd = "UploadData" /\ UploadData(m.from, m.chunk)
    <2>1. CASE Refused(m.from) /\ UNCHANGED <<slots, events, inbox>>
        BY <1>10, <1>11, <2>1 DEF slots, IsCall
    <2>2. CASE answers' = AnswersWith(m.from, DataPending, NoOne, Ok)
        BY <1>2, <1>5, <2>2, AnswersWithValues, NoOneIsNoHandler
    <2>3. CASE /\ downloader.tag = "Connected"
               /\ events' = [events EXCEPT ![downloader.token] = Append(@, Bytes(m.chunk))]
               /\ answers' = AnswersWith(m.from, Ok, NoOne, Ok)
        <3>1. m.from = u
            BY <1>2, <2>3, AnswersWithValues, NoOneIsNoHandler
        <3>2. /\ downloader.token \in Downloads /\ events[downloader.token] \in Seq(Events)
              /\ events'[downloader.token] = Append(events[downloader.token], Bytes(m.chunk))
            BY <2>3, DownloaderType DEF TypeOK
        <3> QED
            BY <1>3, <1>4, <1>11, <3>1, <3>2
    <2>4. CASE answers' = answers
        BY <2>4
    <2> QED
        BY <1>11, <2>1, <2>2, <2>3, <2>4 DEF UploadData
<1>12. CASE m.cmd = "FlushUpload" /\ FlushUpload(m.from)
    <2>1. CASE Refused(m.from) /\ pending' = pending
        BY <1>10, <1>12, <2>1 DEF IsCall
    <2>2. CASE answers' = AnswersWith(NoOne, Ok, Waiter, NotFound)
        BY <1>2, <1>5, <2>2, AnswersWithValues, NoOneIsNoHandler
    <2>3. CASE answers' = AnswersWith(m.from, Ok, NoOne, Ok)
        BY <1>2, <1>3, <1>12, <2>3, AnswersWithValues, NoOneIsNoHandler
    <2> QED
        BY <1>12, <2>1, <2>2, <2>3 DEF FlushUpload
<1>13. CASE m.cmd = "StartWebsocket" /\ StartWebsocket(m.from)
    <2>1. answers' = AnswersWith(m.from, Ok, NoOne, Ok)
        BY <1>13 DEF StartWebsocket
    <2> QED
        BY <1>2, <1>5, <1>13, <2>1, AnswersWithValues, NoOneIsNoHandler
<1>14. CASE \/ RelayFrame(DirectionOf(m.from), m.frame)
            \/ DownloaderDisconnected(m.from, m.completed)
            \/ UploaderDisconnected(m.from) \/ WebsocketDisconnected(m.from)
    BY <1>14 DEF RelayFrame, DownloaderDisconnected, UploaderDisconnected, WebsocketDisconnected
<1> QED
    BY <1>6, <1>7, <1>8, <1>9, <1>11, <1>12, <1>13, <1>14 DEF Dispatch

\* An upload whose last chunk is sent waits for that chunk and no other.
LEMMA LastStaysQueued ==
    ASSUME SessionInv, LastIsTrue, Serve, NEW u \in Uploads, uploads[u].last, Waiter' = u
    PROVE  pending'.chunk.final
<1> DEFINE m == mailbox[1]
<1>1. /\ 1 \in Mails /\ m \in Messages /\ Dispatch(m) /\ CallInv /\ TypeOK
      /\ uploads[u].pc = "Sending" /\ u \in Callers
    BY OldestMessage DEF SessionInv, CallInv, UploadsOK, Callers
<1>2. m.from = u => /\ m.cmd \notin {"StartUpload", "FlushUpload"}
                    /\ m.cmd = "UploadData" => m.chunk.final
    BY <1>1 DEF CallInv, UploadsOK, UploadMail
<1>3. pending'.tag = "Data" /\ pending'.waiter = u
    BY <1>1, NoOneIsNoHandler DEF Waiter
<1>4. CASE m.cmd = "UploadData" /\ pending' = Data(m.chunk, m.from, uploader.position)
    BY <1>2, <1>3, <1>4 DEF Data
<1>5. CASE pending.tag = "Data" /\ pending'.chunk = pending.chunk
    <2>1. CASE Waiter = u
        BY <1>5, <2>1 DEF LastIsTrue
    <2>2. CASE Waiter # u
        <3>1. IsCall(m) /\ m.from = u
            BY <1>1, <2>2, ServeTakesMessage DEF CallTaken, NoticeTaken
        <3>2. m.cmd = "UploadData"
            BY <1>1, <1>2, <3>1, MessageFields, HandlersAreDistinct DEF IsCall
        <3>3. pending' = pending \/ pending.tag = "None"
            BY <1>1, <3>2 DEF Dispatch, UploadData, slots
        <3> QED
            BY <1>3, <1>5, <2>2, <3>3 DEF Waiter
    <2> QED
        BY <2>1, <2>2
<1> QED
    BY <1>3, <1>4, <1>5, ServeQueues

\* The session ends, or takes the download for finished, on true news only.
LEMMA ServeEndsTrue ==
    ASSUME CallInv, EndsAreTrue, SessionEndsTrue, Serve
    PROVE  SessionEndsTrue'
<1> DEFINE m == mailbox[1]
<1>1. /\ 1 \in Mails /\ m \in Messages /\ Dispatch(m) /\ TypeOK /\ running
      /\ downloads' = downloads /\ calls' = calls
    BY OldestMessage DEF CallInv, handlers
<1>2. /\ m.cmd = "FinishDownload" => Declared
      /\ m.cmd = "DownloaderDisconnected" => downloads[m.from].completed = m.completed
    BY <1>1 DEF EndsAreTrue
<1>3. Declared' <=> Declared
    BY <1>1 DEF Declared
<1> HIDE DEF m
<1> USE MessageFields, <1>1, <1>3
<1>4. CASE m.cmd = "FinishDownload"
    BY <1>2, <1>4 DEF SessionEndsTrue
<1>5. CASE m.cmd = "DownloaderDisconnected" /\ DownloaderDisconnected(m.from, m.completed)
    <2>1. CASE IsConnected(m.from) /\ m.completed
        BY <1>2, <1>5, <2>1 DEF SessionEndsTrue
    <2>2. CASE ~(IsConnected(m.from) /\ m.completed)
        <3>1. running' /\ (downloader' = downloader \/ downloader' = Absent)
            BY <1>5, <2>2 DEF DownloaderDisconnected
        <3> QED
            BY <3>1 DEF SessionEndsTrue, Absent, Complete
    <2> QED
        BY <2>1, <2>2
<1>6. CASE m.cmd = "UploaderDisconnected" /\ UploaderDisconnected(m.from)
    <2>1. downloader' = downloader /\ (~running' => downloader.tag = "Finished")
        BY <1>6, Zenon DEF UploaderDisconnected
    <2>2. downloader.tag = "Finished" => downloader = Complete
        BY DEF TypeOK, DownloaderSlots, Absent
    <2> QED
        BY <2>1, <2>2 DEF SessionEndsTrue
<1>7. CASE m.cmd = "StartDownload" /\ StartDownload(m.from, m.position)
    BY <1>7 DEF StartDownload, SessionEndsTrue, Connected, Complete
<1>8. CASE m.cmd = "UploadData" /\ UploadData(m.from, m.chunk)
    <2>1. running' = running
        BY <1>8 DEF UploadData
    <2>2. CASE downloader' = downloader
        BY <2>1, <2>2 DEF SessionEndsTrue
    <2>3. ASSUME downloader.tag = "Connected", NEW at,
                 downloader' = [downloader EXCEPT !.position = at]
          PROVE  SessionEndsTrue'
        <3>1. downloader = Connected(downloader.token, downloader.position)
            BY <2>3, DownloaderType
        <3>2. downloader' = Connected(downloader.token, at)
            BY <2>3, <3>1 DEF Connected
        <3> QED
            BY <2>1, <3>2 DEF SessionEndsTrue, Connected, Complete
    <2> QED
        BY <1>8, <2>2, <2>3 DEF UploadData, slots
<1>9. CASE \/ CheckStartUpload(m.from, m.position) \/ StartUpload(m.from, m.position)
           \/ FlushUpload(m.from) \/ StartWebsocket(m.from)
           \/ RelayFrame(DirectionOf(m.from), m.frame) \/ WebsocketDisconnected(m.from)
    <2>1. running' = running /\ downloader' = downloader
        BY <1>9 DEF CheckStartUpload, StartUpload, FlushUpload, StartWebsocket, RelayFrame,
                    WebsocketDisconnected, slots
    <2> QED
        BY SMTT(30), <2>1 DEF SessionEndsTrue
<1> QED
    BY <1>4, <1>5, <1>6, <1>7, <1>8, <1>9 DEF Dispatch

\* The session ends only when it has answered the end of the download.
LEMMA ServeKeepsEnds ==
    ASSUME SessionInv, EndInv, Serve
    PROVE  EndInv'
<1>1. /\ CallInv /\ TypeOK /\ 1 \in Mails /\ mailbox[1] \in Messages
      /\ downloads' = downloads /\ calls' = calls /\ uploads' = uploads
    BY OldestMessage DEF SessionInv, CallInv, handlers
<1>2. (Declared' <=> Declared) /\ (Delivered => Delivered')
    BY <1>1, DeliveredStays DEF Declared, RelayNext
<1>3. EndsAreTrue'
    <2>1. /\ \A i \in Mails' : i + 1 \in Mails /\ mailbox'[i] = mailbox[i + 1]
        BY <1>1, Served DEF CallInv, HandlersOK
    <2> QED
        BY <1>1, <1>2, <2>1 DEF EndInv, EndsAreTrue
<1>4. SessionEndsTrue'
    BY <1>1, ServeEndsTrue DEF EndInv
<1>5. FinishedIsTrue'
    <2>1. CASE mailbox[1].cmd = "FinishDownload"
        BY <1>1, <1>2, <2>1 DEF EndInv, EndsAreTrue, FinishedIsTrue, Delivered
    <2>2. CASE Delivered
        BY <1>2, <2>2 DEF FinishedIsTrue
    <2>3. CASE mailbox[1].cmd # "FinishDownload" /\ ~Delivered
        BY <1>1, <2>3, FinishedIsDeclared DEF EndInv, FinishedIsTrue
    <2> QED
        BY <2>1, <2>2, <2>3
<1>6. LastIsTrue'
    <2> SUFFICES ASSUME NEW u \in Uploads, uploads[u].last
                 PROVE  /\ answers'[u] = Ok => Delivered'
                        /\ Waiter' = u => pending'.chunk.final
        BY <1>1 DEF LastIsTrue
    <2>1. answers'[u] = Ok => Delivered'
        BY <1>1, <1>2, LastIsHandedOver DEF EndInv, LastIsTrue, Delivered
    <2>2. Waiter' = u => pending'.chunk.final
        BY LastStaysQueued DEF EndInv
    <2> QED
        BY <2>1, <2>2
<1>7. OutcomeIsTrue'
    BY <1>1, <1>2 DEF EndInv, OutcomeIsTrue
<1> QED
    BY <1>3, <1>4, <1>5, <1>6, <1>7 DEF EndInv

\* How an upload's handler comes to its outcome.
LEMMA UploadOutcomes ==
    ASSUME CallInv, NEW u \in Uploads,
           \/ \E p \in Positions : UploadArrives(u, p)
           \/ UploadRefused(u) \/ UploadStarted(u) \/ UploadAccepted(u)
           \/ UploadReads(u) \/ UploadAborts(u)
    PROVE  /\ \A v \in Uploads \ {u} : uploads'[v] = uploads[v] /\ answers'[v] = answers[v]
           /\ answers'[u] \in {answers[u], NoAnswer}
           /\ uploads'[u].last => uploads[u].last \/ uploads[u].pc = "Reading"
           /\ uploads'[u].outcome = Ok =>
                 \/ uploads[u].outcome = Ok \/ answers[u] = Finished
                 \/ uploads[u].last /\ answers[u] = Ok
<1>1. /\ uploads \in [Uploads -> [pc : UploadPCs, next : Positions, last : BOOLEAN,
                                  outcome : Answers \cup {Aborted}]]
      /\ answers \in [Callers -> Answers] /\ u \in Callers /\ Uploads \subseteq Callers
      /\ uploads[u] \in [pc : UploadPCs, next : Positions, last : BOOLEAN,
                         outcome : Answers \cup {Aborted}]
    BY DEF CallInv, HandlersOK, TypeOK, Callers
<1>2. Ok \notin {NotFound, Aborted, NoAnswer} /\ Finished # NoAnswer
    BY DEF Ok, NotFound, Aborted, NoAnswer, Finished
<1>3. ASSUME ReadAnswer(u)
      PROVE  /\ \A v \in Uploads \ {u} : answers'[v] = answers[v]
             /\ answers'[u] = NoAnswer
    BY <1>1, <1>3 DEF ReadAnswer
<1>4. ASSUME NEW outcome, UploadEnds(u, outcome)
      PROVE  /\ \A v \in Uploads \ {u} : uploads'[v] = uploads[v]
             /\ ~uploads'[u].last /\ uploads'[u].outcome = outcome
    BY <1>1, <1>4 DEF UploadEnds
<1>5. ASSUME NEW p \in Positions, UploadArrives(u, p)
      PROVE  /\ \A v \in Uploads \ {u} : uploads'[v] = uploads[v]
             /\ uploads'[u].last = uploads[u].last
             /\ uploads'[u].outcome \in {uploads[u].outcome, NotFound}
             /\ answers' = answers
    <2>1. CASE running
        BY <1>1, <1>5, <2>1 DEF UploadArrives, vars
    <2>2. CASE ~running
        BY <1>1, <1>5, <2>2 DEF UploadArrives, vars
    <2> QED
        BY <2>1, <2>2
<1>6. CASE UploadRefused(u)
    <2>1. /\ UploadEnds(u, Response(Result(u))) /\ Result(u) # Ok /\ ReadAnswer(u)
        BY <1>6 DEF UploadRefused
    <2>2. Response(Result(u)) = Ok => answers[u] = Finished
        BY <1>2, <2>1 DEF Response, Result, NotFound, Finished
    <2> QED
        BY <1>3, <1>4, <2>1, <2>2
<1>7. CASE UploadStarted(u)
    <2>1. /\ uploads' = [uploads EXCEPT ![u].pc = "Flushing"] /\ ReadAnswer(u)
        BY <1>7 DEF UploadStarted
    <2>2. /\ \A v \in Uploads \ {u} : uploads'[v] = uploads[v]
          /\ uploads'[u].last = uploads[u].last /\ uploads'[u].outcome = uploads[u].outcome
        BY <1>1, <2>1
    <2> QED
        BY <1>3, <2>1, <2>2
<1>8. CASE UploadAccepted(u)
    <2>1. ReadAnswer(u) /\ Result(u) = Ok
        BY <1>8 DEF UploadAccepted
    <2>2. answers[u] = Ok
        BY <1>2, <2>1 DEF Result
    <2>3. CASE uploads[u].last /\ UploadEnds(u, Ok)
        BY <1>3, <1>4, <2>1, <2>2, <2>3
    <2>4. CASE uploads' = [uploads EXCEPT ![u].pc = "Reading"]
        <3>1. /\ \A v \in Uploads \ {u} : uploads'[v] = uploads[v]
              /\ uploads'[u].last = uploads[u].last /\ uploads'[u].outcome = uploads[u].outcome
            BY <1>1, <2>4
        <3> QED
            BY <1>3, <2>1, <3>1
    <2> QED
        BY <1>8, <2>3, <2>4 DEF UploadAccepted
<1>9. CASE UploadReads(u)
    <2>1. PICK chunk \in Chunks :
             /\ uploads' = [uploads EXCEPT ![u].pc = "Sending", ![u].next = chunk.at + chunk.size,
                                           ![u].last = chunk.final]
             /\ answers' = answers /\ uploads[u].pc = "Reading"
        BY <1>9 DEF UploadReads, vars
    <2> DEFINE end == chunk.at + chunk.size
               final == chunk.final
    <2>2. uploads' = [uploads EXCEPT ![u].pc = "Sending", ![u].next = end, ![u].last = final]
        BY <2>1
    <2> HIDE DEF end, final
    <2>3. /\ \A v \in Uploads \ {u} : uploads'[v] = uploads[v]
          /\ uploads'[u].outcome = uploads[u].outcome
        BY <1>1, <2>2
    <2> QED
        BY <2>1, <2>3
<1>10. CASE UploadAborts(u)
    <2>1. UploadEnds(u, Aborted) /\ answers' = answers
        BY <1>10 DEF UploadAborts, vars
    <2> QED
        BY <1>2, <1>4, <2>1
<1> QED
    BY <1>2, <1>5, <1>6, <1>7, <1>8, <1>9, <1>10

\* The handlers tell the session of no end that has not come.
LEMMA HandlersKeepEnds ==
    ASSUME SessionInv, EndInv, RelayNext, ~Serve
    PROVE  EndInv'
<1>1. /\ CallInv /\ mailbox \in Seq(Messages) /\ running' = running
      /\ pending' = pending /\ downloader' = downloader
    BY HandlerStepIsAStep DEF SessionInv, CallInv, HandlersOK, slots
<1>2. /\ Declared => Declared'
      /\ \A d \in Downloads : downloads[d].completed => downloads'[d].completed
      /\ Delivered => Delivered'
    BY <1>1, DeliveredStays
<1>3. EndsAreTrue'
    <2> DEFINE True(m) ==
                  /\ m.cmd = "FinishDownload" => Declared'
                  /\ m.cmd = "DownloaderDisconnected" =>
                        /\ downloads'[m.from].pc = "Done"
                        /\ downloads'[m.from].completed = m.completed
    <2>1. ASSUME NEW d \in Downloads, downloads[d].pc = "Done"
          PROVE  downloads'[d] = downloads[d]
        <3>1. ASSUME NEW e \in Downloads, DownloadMoves(e) PROVE e # d
            BY <1>1, <2>1, <3>1, DownloadSteps
        <3> QED
            BY <1>1, <2>1, <3>1, DownloadSteps, OthersLeaveDownloads
    <2>2. ASSUME NEW i \in Mails PROVE True(mailbox[i])
        <3>1. mailbox[i] \in Messages
            BY <1>1 DEF Mails
        <3>2. mailbox[i].cmd = "DownloaderDisconnected" => mailbox[i].from \in Downloads
            BY <3>1, MessageFields
        <3> QED
            BY <1>2, <2>1, <3>2 DEF EndInv, EndsAreTrue
    <2> HIDE DEF True
    <2>3. ASSUME NEW m \in Messages, Post(m), running => True(m)
          PROVE  \A i \in Mails' : True(mailbox'[i])
        BY <1>1, <2>2, <2>3, Posted
    <2>4. CASE mailbox' = mailbox
        BY <2>2, <2>4 DEF EndsAreTrue, Mails, True
    <2>5. ASSUME \A i \in Mails' : True(mailbox'[i])
          PROVE  EndsAreTrue'
        BY <2>5 DEF EndsAreTrue, True
    <2>6. ASSUME NEW d \in Downloads, DownloadMoves(d)
          PROVE  EndsAreTrue'
        <3>1. downloads[d] \in [pc : DownloadPCs, next : Nat, completed : BOOLEAN]
            BY <1>1 DEF CallInv, HandlersOK
        <3>2. ASSUME NEW p \in Positions,
                     Post([cmd |-> "StartDownload", from |-> d, position |-> p])
              PROVE  EndsAreTrue'
            <4>1. [cmd |-> "StartDownload", from |-> d, position |-> p] \in Messages
                BY DEF Messages
            <4> QED
                BY <2>3, <2>5, <3>2, <4>1 DEF True
        <3>3. ASSUME downloads'[d] = [downloads[d] EXCEPT !.pc = "Done"],
                     Post([cmd |-> "DownloaderDisconnected", from |-> d,
                           completed |-> downloads[d].completed])
              PROVE  EndsAreTrue'
            <4> DEFINE m == [cmd |-> "DownloaderDisconnected", from |-> d,
                             completed |-> downloads[d].completed]
            <4>1. m \in Messages
                BY <3>1 DEF Messages
            <4>2. True(m)
                BY <3>1, <3>3 DEF True
            <4>3. Post(m)
                BY <3>3
            <4> HIDE DEF m
            <4> QED
                BY <2>3, <2>5, <4>1, <4>2, <4>3
        <3> QED
            BY <1>1, <2>4, <2>6, <3>2, <3>3, DownloadSteps
    <2>7. ASSUME NEW m \in Messages, Post(m), FromOthers(m)
          PROVE  EndsAreTrue'
        <3>1. running => True(m)
            BY <2>7, MessageFields DEF FromOthers, True, Declared
        <3> QED
            BY <2>3, <2>5, <2>7, <3>1
    <2> QED
        BY <1>1, <2>4, <2>6, <2>7, OthersLeaveDownloads
<1>4. SessionEndsTrue'
    BY <1>1, <1>2 DEF EndInv, SessionEndsTrue
<1>5. \A u \in Uploads :
         /\ answers'[u] \in {answers[u], NoAnswer}
         /\ uploads'[u].last => uploads[u].last \/ uploads[u].pc = "Reading"
         /\ uploads'[u].outcome = Ok =>
               \/ uploads[u].outcome = Ok \/ answers[u] = Finished
               \/ uploads[u].last /\ answers[u] = Ok
    <2> TAKE u \in Uploads
    <2>1. ASSUME NEW v \in Uploads,
                 \/ \E p \in Positions : UploadArrives(v, p)
                 \/ UploadRefused(v) \/ UploadStarted(v) \/ UploadAccepted(v)
                 \/ UploadReads(v) \/ UploadAborts(v)
          PROVE  \/ u = v
                 \/ uploads'[u] = uploads[u] /\ answers'[u] = answers[u]
        BY <1>1, <2>1, UploadOutcomes
    <2>2. CASE UploadsMove
        BY <1>1, <2>1, <2>2, UploadOutcomes DEF UploadsMove
    <2>3. CASE ~UploadsMove
        BY <1>1, <2>3, OthersLeaveUploads DEF OthersMove
    <2> QED
        BY <2>2, <2>3
<1>6. FinishedIsTrue'
    BY <1>1, <1>2, <1>5 DEF EndInv, FinishedIsTrue, Finished, NoAnswer
<1>7. LastIsTrue'
    <2> SUFFICES ASSUME NEW u \in Uploads, uploads'[u].last
                 PROVE  /\ answers'[u] = Ok => Delivered'
                        /\ Waiter = u => pending.chunk.final
        BY <1>1 DEF LastIsTrue, Waiter
    <2>1. CASE uploads[u].last
        BY <1>2, <1>5, <2>1 DEF EndInv, LastIsTrue, Ok, NoAnswer
    <2>2. CASE uploads[u].pc = "Reading"
        <3>1. answers[u] = NoAnswer /\ Waiter # u
            BY <1>1, <2>2 DEF CallInv, OneCall, Resting
        <3> QED
            BY <1>5, <3>1 DEF Ok, NoAnswer
    <2> QED
        BY <1>5, <2>1, <2>2
<1>8. OutcomeIsTrue'
    BY <1>2, <1>5 DEF EndInv, OutcomeIsTrue, FinishedIsTrue, LastIsTrue
<1> QED
    BY <1>3, <1>4, <1>6, <1>7, <1>8 DEF EndInv

\* Every end is true: of the news of it, of the answers that tell it, of the
\* session's own state and of what the handlers make of it.
LEMMA EndInvariance == RelaySpec => []EndInv
<1>1. RelayInit => EndInv
    <2> SUFFICES ASSUME RelayInit PROVE EndInv
        OBVIOUS
    <2>1. EndsAreTrue /\ SessionEndsTrue
        BY DEF RelayInit, Init, EndsAreTrue, SessionEndsTrue, Mails, Absent, Complete
    <2>2. \A u \in Uploads : /\ answers[u] = NoAnswer /\ ~uploads[u].last
                             /\ uploads[u].outcome = NoAnswer
        BY DEF RelayInit, Init, Callers
    <2>3. FinishedIsTrue /\ LastIsTrue /\ OutcomeIsTrue
        BY <2>2 DEF RelayInit, Init, FinishedIsTrue, LastIsTrue, OutcomeIsTrue, NoPending, NoAnswer,
                    Finished, Ok
    <2> QED
        BY <2>1, <2>3 DEF EndInv
<1>2. SessionInv /\ EndInv /\ [RelayNext]_relayVars => EndInv'
    <2> SUFFICES ASSUME SessionInv, EndInv, [RelayNext]_relayVars
                 PROVE  EndInv'
        OBVIOUS
    <2>1. CASE UNCHANGED relayVars
        BY <2>1 DEF relayVars, vars, handlers, EndInv, EndsAreTrue, SessionEndsTrue, FinishedIsTrue,
                    LastIsTrue, OutcomeIsTrue, Delivered, Declared, HasTheEnd, Waiter, Mails
    <2> QED
        BY <2>1, ServeKeepsEnds, HandlersKeepEnds
<1> QED
    BY <1>1, <1>2, SessionInvariance, PTL DEF RelaySpec

\* A session ends only when a response has carried the last byte or its
\* downloader has declared that it has everything: no abort, replacement or
\* refused upload takes it from the others.
THEOREM SessionsEndWhenDone == RelaySpec => []EndsOnlyWhenDone
<1>1. EndInv => EndsOnlyWhenDone
    BY DEF EndInv, SessionEndsTrue, EndsOnlyWhenDone, Declared
<1> QED
    BY <1>1, EndInvariance, PTL

\* POST /upload is answered ok only when the last chunk is on the way to a
\* download that gets it, or nobody needs it any more.
THEOREM OkIsHandedOver == RelaySpec => []OkMeansHandedOver
<1>1. EndInv => OkMeansHandedOver
    BY DEF EndInv, OutcomeIsTrue, Delivered, HasTheEnd, Declared, OkMeansHandedOver
<1> QED
    BY <1>1, EndInvariance, PTL

-----------------------------------------------------------------------------
(* The connections that the session knows.                                  *)

ToldReplaced(d) == \E i \in 1..Len(events[d]) : events[d][i] = Replaced
ToldError(w) == \E i \in 1..Len(inbox[w]) : inbox[w][i] = SessionError

\* A response that was started, and is not done, is the session's own or was
\* told that it is not.
DownloadIsKnown(d) ==
    /\ downloads[d].pc = "Starting" /\ answers[d] # NoAnswer => d \in started
    /\ downloads[d].pc = "Streaming" => d \in started
    /\ /\ running /\ d \in started /\ downloads[d].pc \in {"Starting", "Streaming"}
       /\ ~ToldReplaced(d)
       => IsConnected(d)

PeerIsKnown(w) ==
    /\ peers[w].pc = "Starting" /\ answers[w] # NoAnswer => w \in started
    /\ peers[w].pc = "Open" => w \in started
    /\ /\ running /\ w \in started /\ peers[w].pc \in {"Starting", "Open"}
       /\ ~ToldError(w)
       => socket[DirectionOf(w)] = w

\* The news that a websocket is closed comes from its task's end.
PeersLeaveOnce ==
    \A i \in Mails : mailbox[i].cmd = "WebsocketDisconnected" => peers[mailbox[i].from].pc = "Done"

KnownInv ==
    /\ \A d \in Downloads : DownloadIsKnown(d)
    /\ \A w \in Peers : PeerIsKnown(w)
    /\ PeersLeaveOnce

\* A handler that is no upload is answered only when its start is served.
LEMMA StartIsAnswered ==
    ASSUME CallInv, Serve, NEW h \in Downloads \cup Peers, answers'[h] # NoAnswer
    PROVE  answers[h] # NoAnswer \/ h \in started'
<1>1. /\ 1 \in Mails /\ mailbox[1] \in Messages /\ h \in Callers /\ h \notin Uploads
      /\ h \notin Checks \cup Finishes /\ Waiter \in Uploads \cup {NoOne}
      /\ h # NoOne
    BY OldestMessage, WaiterType, HandlersAreDistinct, NoOneIsNoHandler DEF CallInv, Callers
<1>2. answers[h] # NoAnswer \/ (IsCall(mailbox[1]) /\ mailbox[1].from = h)
    BY <1>1, ServeTakesMessage DEF CallTaken, NoticeTaken
<1>3. IsCall(mailbox[1]) /\ mailbox[1].from = h => IsStart(mailbox[1])
    BY <1>1, MessageFields DEF IsCall, IsStart
<1> QED
    BY <1>2, <1>3, ServeTakesMessage

\* The download that is connected stays connected until it is told that it was
\* replaced, or says itself that it is gone; a start that is served connects.
LEMMA ServeKnowsDownloads ==
    ASSUME CallInv, Serve, NEW d \in Downloads,
           IsConnected(d) \/ d \notin started, d \in started', running'
    PROVE  \/ IsConnected(d)'
           \/ ToldReplaced(d)'
           \/ mailbox[1].cmd = "DownloaderDisconnected" /\ mailbox[1].from = d
<1> DEFINE m == mailbox[1]
<1>1. 1 \in Mails /\ m \in Messages /\ Dispatch(m) /\ TypeOK
    BY OldestMessage DEF CallInv
<1>2. \/ IsConnected(d)
      \/ IsStart(m) /\ m.from = d
    BY ServeTakesMessage
<1>3. ASSUME IsConnected(d), events'[d] = Append(events[d], Replaced)
      PROVE  ToldReplaced(d)'
    <2>1. events[d] \in Seq(Events) /\ Replaced \in Events
        BY <1>1 DEF TypeOK, Events
    <2>2. Len(events'[d]) = Len(events[d]) + 1 /\ events'[d][Len(events[d]) + 1] = Replaced
          /\ Len(events[d]) \in Nat
        BY <1>3, <2>1, AppendProperties
    <2> QED
        BY <2>2 DEF ToldReplaced
<1> HIDE DEF m
<1> USE MessageFields, <1>1
<1>4. CASE m.cmd = "StartDownload" /\ StartDownload(m.from, m.position)
    <2>1. CASE m.from = d
        BY <1>4, <2>1 DEF StartDownload, IsConnected, Connected
    <2>2. CASE m.from # d
        <3>1. IsConnected(d)
            BY <1>2, <2>2
        <3>2. events'[d] = Append(events[d], Replaced)
            BY <1>4, <2>2, <3>1 DEF StartDownload, EventsAfterReplacing
        <3> QED
            BY <1>3, <3>1, <3>2
    <2> QED
        BY <2>1, <2>2
<1>5. IsConnected(d) \/ m.cmd = "StartDownload"
    BY <1>2, HandlersAreDistinct DEF IsStart
<1>6. CASE m.cmd = "FinishDownload" /\ FinishDownload(m.from)
    <2>1. IsConnected(d)
        BY <1>5, <1>6
    <2>2. events'[d] = Append(events[d], Replaced)
        BY <1>6, <2>1 DEF FinishDownload, EventsAfterReplacing
    <2> QED
        BY <1>3, <2>1, <2>2
<1>7. CASE m.cmd = "UploadData" /\ UploadData(m.from, m.chunk)
    <2>1. IsConnected(d)
        BY <1>5, <1>7
    <2>2. CASE downloader' = downloader
        BY <2>1, <2>2 DEF IsConnected
    <2>3. ASSUME NEW at, downloader' = [downloader EXCEPT !.position = at]
          PROVE  IsConnected(d)'
        <3>1. downloader = Connected(downloader.token, downloader.position)
            BY <2>1, DownloaderType DEF IsConnected
        <3>2. downloader' = Connected(downloader.token, at)
            BY <2>3, <3>1 DEF Connected
        <3> QED
            BY <2>1, <3>2 DEF IsConnected, Connected
    <2> QED
        BY <1>7, <2>2, <2>3 DEF UploadData, slots
<1>8. CASE m.cmd = "DownloaderDisconnected" /\ DownloaderDisconnected(m.from, m.completed)
    <2>1. CASE m.from = d
        BY <1>8, <2>1 DEF m
    <2>2. CASE m.from # d
        BY <1>5, <1>8, <2>2 DEF DownloaderDisconnected, IsConnected
    <2> QED
        BY <2>1, <2>2
<1>9. CASE /\ m.cmd # "StartDownload"
           /\ \/ CheckStartUpload(m.from, m.position) \/ StartUpload(m.from, m.position)
              \/ FlushUpload(m.from) \/ StartWebsocket(m.from)
              \/ RelayFrame(DirectionOf(m.from), m.frame)
              \/ UploaderDisconnected(m.from) \/ WebsocketDisconnected(m.from)
    <2>1. downloader' = downloader
        BY <1>9 DEF CheckStartUpload, StartUpload, FlushUpload, StartWebsocket, RelayFrame,
                    UploaderDisconnected, WebsocketDisconnected, slots
    <2> QED
        BY SMTT(30), <1>5, <1>9, <2>1 DEF IsConnected
<1> QED
    BY <1>4, <1>6, <1>7, <1>8, <1>9 DEF Dispatch, m

\* The frames that are held for a direction, as its websocket is sent them.
Queued(dir) == [i \in 1..Len(held[dir]) |-> Send(held[dir][i])]

\* What websocket w is sent in a turn of the session task.
LEMMA InboxGets ==
    ASSUME SessionInv, Serve, NEW w \in Peers
    PROVE  \E more \in Seq(Commands) :
              /\ inbox'[w] = inbox[w] \o more
              /\ \/ more = <<>>
                 \/ \E p \in Nat : more = <<Ack(p)>>
                 \/ /\ mailbox[1].cmd = "WebsocketData" /\ more = <<Send(mailbox[1].frame)>>
                    /\ socket[Opposite(DirectionOf(mailbox[1].from))] = w
                 \/ /\ mailbox[1].cmd = "StartWebsocket" /\ mailbox[1].from # w
                    /\ socket[DirectionOf(mailbox[1].from)] = w /\ more = <<SessionError>>
                 \/ /\ mailbox[1].cmd = "StartWebsocket" /\ mailbox[1].from = w
                    /\ more = Queued(DirectionOf(w))
<1> DEFINE m == mailbox[1]
           Got(more) ==
              /\ inbox'[w] = inbox[w] \o more
              /\ \/ more = <<>>
                 \/ \E p \in Nat : more = <<Ack(p)>>
                 \/ /\ mailbox[1].cmd = "WebsocketData" /\ more = <<Send(mailbox[1].frame)>>
                    /\ socket[Opposite(DirectionOf(mailbox[1].from))] = w
                 \/ /\ mailbox[1].cmd = "StartWebsocket" /\ mailbox[1].from # w
                    /\ socket[DirectionOf(mailbox[1].from)] = w /\ more = <<SessionError>>
                 \/ /\ mailbox[1].cmd = "StartWebsocket" /\ mailbox[1].from = w
                    /\ more = Queued(DirectionOf(w))
<1>1. /\ 1 \in Mails /\ m \in Messages /\ Dispatch(m) /\ TypeOK
      /\ IsStart(m) => m.from \notin started
    BY OldestMessage DEF SessionInv, CallInv, StartsOnce
<1>2. inbox \in [Peers -> Seq(Commands)] /\ inbox[w] \in Seq(Commands)
    BY <1>1 DEF TypeOK
<1>3. ASSUME inbox'[w] = inbox[w] PROVE \E more \in Seq(Commands) : Got(more)
    <2>1. Got(<<>>) /\ <<>> \in Seq(Commands)
        BY <1>2, <1>3
    <2> QED
        BY <2>1
<1>4. ASSUME NEW c \in Commands, inbox'[w] = Append(inbox[w], c)
      PROVE  inbox'[w] = inbox[w] \o <<c>> /\ <<c>> \in Seq(Commands)
    BY <1>2, <1>4, AppendIsConcat
<1>5. ASSUME NEW p \in Nat, inbox' = InboxAfterProgress(p)
      PROVE  \E more \in Seq(Commands) : Got(more)
    <2>1. Ack(p) \in Commands
        BY DEF Ack, Commands
    <2>2. inbox'[w] = inbox[w] \/ inbox'[w] = Append(inbox[w], Ack(p))
        BY <1>5 DEF InboxAfterProgress
    <2> QED
        BY <1>3, <1>4, <2>1, <2>2
<1>6. \A h \in Peers : DirectionOf(h) \in Directions /\ Opposite(DirectionOf(h)) \in Directions
    BY DEF DirectionOf, Directions, Opposite
<1> SUFFICES \E more \in Seq(Commands) : Got(more)
    OBVIOUS
<1>7. CASE m.cmd = "StartDownload" /\ StartDownload(m.from, m.position)
    <2>1. m.position \in Nat
        BY <1>1, <1>7, MessageFields, SizesAreNatural DEF Positions
    <2>2. PositionAfterQueued(m.position) \in Nat
        BY <1>1, <2>1, PositionAfterQueuedType
    <2>3. inbox' = inbox \/ inbox' = InboxAfterProgress(PositionAfterQueued(m.position))
        BY <1>7 DEF StartDownload
    <2> QED
        BY <1>3, <1>5, <2>2, <2>3
<1>8. CASE m.cmd = "StartUpload" /\ StartUpload(m.from, m.position)
    <2>1. m.position \in Nat
        BY <1>1, <1>8, MessageFields, SizesAreNatural DEF Positions
    <2>2. inbox' = inbox \/ inbox' = InboxAfterProgress(m.position)
        BY <1>8 DEF StartUpload
    <2> QED
        BY <1>3, <1>5, <2>1, <2>2
<1>9. CASE m.cmd = "UploadData" /\ UploadData(m.from, m.chunk)
    <2>1. CASE inbox' = inbox
        BY <1>3, <2>1
    <2>2. CASE /\ IsUploader(m.from)
               /\ inbox' = InboxAfterProgress(uploader.position + m.chunk.size)
        <3>1. uploader.position \in Nat /\ m.chunk.size \in Nat
            BY <1>1, <1>9, <2>2, UploaderType, MessageFields, ChunksAreTyped DEF IsUploader
        <3>2. uploader.position + m.chunk.size \in Nat
            BY <3>1
        <3> QED
            BY <1>5, <2>2, <3>2
    <2> QED
        BY <1>9, <2>1, <2>2 DEF UploadData
<1>10. CASE m.cmd = "StartWebsocket" /\ StartWebsocket(m.from)
    <2> DEFINE dir == DirectionOf(m.from)
    <2>1. m.from \in Peers /\ dir \in Directions
        BY <1>1, <1>6, <1>10, MessageFields
    <2>2. socket[dir] # m.from
        BY <1>1, <1>10, <2>1, NoOneIsNoHandler DEF IsStart, SessionInv, SocketsOK, Callers
    <2>3. inbox'[w] = LET fed == [inbox EXCEPT ![m.from] = @ \o Queued(dir)]
                      IN  IF w = socket[dir] THEN Append(fed[w], SessionError) ELSE fed[w]
        BY <1>10 DEF StartWebsocket, Queued
    <2>4. CASE m.from = w
        <3>1. inbox'[w] = inbox[w] \o Queued(dir)
            BY <1>2, <2>1, <2>2, <2>3, <2>4
        <3>2. Queued(dir) \in Seq(Commands)
            <4>1. held[dir] \in Seq(Frames)
                BY <1>1, <2>1 DEF TypeOK
            <4>2. \A i \in 1..Len(held[dir]) : Send(held[dir][i]) \in Commands
                BY <4>1 DEF Send, Commands
            <4> QED
                BY <4>1, <4>2 DEF Queued
        <3> QED
            BY <1>10, <2>4, <3>1, <3>2
    <2>5. CASE m.from # w /\ socket[dir] # w
        <3>1. inbox'[w] = inbox[w]
            BY <1>2, <2>3, <2>5
        <3> QED
            BY <1>3, <3>1
    <2>6. CASE m.from # w /\ socket[dir] = w
        <3>1. inbox'[w] = Append(inbox[w], SessionError) /\ SessionError \in Commands
            BY <1>2, <2>3, <2>6 DEF Commands
        <3> QED
            BY <1>4, <1>10, <2>6, <3>1
    <2> QED
        BY <2>4, <2>5, <2>6
<1>11. CASE m.cmd = "WebsocketData" /\ RelayFrame(DirectionOf(m.from), m.frame)
    <2> DEFINE to == Opposite(DirectionOf(m.from))
    <2>1. m.from \in Peers /\ to \in Directions /\ m.frame \in Frames
        BY <1>1, <1>6, <1>11, MessageFields
    <2>2. CASE socket[to] = w
        <3>1. inbox'[w] = Append(inbox[w], Send(m.frame))
            BY <1>2, <1>11, <2>2, NoOneIsNoHandler DEF RelayFrame, Callers
        <3>2. Send(m.frame) \in Commands
            BY <2>1 DEF Send, Commands
        <3> QED
            BY <1>4, <1>11, <2>2, <3>1, <3>2
    <2>3. CASE socket[to] # w
        <3>1. inbox'[w] = inbox[w]
            BY <1>2, <1>11, <2>3 DEF RelayFrame
        <3> QED
            BY <1>3, <3>1
    <2> QED
        BY <2>2, <2>3
<1>12. CASE \/ FinishDownload(m.from) \/ CheckStartUpload(m.from, m.position)
            \/ FlushUpload(m.from) \/ DownloaderDisconnected(m.from, m.completed)
            \/ UploaderDisconnected(m.from) \/ WebsocketDisconnected(m.from)
    <2>1. inbox' = inbox
        BY <1>12 DEF FinishDownload, CheckStartUpload, FlushUpload, DownloaderDisconnected,
                     UploaderDisconnected, WebsocketDisconnected
    <2> QED
        BY <1>3, <2>1
<1> QED
    BY <1>1, <1>7, <1>8, <1>9, <1>10, <1>11, <1>12 DEF Dispatch

-----------------------------------------------------------------------------
(* What the handlers do to the connections.                                 *)

\* A handler reads the answers to its call, and nothing of the websockets.
LEMMA HandlersOnlyRead ==
    ASSUME CallInv, RelayNext, ~Serve
    PROVE  /\ signaling' = signaling
           /\ \A h \in Callers : answers'[h] # NoAnswer => answers'[h] = answers[h]
<1>1. answers \in [Callers -> Answers]
    BY DEF CallInv, TypeOK
<1>2. ASSUME NEW h \in Callers, ReadAnswer(h), UNCHANGED sessionVars
      PROVE  /\ signaling' = signaling
             /\ \A x \in Callers : answers'[x] # NoAnswer => answers'[x] = answers[x]
    BY <1>1, <1>2 DEF ReadAnswer, sessionVars
<1>3. ASSUME UNCHANGED <<signaling, answers>>
      PROVE  /\ signaling' = signaling
             /\ \A x \in Callers : answers'[x] # NoAnswer => answers'[x] = answers[x]
    BY <1>3
<1>4. ASSUME NEW u \in Uploads,
             \/ UploadRefused(u) \/ UploadStarted(u) \/ UploadAccepted(u)
      PROVE  ReadAnswer(u) /\ UNCHANGED sessionVars /\ u \in Callers
    BY <1>4 DEF UploadRefused, UploadStarted, UploadAccepted, Callers
<1>5. ASSUME NEW u \in Uploads,
             (\E p \in Positions : UploadArrives(u, p)) \/ UploadReads(u) \/ UploadAborts(u)
      PROVE  UNCHANGED <<signaling, answers>>
    BY <1>5 DEF UploadArrives, UploadReads, UploadAborts, vars, signaling
<1>6. ASSUME NEW d \in Downloads, DownloadStarted(d)
      PROVE  ReadAnswer(d) /\ UNCHANGED sessionVars /\ d \in Callers
    BY <1>6 DEF DownloadStarted, Callers
<1>7. ASSUME NEW d \in Downloads,
             \/ \E p \in Positions : DownloadArrives(d, p)
             \/ DownloadYields(d) \/ DownloadEnds(d) \/ DownloadDropped(d)
      PROVE  UNCHANGED <<signaling, answers>>
    BY <1>7 DEF DownloadArrives, DownloadYields, DownloadEnds, DownloadDropped, DownloadCloses,
                vars, signaling
<1>8. ASSUME NEW c \in Checks \cup Finishes, CallReturns(c)
      PROVE  ReadAnswer(c) /\ UNCHANGED sessionVars /\ c \in Callers
    BY <1>8 DEF CallReturns, Callers
<1>9. ASSUME NEW c \in Checks \cup Finishes, CallArrives(c)
      PROVE  UNCHANGED <<signaling, answers>>
    BY <1>9 DEF CallArrives, vars, signaling
<1>10. ASSUME NEW w \in Peers, PeerStarted(w)
       PROVE  ReadAnswer(w) /\ UNCHANGED sessionVars /\ w \in Callers
    BY <1>10 DEF PeerStarted, Callers
<1>11. ASSUME NEW w \in Peers,
              \/ PeerConnects(w) \/ PeerDelivers(w) \/ PeerSends(w)
              \/ PeerReplaced(w) \/ PeerCloses(w)
       PROVE  UNCHANGED <<signaling, answers>>
    BY <1>11 DEF PeerConnects, PeerDelivers, PeerSends, PeerReplaced, PeerCloses, PeerEnds,
                 vars, signaling
<1> QED
    BY <1>2, <1>3, <1>4, <1>5, <1>6, <1>7, <1>8, <1>9, <1>10, <1>11 DEF RelayNext

PeerMoves(w) ==
    \/ PeerConnects(w) \/ PeerStarted(w) \/ PeerDelivers(w)
    \/ PeerSends(w) \/ PeerReplaced(w) \/ PeerCloses(w)

FromPeer(m) == m.cmd \in {"StartWebsocket", "WebsocketData", "WebsocketDisconnected"}

\* The handlers of the other kinds leave the websockets alone.
LEMMA OthersLeavePeers ==
    ASSUME CallInv, RelayNext, ~Serve, ~\E w \in Peers : PeerMoves(w)
    PROVE  /\ peers' = peers /\ inbox' = inbox
           /\ \/ mailbox' = mailbox
              \/ \E m \in Messages : Post(m) /\ ~FromPeer(m)
<1>1. ASSUME NEW u \in Uploads, NEW p \in Positions, UploadArrives(u, p)
      PROVE  /\ peers' = peers /\ inbox' = inbox
             /\ \E m \in Messages : Post(m) /\ ~FromPeer(m)
    BY <1>1 DEF UploadArrives, vars, Messages, FromPeer
<1>2. ASSUME NEW u \in Uploads, UploadRefused(u) \/ UploadStarted(u) \/ UploadAccepted(u)
      PROVE  /\ peers' = peers /\ inbox' = inbox
             /\ \/ mailbox' = mailbox
                \/ \E m \in Messages : Post(m) /\ ~FromPeer(m)
    BY <1>2 DEF UploadRefused, UploadStarted, UploadAccepted, UploadEnds, sessionVars, Messages,
                FromPeer
<1>3. ASSUME NEW u \in Uploads, UploadReads(u) \/ UploadAborts(u)
      PROVE  /\ peers' = peers /\ inbox' = inbox
             /\ \E m \in Messages : Post(m) /\ ~FromPeer(m)
    <2>1. CASE UploadAborts(u)
        BY <2>1 DEF UploadAborts, UploadEnds, vars, Messages, FromPeer
    <2>2. CASE UploadReads(u)
        <3>1. PICK chunk \in Chunks :
                  /\ Post([cmd |-> "UploadData", from |-> u, chunk |-> chunk])
                  /\ UNCHANGED <<vars, downloads, calls, peers>>
            BY <2>2, ChunkRead DEF CallInv
        <3>2. [cmd |-> "UploadData", from |-> u, chunk |-> chunk] \in Messages
            BY DEF Messages
        <3> QED
            BY <3>1, <3>2 DEF vars, FromPeer
    <2> QED
        BY <1>3, <2>1, <2>2
<1>4. ASSUME NEW c \in Checks \cup Finishes, CallArrives(c) \/ CallReturns(c)
      PROVE  /\ peers' = peers /\ inbox' = inbox
             /\ \/ mailbox' = mailbox
                \/ \E m \in Messages : Post(m) /\ ~FromPeer(m)
    <2>1. CASE CallReturns(c)
        BY <2>1 DEF CallReturns, sessionVars
    <2>2. CASE CallArrives(c)
        <3>1. ASSUME c \in Finishes, Post([cmd |-> "FinishDownload", from |-> c])
              PROVE  \E m \in Messages : Post(m) /\ ~FromPeer(m)
            BY <3>1 DEF Messages, FromPeer
        <3>2. ASSUME c \in Checks, NEW p \in Positions,
                     Post([cmd |-> "CheckStartUpload", from |-> c, position |-> p])
              PROVE  \E m \in Messages : Post(m) /\ ~FromPeer(m)
            BY <3>2 DEF Messages, FromPeer
        <3> QED
            BY <2>2, <3>1, <3>2 DEF CallArrives, vars
    <2> QED
        BY <1>4, <2>1, <2>2
<1>5. ASSUME NEW d \in Downloads, DownloadMoves(d)
      PROVE  /\ peers' = peers /\ inbox' = inbox
             /\ \/ mailbox' = mailbox
                \/ \E m \in Messages : Post(m) /\ ~FromPeer(m)
    <2>1. CASE DownloadStarted(d) \/ DownloadYields(d)
        BY <2>1 DEF DownloadStarted, DownloadYields, sessionVars
    <2>2. CASE \E p \in Positions : DownloadArrives(d, p)
        BY <2>2 DEF DownloadArrives, vars, Messages, FromPeer
    <2>3. CASE DownloadCloses(d)
        <3>1. [cmd |-> "DownloaderDisconnected", from |-> d,
               completed |-> downloads[d].completed] \in Messages
            BY DEF CallInv, HandlersOK, Messages
        <3> QED
            BY <2>3, <3>1 DEF DownloadCloses, vars, FromPeer
    <2>4. CASE DownloadDropped(d) /\ ~DownloadCloses(d)
        BY <2>4 DEF DownloadDropped, vars
    <2> QED
        BY <1>5, <2>1, <2>2, <2>3, <2>4 DEF DownloadMoves, DownloadEnds
<1> QED
    BY <1>1, <1>2, <1>3, <1>4, <1>5 DEF RelayNext, DownloadMoves, PeerMoves

\* What a websocket's task does to its own state, its channel and the mailbox.
LEMMA PeerSteps ==
    ASSUME CallInv, NEW w \in Peers, PeerMoves(w)
    PROVE  /\ \A x \in Peers \ {w} : peers'[x] = peers[x] /\ inbox'[x] = inbox[x]
           /\ \/ /\ peers[w].pc = "Idle" /\ peers'[w].pc \in {"Starting", "Done"}
                 /\ peers'[w].sent = peers[w].sent /\ peers'[w].received = peers[w].received
                 /\ Post([cmd |-> "StartWebsocket", from |-> w])
                 /\ inbox' = inbox
              \/ /\ peers[w].pc = "Starting"
                 /\ \/ peers'[w].pc = "Done"
                    \/ Result(w) = Ok /\ peers'[w].pc = "Open"
                 /\ peers'[w].sent = peers[w].sent /\ peers'[w].received = peers[w].received
                 /\ inbox' = inbox /\ mailbox' = mailbox
              \/ /\ peers[w].pc = "Open" /\ peers'[w].pc = "Open"
                 /\ inbox[w] # <<>> /\ Head(inbox[w]) # SessionError
                 /\ peers'[w].sent = peers[w].sent
                 /\ peers'[w].received = Append(peers[w].received, Head(inbox[w]))
                 /\ inbox'[w] = Tail(inbox[w]) /\ mailbox' = mailbox
              \/ /\ peers[w].pc = "Open" /\ peers'[w].pc = "Open"
                 /\ <<w, peers[w].sent + 1>> \in Frames
                 /\ peers'[w].sent = peers[w].sent + 1
                 /\ peers'[w].received = peers[w].received
                 /\ Post([cmd |-> "WebsocketData", from |-> w,
                          frame |-> <<w, peers[w].sent + 1>>])
                 /\ inbox' = inbox
              \/ /\ peers[w].pc = "Open" /\ peers'[w].pc = "Done"
                 /\ peers'[w].sent = peers[w].sent /\ peers'[w].received = peers[w].received
                 /\ Post([cmd |-> "WebsocketDisconnected", from |-> w])
                 /\ inbox' = inbox
<1>1. /\ peers \in [Peers -> [pc : PeerPCs, sent : Nat, received : Seq(Commands)]]
      /\ inbox \in [Peers -> Seq(Commands)]
    BY DEF CallInv, HandlersOK, TypeOK
<1>2. CASE PeerConnects(w)
    BY <1>1, <1>2 DEF PeerConnects, vars
<1>3. CASE PeerStarted(w)
    BY <1>1, <1>3 DEF PeerStarted, sessionVars
<1>4. CASE PeerDelivers(w)
    BY <1>1, <1>4 DEF PeerDelivers
<1>5. CASE PeerSends(w)
    BY <1>1, <1>5 DEF PeerSends, vars
<1>6. CASE PeerReplaced(w) \/ PeerCloses(w)
    BY <1>1, <1>6 DEF PeerReplaced, PeerCloses, PeerEnds, vars
<1> QED
    BY <1>2, <1>3, <1>4, <1>5, <1>6 DEF PeerMoves

-----------------------------------------------------------------------------
(* The connections stay known.                                              *)

\* The websocket that is registered stays so until it is told that it was
\* replaced, or says itself that it is closed; a start that is served registers.
LEMMA ServeKnowsPeers ==
    ASSUME SessionInv, Serve, NEW w \in Peers,
           socket[DirectionOf(w)] = w \/ w \notin started, w \in started'
    PROVE  \/ socket'[DirectionOf(w)] = w
           \/ ToldError(w)'
           \/ mailbox[1].cmd = "WebsocketDisconnected" /\ mailbox[1].from = w
<1> DEFINE m == mailbox[1]
           dir == DirectionOf(w)
<1>1. /\ 1 \in Mails /\ m \in Messages /\ Dispatch(m)
      /\ CallInv /\ TypeOK /\ dir \in Directions
    BY OldestMessage DEF SessionInv, CallInv, DirectionOf, Directions
<1>2. \/ socket[dir] = w
      \/ m.cmd = "StartWebsocket" /\ m.from = w
    BY <1>1, ServeTakesMessage, MessageFields, HandlersAreDistinct DEF IsStart
<1> HIDE DEF m
<1> USE MessageFields, <1>1
<1>3. CASE m.cmd = "StartWebsocket" /\ StartWebsocket(m.from)
    <2>1. /\ m.from \in Peers
          /\ socket' = [socket EXCEPT ![DirectionOf(m.from)] = m.from]
        BY <1>3 DEF StartWebsocket
    <2>2. CASE m.from = w \/ DirectionOf(m.from) # dir
        BY <1>2, <2>1, <2>2 DEF TypeOK
    <2>3. CASE m.from # w /\ DirectionOf(m.from) = dir
        <3>1. inbox'[w] = Append(inbox[w], SessionError)
            BY <1>2, <1>3, <2>1, <2>3 DEF StartWebsocket, TypeOK
        <3>2. inbox[w] \in Seq(Commands) /\ SessionError \in Commands
            BY DEF TypeOK, Commands
        <3>3. /\ Len(inbox'[w]) = Len(inbox[w]) + 1 /\ Len(inbox[w]) \in Nat
              /\ inbox'[w][Len(inbox[w]) + 1] = SessionError
            BY <3>1, <3>2, AppendProperties
        <3> QED
            BY <3>3 DEF ToldError
    <2> QED
        BY <2>2, <2>3
<1>4. m.cmd # "StartWebsocket" => socket[dir] = w
    BY <1>2 DEF m
<1>5. CASE m.cmd = "WebsocketDisconnected" /\ WebsocketDisconnected(m.from)
    <2>1. CASE m.from = w
        BY <1>5, <2>1 DEF m
    <2>2. CASE m.from # w
        BY <1>4, <1>5, <2>2 DEF WebsocketDisconnected
    <2> QED
        BY <2>1, <2>2
<1>6. CASE /\ m.cmd # "StartWebsocket"
           /\ \/ StartDownload(m.from, m.position) \/ FinishDownload(m.from)
              \/ CheckStartUpload(m.from, m.position) \/ StartUpload(m.from, m.position)
              \/ UploadData(m.from, m.chunk) \/ FlushUpload(m.from)
              \/ RelayFrame(DirectionOf(m.from), m.frame)
              \/ DownloaderDisconnected(m.from, m.completed) \/ UploaderDisconnected(m.from)
    <2>1. socket' = socket
        BY <1>6 DEF StartDownload, FinishDownload, CheckStartUpload, StartUpload, UploadData,
                    FlushUpload, RelayFrame, DownloaderDisconnected, UploaderDisconnected,
                    signaling
    <2> QED
        BY <1>4, <1>6, <2>1
<1> QED
    BY <1>3, <1>5, <1>6 DEF Dispatch

\* The session takes nothing back from a channel.
LEMMA ToldStays ==
    ASSUME SessionInv, Serve
    PROVE  /\ \A d \in Downloads : ToldReplaced(d) => ToldReplaced(d)'
           /\ \A w \in Peers : ToldError(w) => ToldError(w)'
<1>1. CallInv /\ inbox \in [Peers -> Seq(Commands)]
    BY DEF SessionInv, CallInv, TypeOK
<1>2. ASSUME NEW d \in Downloads, ToldReplaced(d)
      PROVE  ToldReplaced(d)'
    BY <1>1, <1>2, EventsGrow DEF ToldReplaced
<1>3. ASSUME NEW w \in Peers, ToldError(w)
      PROVE  ToldError(w)'
    <2>1. PICK more \in Seq(Commands) : inbox'[w] = inbox[w] \o more
        BY InboxGets
    <2>2. /\ inbox[w] \in Seq(Commands) /\ Len(inbox'[w]) = Len(inbox[w]) + Len(more)
          /\ \A i \in 1..Len(inbox[w]) : inbox'[w][i] = inbox[w][i]
          /\ Len(inbox[w]) \in Nat /\ Len(more) \in Nat
        BY <1>1, <2>1, ConcatProperties, LenProperties
    <2> QED
        BY <1>3, <2>2 DEF ToldError
<1> QED
    BY <1>2, <1>3

\* A turn of the session task keeps the connections known.
LEMMA ServeKeepsKnown ==
    ASSUME SessionInv, EndsAreTrue, KnownInv, Serve
    PROVE  KnownInv'
<1>1. /\ CallInv /\ 1 \in Mails /\ mailbox[1] \in Messages /\ running
      /\ downloads' = downloads /\ peers' = peers
      /\ started \subseteq started'
      /\ mailbox \in Seq(Messages)
    BY OldestMessage, ServeTakesMessage DEF SessionInv, CallInv, HandlersOK, handlers
<1>2. ASSUME NEW d \in Downloads
      PROVE  DownloadIsKnown(d)'
    <2>1. DownloadIsKnown(d)
        BY DEF KnownInv
    <2>2. downloads[d].pc = "Starting" /\ answers'[d] # NoAnswer => d \in started'
        BY <1>1, <2>1, StartIsAnswered DEF DownloadIsKnown
    <2>3. ASSUME running', d \in started', downloads[d].pc \in {"Starting", "Streaming"},
                 ~ToldReplaced(d)'
          PROVE  IsConnected(d)'
        <3>1. IsConnected(d) \/ d \notin started
            BY <1>1, <2>1, <2>3, ToldStays DEF DownloadIsKnown
        <3>2. ~(mailbox[1].cmd = "DownloaderDisconnected" /\ mailbox[1].from = d)
            BY <1>1, <2>3 DEF EndsAreTrue
        <3> QED
            BY <1>1, <2>3, <3>1, <3>2, ServeKnowsDownloads
    <2> QED
        BY <1>1, <2>1, <2>2, <2>3 DEF DownloadIsKnown
<1>3. ASSUME NEW w \in Peers
      PROVE  PeerIsKnown(w)'
    <2>1. PeerIsKnown(w)
        BY DEF KnownInv
    <2>2. peers[w].pc = "Starting" /\ answers'[w] # NoAnswer => w \in started'
        BY <1>1, <2>1, StartIsAnswered DEF PeerIsKnown
    <2>3. ASSUME w \in started', peers[w].pc \in {"Starting", "Open"}, ~ToldError(w)'
          PROVE  socket'[DirectionOf(w)] = w
        <3>1. socket[DirectionOf(w)] = w \/ w \notin started
            BY <1>1, <2>1, <2>3, ToldStays DEF PeerIsKnown
        <3>2. ~(mailbox[1].cmd = "WebsocketDisconnected" /\ mailbox[1].from = w)
            BY <1>1, <2>3 DEF KnownInv, PeersLeaveOnce
        <3> QED
            BY <2>3, <3>1, <3>2, ServeKnowsPeers
    <2> QED
        BY <1>1, <2>1, <2>2, <2>3 DEF PeerIsKnown, DirectionOf
<1>4. PeersLeaveOnce'
    BY <1>1, Served DEF KnownInv, PeersLeaveOnce
<1> QED
    BY <1>2, <1>3, <1>4 DEF KnownInv

\* A handler keeps its connection known.
LEMMA HandlersKeepKnown ==
    ASSUME SessionInv, KnownInv, RelayNext, ~Serve
    PROVE  KnownInv'
<1>1. /\ CallInv /\ mailbox \in Seq(Messages)
      /\ running' = running /\ started' = started
      /\ downloader' = downloader /\ socket' = socket
      /\ \A h \in Callers : answers'[h] # NoAnswer => answers'[h] = answers[h]
    BY HandlerStepIsAStep, HandlersOnlyRead
       DEF SessionInv, CallInv, HandlersOK, slots, signaling
<1>2. ASSUME NEW d \in Downloads
      PROVE  DownloadIsKnown(d)'
    <2>1. DownloadIsKnown(d) /\ d \in Callers
        BY DEF KnownInv, Callers
    <2>2. ASSUME downloads'[d] = downloads[d], events'[d] = events[d]
          PROVE  DownloadIsKnown(d)'
        BY <1>1, <2>1, <2>2 DEF DownloadIsKnown, ToldReplaced, IsConnected
    <2>3. CASE DownloadMoves(d)
        <3>1. downloads[d] \in [pc : DownloadPCs, next : Nat, completed : BOOLEAN]
            BY <1>1 DEF CallInv, HandlersOK
        <3>2. ASSUME NEW p \in Positions, downloads[d].pc = "Idle",
                     downloads'[d] = [downloads[d] EXCEPT !.pc = "Starting", !.next = p]
              PROVE  DownloadIsKnown(d)'
            <4>1. downloads'[d].pc = "Starting"
                BY <3>1, <3>2
            <4>2. d \notin started /\ answers[d] = NoAnswer
                BY <1>1, <3>2 DEF CallInv, StartsOnce, OneCall, Resting
            <4> QED
                BY <1>1, <2>1, <4>1, <4>2 DEF DownloadIsKnown
        <3>3. ASSUME downloads'[d] = [downloads[d] EXCEPT !.pc = "Done"]
              PROVE  DownloadIsKnown(d)'
            <4>1. downloads'[d].pc = "Done"
                BY <3>1, <3>3
            <4> QED
                BY <4>1 DEF DownloadIsKnown
        <3>4. ASSUME downloads[d].pc = "Starting", Result(d) = Ok, events' = events,
                     downloads'[d] = [downloads[d] EXCEPT !.pc = "Streaming"]
              PROVE  DownloadIsKnown(d)'
            <4>1. downloads'[d].pc = "Streaming"
                BY <3>1, <3>4
            <4>2. answers[d] # NoAnswer
                BY <3>4 DEF Result, Ok, NotFound, NoAnswer
            <4> QED
                BY <1>1, <2>1, <3>4, <4>1, <4>2 DEF DownloadIsKnown, ToldReplaced, IsConnected
        <3>5. ASSUME DownloadYields(d), downloads'[d].pc = "Streaming",
                     downloads[d].pc = "Streaming",
                     events[d] # <<>>, events'[d] = Tail(events[d])
              PROVE  DownloadIsKnown(d)'
            <4>1. events[d] \in Seq(Events) /\ Head(events[d]) # Replaced
                BY <1>1, <3>5 DEF CallInv, TypeOK, DownloadYields, Replaced
            <4>2. /\ Head(events[d]) = events[d][1] /\ Len(events[d]) \in Nat
                  /\ Len(events'[d]) = Len(events[d]) - 1
                  /\ \A i \in 1..Len(events'[d]) : events'[d][i] = events[d][i + 1]
                BY <3>5, <4>1, HeadTailProperties
            <4>3. ASSUME ToldReplaced(d)
                  PROVE  ToldReplaced(d)'
                <5>1. PICK i \in 1..Len(events[d]) : events[d][i] = Replaced
                    BY <4>3 DEF ToldReplaced
                <5>2. i # 1
                    BY <4>1, <4>2, <5>1
                <5>3. i - 1 \in 1..Len(events'[d]) /\ events'[d][i - 1] = Replaced
                    BY <4>2, <5>1, <5>2
                <5> QED
                    BY <5>3 DEF ToldReplaced
            <4> QED
                BY <1>1, <2>1, <3>5, <4>3 DEF DownloadIsKnown, IsConnected
        <3> QED
            BY <1>1, <2>3, <3>2, <3>3, <3>4, <3>5, DownloadSteps
    <2> QED
        BY <1>1, <2>2, <2>3, DownloadSteps, OthersLeaveDownloads
<1>3. ASSUME NEW w \in Peers
      PROVE  PeerIsKnown(w)'
    <2>1. PeerIsKnown(w) /\ w \in Callers
        BY DEF KnownInv, Callers
    <2>2. ASSUME peers'[w] = peers[w], inbox'[w] = inbox[w]
          PROVE  PeerIsKnown(w)'
        BY <1>1, <2>1, <2>2 DEF PeerIsKnown, ToldError, DirectionOf
    <2>3. CASE PeerMoves(w)
        <3>1. ASSUME peers[w].pc = "Idle", peers'[w].pc \in {"Starting", "Done"}
              PROVE  PeerIsKnown(w)'
            <4>1. w \notin started /\ answers[w] = NoAnswer
                BY <1>1, <3>1 DEF CallInv, StartsOnce, OneCall, Resting
            <4> QED
                BY <1>1, <2>1, <3>1, <4>1 DEF PeerIsKnown
        <3>2. ASSUME peers'[w].pc = "Done"
              PROVE  PeerIsKnown(w)'
            BY <3>2 DEF PeerIsKnown
        <3>3. ASSUME peers[w].pc = "Starting", Result(w) = Ok, peers'[w].pc = "Open",
                     inbox' = inbox
              PROVE  PeerIsKnown(w)'
            <4>1. answers[w] # NoAnswer
                BY <3>3 DEF Result, Ok, NotFound, NoAnswer
            <4> QED
                BY <1>1, <2>1, <3>3, <4>1 DEF PeerIsKnown, ToldError, DirectionOf
        <3>4. ASSUME peers[w].pc = "Open", peers'[w].pc = "Open", inbox' = inbox
              PROVE  PeerIsKnown(w)'
            BY <1>1, <2>1, <3>4 DEF PeerIsKnown, ToldError, DirectionOf
        <3>5. ASSUME peers[w].pc = "Open", peers'[w].pc = "Open",
                     inbox[w] # <<>>, Head(inbox[w]) # SessionError,
                     inbox'[w] = Tail(inbox[w])
              PROVE  PeerIsKnown(w)'
            <4>1. inbox[w] \in Seq(Commands)
                BY <1>1 DEF CallInv, TypeOK
            <4>2. /\ Head(inbox[w]) = inbox[w][1] /\ Len(inbox[w]) \in Nat
                  /\ Len(inbox'[w]) = Len(inbox[w]) - 1
                  /\ \A i \in 1..Len(inbox'[w]) : inbox'[w][i] = inbox[w][i + 1]
                BY <3>5, <4>1, HeadTailProperties
            <4>3. ASSUME ToldError(w)
                  PROVE  ToldError(w)'
                <5>1. PICK i \in 1..Len(inbox[w]) : inbox[w][i] = SessionError
                    BY <4>3 DEF ToldError
                <5>2. i # 1
                    BY <3>5, <4>2, <5>1
                <5>3. i - 1 \in 1..Len(inbox'[w]) /\ inbox'[w][i - 1] = SessionError
                    BY <4>2, <5>1, <5>2
                <5> QED
                    BY <5>3 DEF ToldError
            <4> QED
                BY <1>1, <2>1, <3>5, <4>3 DEF PeerIsKnown, DirectionOf
        <3> QED
            BY <1>1, <2>3, <3>1, <3>2, <3>3, <3>4, <3>5, PeerSteps
    <2> QED
        BY <1>1, <2>2, <2>3, PeerSteps, OthersLeavePeers
<1>4. PeersLeaveOnce'
    <2>1. ASSUME NEW w \in Peers, peers[w].pc = "Done"
          PROVE  peers'[w].pc = "Done"
        BY <1>1, <2>1, PeerSteps, OthersLeavePeers
    <2>2. \A i \in Mails : mailbox[i].cmd = "WebsocketDisconnected" =>
              peers'[mailbox[i].from].pc = "Done"
        BY <1>1, <2>1, MessageFields DEF KnownInv, PeersLeaveOnce, Mails
    <2>3. CASE mailbox' = mailbox
        BY <2>2, <2>3 DEF PeersLeaveOnce, Mails
    <2>4. ASSUME NEW m \in Messages, Post(m),
                 m.cmd = "WebsocketDisconnected" => peers'[m.from].pc = "Done"
          PROVE  PeersLeaveOnce'
        BY <1>1, <2>2, <2>4, Posted DEF PeersLeaveOnce
    <2>5. ASSUME NEW w \in Peers, PeerMoves(w)
          PROVE  PeersLeaveOnce'
        <3>1. /\ [cmd |-> "StartWebsocket", from |-> w] \in Messages
              /\ [cmd |-> "WebsocketDisconnected", from |-> w] \in Messages
              /\ \A f \in Frames : [cmd |-> "WebsocketData", from |-> w, frame |-> f] \in Messages
            BY DEF Messages
        <3> QED
            BY <1>1, <2>3, <2>4, <2>5, <3>1, PeerSteps
    <2> QED
        BY <1>1, <2>3, <2>4, <2>5, OthersLeavePeers DEF FromPeer
<1> QED
    BY <1>2, <1>3, <1>4 DEF KnownInv

\* Every step keeps the connections known.
LEMMA KnownInvStep ==
    ASSUME SessionInv, EndInv, KnownInv, [RelayNext]_relayVars
    PROVE  KnownInv'
<1>1. CASE UNCHANGED relayVars
    BY <1>1 DEF relayVars, vars, handlers, KnownInv, DownloadIsKnown, PeerIsKnown, PeersLeaveOnce,
                ToldReplaced, ToldError, IsConnected, DirectionOf, Mails
<1> QED
    BY <1>1, ServeKeepsKnown, HandlersKeepKnown DEF EndInv

\* A response or websocket that has started is the session's own, until the
\* session tells it that it is not or it has left.
LEMMA KnownInvariance == RelaySpec => []KnownInv
<1>1. RelayInit => KnownInv
    BY DEF RelayInit, Init, KnownInv, DownloadIsKnown, PeerIsKnown, PeersLeaveOnce, Mails
<1>2. SessionInv /\ EndInv /\ KnownInv /\ [RelayNext]_relayVars => KnownInv'
    BY KnownInvStep
<1> QED
    BY <1>1, <1>2, SessionInvariance, EndInvariance, PTL DEF RelaySpec

\* Token works: no late news of a connection that is gone makes the session
\* forget the one that took its place.
THEOREM OpenConnectionsStay == RelaySpec => []OpenConnectionsAreRegistered
<1>1. KnownInv => OpenConnectionsAreRegistered
    BY DEF KnownInv, DownloadIsKnown, PeerIsKnown, ToldReplaced, ToldError,
           OpenConnectionsAreRegistered
<1> QED
    BY <1>1, KnownInvariance, PTL

-----------------------------------------------------------------------------
(* The frames, from the mailbox over what is held to the websockets.        *)

IsFrame(m) == m.cmd = "WebsocketData"

SentFrames == {f \in Peers \X Nat : f[2] <= peers[f[1]].sent}
MailedFrames == {mailbox[i].frame : i \in {j \in Mails : IsFrame(mailbox[j])}}

\* Of one sender's frames, f is the older one.
Precedes(f, g) == f[1] = g[1] => f[2] < g[2]

MailedInOrder ==
    \A i \in Mails : IsFrame(mailbox[i]) =>
        /\ mailbox[i].frame \in SentFrames
        /\ mailbox[i].frame[1] = mailbox[i].from
        /\ \A j \in Mails :
              i < j /\ IsFrame(mailbox[j]) => Precedes(mailbox[i].frame, mailbox[j].frame)

\* What is held for a direction was sent before what is in the mailbox.
HeldInOrder(dir) ==
    \A i \in 1..Len(held[dir]) :
        /\ held[dir][i] \in SentFrames
        /\ \A j \in 1..Len(held[dir]) : i < j => Precedes(held[dir][i], held[dir][j])
        /\ \A g \in MailedFrames : Precedes(held[dir][i], g)

\* What a websocket was sent comes before what is held for it and the mailbox.
SentInOrder(w) ==
    \A i \in 1..Len(SentTo(w)) : SentTo(w)[i].tag = "Send" =>
        /\ SentTo(w)[i].frame \in SentFrames
        /\ \A j \in 1..Len(SentTo(w)) : i < j /\ SentTo(w)[j].tag = "Send"
              => Precedes(SentTo(w)[i].frame, SentTo(w)[j].frame)
        /\ \A j \in 1..Len(held[DirectionOf(w)]) :
              Precedes(SentTo(w)[i].frame, held[DirectionOf(w)][j])
        /\ \A g \in MailedFrames : Precedes(SentTo(w)[i].frame, g)

FrameInv ==
    /\ MailedInOrder
    /\ \A dir \in Directions : HeldInOrder(dir)
    /\ \A w \in Peers : SentInOrder(w)

\* What a turn of the session task does to what is held for a direction.
LEMMA HeldGets ==
    ASSUME CallInv, Serve, NEW dir \in Directions
    PROVE  /\ \/ held'[dir] = held[dir]
              \/ /\ mailbox[1].cmd = "StartWebsocket" /\ DirectionOf(mailbox[1].from) = dir
                 /\ held'[dir] = <<>>
              \/ /\ IsFrame(mailbox[1]) /\ dir = Opposite(DirectionOf(mailbox[1].from))
                 /\ socket[dir] = NoOne
                 /\ held'[dir] = Append(held[dir], mailbox[1].frame)
           /\ mailbox[1].cmd = "StartWebsocket" /\ DirectionOf(mailbox[1].from) = dir
                 => held'[dir] = <<>>
<1> DEFINE m == mailbox[1]
<1>1. /\ 1 \in Mails /\ m \in Messages /\ Dispatch(m)
      /\ held \in [Directions -> Seq(Frames)]
    BY OldestMessage DEF CallInv, TypeOK
<1> HIDE DEF m
<1> USE <1>1, MessageFields
<1>2. CASE m.cmd = "StartWebsocket" /\ StartWebsocket(m.from)
    BY <1>2 DEF StartWebsocket, HeldTaken, m
<1>3. CASE m.cmd = "WebsocketData" /\ RelayFrame(DirectionOf(m.from), m.frame)
    <2> DEFINE to == Opposite(DirectionOf(m.from))
    <2>1. to \in Directions
        BY DEF Opposite, Directions
    <2>2. \/ held' = held
          \/ socket[to] = NoOne /\ held' = [held EXCEPT ![to] = Append(@, m.frame)]
        BY <1>3, <2>1 DEF RelayFrame, HeldWith
    <2>3. \/ held'[dir] = held[dir]
          \/ dir = to /\ socket[dir] = NoOne /\ held'[dir] = Append(held[dir], m.frame)
        BY <2>1, <2>2
    <2> QED
        BY <1>3, <2>3 DEF IsFrame, m
<1>4. CASE /\ m.cmd # "StartWebsocket"
           /\ \/ StartDownload(m.from, m.position) \/ FinishDownload(m.from)
              \/ CheckStartUpload(m.from, m.position) \/ StartUpload(m.from, m.position)
              \/ UploadData(m.from, m.chunk) \/ FlushUpload(m.from)
              \/ DownloaderDisconnected(m.from, m.completed) \/ UploaderDisconnected(m.from)
              \/ WebsocketDisconnected(m.from)
    <2>1. held' = held
        BY <1>4 DEF StartDownload, FinishDownload, CheckStartUpload, StartUpload, UploadData,
                    FlushUpload, DownloaderDisconnected, UploaderDisconnected,
                    WebsocketDisconnected, signaling
    <2> QED
        BY <1>4, <2>1 DEF m
<1> QED
    BY <1>2, <1>3, <1>4 DEF Dispatch

\* A turn of the session task takes frames out of the mailbox in their order.
LEMMA ServeKeepsMailed ==
    ASSUME CallInv, Serve, MailedInOrder
    PROVE  /\ MailedInOrder'
           /\ MailedFrames' \subseteq MailedFrames /\ SentFrames' = SentFrames
           /\ IsFrame(mailbox[1]) =>
                 /\ mailbox[1].frame \in SentFrames /\ mailbox[1].frame \in MailedFrames
                 /\ \A g \in MailedFrames' : Precedes(mailbox[1].frame, g)
<1>1. /\ mailbox \in Seq(Messages) /\ peers' = peers /\ 1 \in Mails
      /\ \A i \in Mails' : i + 1 \in Mails /\ 1 < i + 1 /\ mailbox'[i] = mailbox[i + 1]
    BY OldestMessage, Served DEF CallInv, HandlersOK, handlers, Mails
<1>2. SentFrames' = SentFrames
    BY <1>1 DEF SentFrames
<1>3. MailedFrames' \subseteq MailedFrames
    BY <1>1 DEF MailedFrames, IsFrame
<1>4. IsFrame(mailbox[1]) =>
         /\ mailbox[1].frame \in SentFrames /\ mailbox[1].frame \in MailedFrames
         /\ \A g \in MailedFrames' : Precedes(mailbox[1].frame, g)
    BY <1>1 DEF MailedFrames, IsFrame, MailedInOrder
<1>5. ASSUME NEW i \in Mails', IsFrame(mailbox'[i])
      PROVE  /\ mailbox'[i].frame \in SentFrames
             /\ mailbox'[i].frame[1] = mailbox'[i].from
             /\ \A j \in Mails' : i < j /\ IsFrame(mailbox'[j])
                   => Precedes(mailbox'[i].frame, mailbox'[j].frame)
    <2>1. i + 1 \in Mails /\ IsFrame(mailbox[i + 1]) /\ mailbox'[i] = mailbox[i + 1]
        BY <1>1, <1>5
    <2>2. ASSUME NEW j \in Mails', i < j, IsFrame(mailbox'[j])
          PROVE  Precedes(mailbox'[i].frame, mailbox'[j].frame)
        <3>1. j + 1 \in Mails /\ mailbox'[j] = mailbox[j + 1] /\ i + 1 < j + 1
            BY <1>1, <2>2 DEF Mails
        <3> QED
            BY <2>1, <2>2, <3>1 DEF MailedInOrder
    <2> QED
        BY <2>1, <2>2 DEF MailedInOrder
<1>6. MailedInOrder'
    BY <1>2, <1>5 DEF MailedInOrder, IsFrame, Precedes
<1> QED
    BY <1>2, <1>3, <1>4, <1>6

\* And holds them in their order.
LEMMA ServeKeepsHeld ==
    ASSUME CallInv, Serve, MailedInOrder, NEW dir \in Directions, HeldInOrder(dir)
    PROVE  HeldInOrder(dir)'
<1>1. /\ held[dir] \in Seq(Frames) /\ 1 \in Mails /\ mailbox[1] \in Messages
      /\ MailedFrames' \subseteq MailedFrames /\ SentFrames' = SentFrames
    BY OldestMessage, ServeKeepsMailed DEF CallInv, TypeOK
<1>2. CASE held'[dir] = held[dir]
    BY <1>1, <1>2 DEF HeldInOrder, Precedes
<1>3. CASE held'[dir] = <<>>
    BY <1>3 DEF HeldInOrder
<1>4. CASE IsFrame(mailbox[1]) /\ held'[dir] = Append(held[dir], mailbox[1].frame)
    <2> DEFINE f == mailbox[1].frame
    <2>1. /\ f \in Frames /\ f \in SentFrames /\ f \in MailedFrames
          /\ \A g \in MailedFrames' : Precedes(f, g)
        BY <1>1, <1>4, MessageFields, ServeKeepsMailed DEF IsFrame
    <2>2. /\ Len(held'[dir]) = Len(held[dir]) + 1 /\ Len(held[dir]) \in Nat
          /\ held'[dir][Len(held[dir]) + 1] = f
          /\ \A i \in 1..Len(held[dir]) : held'[dir][i] = held[dir][i]
        BY <1>1, <1>4, <2>1, AppendProperties
    <2> HIDE DEF f
    <2>3. \A i \in 1..Len(held[dir]) : Precedes(held[dir][i], f)
        BY <2>1 DEF HeldInOrder
    <2>4. ASSUME NEW i \in 1..Len(held'[dir])
          PROVE  /\ held'[dir][i] \in SentFrames
                 /\ \A j \in 1..Len(held'[dir]) :
                       i < j => Precedes(held'[dir][i], held'[dir][j])
                 /\ \A g \in MailedFrames' : Precedes(held'[dir][i], g)
        <3>1. CASE i \in 1..Len(held[dir])
            <4>1. ASSUME NEW j \in 1..Len(held'[dir]), i < j
                  PROVE  Precedes(held'[dir][i], held'[dir][j])
                <5>1. CASE j \in 1..Len(held[dir])
                    BY <2>2, <3>1, <4>1, <5>1 DEF HeldInOrder
                <5>2. CASE j = Len(held[dir]) + 1
                    BY <2>2, <2>3, <3>1, <5>2
                <5> QED
                    BY <2>2, <5>1, <5>2
            <4> QED
                BY <1>1, <2>2, <3>1, <4>1 DEF HeldInOrder
        <3>2. CASE i = Len(held[dir]) + 1
            BY <2>1, <2>2, <3>2
        <3> QED
            BY <2>2, <3>1, <3>2
    <2> QED
        BY <1>1, <2>4 DEF HeldInOrder, Precedes
<1> QED
    BY <1>2, <1>3, <1>4, HeldGets

\* A websocket that is sent more, in order and after what it was sent, is sent
\* everything in order.
LEMMA SentGrows ==
    ASSUME NEW w \in Peers, SentInOrder(w), SentTo(w) \in Seq(Commands),
           NEW more \in Seq(Commands), SentTo(w)' = SentTo(w) \o more,
           SentFrames \subseteq SentFrames',
           NEW dir, dir = DirectionOf(w),
           \A k \in 1..Len(more) : more[k].tag = "Send" =>
              /\ more[k].frame \in SentFrames'
              /\ \A l \in 1..Len(more) :
                    k < l /\ more[l].tag = "Send" => Precedes(more[k].frame, more[l].frame)
              /\ \A j \in 1..Len(held'[dir]) : Precedes(more[k].frame, held'[dir][j])
              /\ \A g \in MailedFrames' : Precedes(more[k].frame, g),
           \A i \in 1..Len(SentTo(w)) : SentTo(w)[i].tag = "Send" =>
              /\ \A k \in 1..Len(more) :
                    more[k].tag = "Send" => Precedes(SentTo(w)[i].frame, more[k].frame)
              /\ \A j \in 1..Len(held'[dir]) : Precedes(SentTo(w)[i].frame, held'[dir][j])
              /\ \A g \in MailedFrames' : Precedes(SentTo(w)[i].frame, g)
    PROVE  SentInOrder(w)'
<1> DEFINE s == SentTo(w)
           t == SentTo(w) \o more
           n == Len(SentTo(w))
<1>1. /\ t \in Seq(Commands) /\ n \in Nat /\ Len(more) \in Nat
      /\ Len(t) = n + Len(more)
      /\ \A i \in 1..n : t[i] = s[i]
      /\ \A k \in 1..Len(more) : t[n + k] = more[k]
    BY ConcatProperties, LenProperties
<1>2. \A i \in 1..Len(t) : i \in 1..n \/ (i - n \in 1..Len(more) /\ t[i] = more[i - n])
    <2> SUFFICES ASSUME NEW i \in 1..Len(t), i \notin 1..n
                 PROVE  i - n \in 1..Len(more) /\ t[i] = more[i - n]
        OBVIOUS
    <2> DEFINE k == i - n
    <2>1. k \in 1..Len(more) /\ i = n + k
        BY <1>1
    <2> HIDE DEF k, t, n
    <2>2. t[i] = more[k]
        BY <1>1, <2>1
    <2> QED
        BY <2>1, <2>2 DEF k
<1>3. \A i \in 1..n : s[i].tag = "Send" =>
          /\ s[i].frame \in SentFrames'
          /\ \A j \in 1..n : i < j /\ s[j].tag = "Send" => Precedes(s[i].frame, s[j].frame)
          /\ \A k \in 1..Len(more) : more[k].tag = "Send" => Precedes(s[i].frame, more[k].frame)
          /\ \A j \in 1..Len(held'[dir]) : Precedes(s[i].frame, held'[dir][j])
          /\ \A g \in MailedFrames' : Precedes(s[i].frame, g)
    BY DEF SentInOrder
<1> HIDE DEF s, t, n
<1>4. ASSUME NEW i \in 1..Len(t), t[i].tag = "Send"
      PROVE  /\ t[i].frame \in SentFrames'
             /\ \A j \in 1..Len(t) : i < j /\ t[j].tag = "Send" => Precedes(t[i].frame, t[j].frame)
             /\ \A j \in 1..Len(held'[dir]) : Precedes(t[i].frame, held'[dir][j])
             /\ \A g \in MailedFrames' : Precedes(t[i].frame, g)
    <2>1. CASE i \in 1..n
        <3>1. t[i] = s[i]
            BY <1>1, <2>1
        <3>2. ASSUME NEW j \in 1..Len(t), i < j, t[j].tag = "Send"
              PROVE  Precedes(t[i].frame, t[j].frame)
            <4>1. CASE j \in 1..n
                BY <1>1, <1>3, <1>4, <2>1, <3>1, <3>2, <4>1
            <4>2. CASE j - n \in 1..Len(more)
                <5>1. t[j] = more[j - n]
                    BY <1>1, <1>2, <4>2
                <5> QED
                    BY <1>3, <1>4, <2>1, <3>1, <3>2, <4>2, <5>1
            <4> QED
                BY <1>2, <4>1, <4>2
        <3> QED
            BY <1>3, <1>4, <2>1, <3>1, <3>2
    <2>2. CASE i - n \in 1..Len(more)
        <3>1. t[i] = more[i - n]
            BY <1>1, <1>2, <2>2
        <3>2. ASSUME NEW j \in 1..Len(t), i < j, t[j].tag = "Send"
              PROVE  Precedes(t[i].frame, t[j].frame)
            <4>1. /\ j - n \in 1..Len(more) /\ i - n < j - n
                BY <1>1, <2>2, <3>2
            <4>2. t[j] = more[j - n]
                BY <1>1, <1>2, <2>2, <4>1
            <4> QED
                BY <1>4, <2>2, <3>1, <3>2, <4>1, <4>2
        <3> QED
            BY <1>4, <2>2, <3>1, <3>2
    <2> QED
        BY <1>2, <2>1, <2>2
<1>5. SentTo(w)' = t
    BY DEF t
<1> QED
    BY <1>4, <1>5 DEF SentInOrder, Precedes, DirectionOf

\* What a channel gets in a turn of the session task, its websocket is sent.
LEMMA ServeSends ==
    ASSUME SessionInv, Serve, NEW w \in Peers,
           NEW more \in Seq(Commands), inbox'[w] = inbox[w] \o more
    PROVE  SentTo(w) \in Seq(Commands) /\ SentTo(w)' = SentTo(w) \o more
<1> DEFINE r == peers[w].received
           b == inbox[w]
<1>1. b \in Seq(Commands) /\ r \in Seq(Commands) /\ peers' = peers
    BY OldestMessage DEF SessionInv, CallInv, TypeOK, HandlersOK, handlers
<1>2. SentTo(w) = r \o b /\ SentTo(w)' = r \o (b \o more)
    BY <1>1 DEF SentTo
<1> HIDE DEF r, b
<1>3. (r \o b) \o more = r \o (b \o more)
    <2>1. \A x, y, z \in Seq(Commands) : (x \o y) \o z = x \o (y \o z)
        BY SMTT(30), ConcatAssociative
    <2> QED
        BY <1>1, <2>1
<1>4. r \o b \in Seq(Commands)
    BY <1>1, ConcatProperties
<1> QED
    BY <1>2, <1>3, <1>4

\* Each way a websocket is sent something keeps it in order.
LEMMA ServeKeepsSent ==
    ASSUME SessionInv, FrameInv, Serve, NEW w \in Peers
    PROVE  SentInOrder(w)'
<1> DEFINE dir == DirectionOf(w)
           m == mailbox[1]
<1>1. /\ CallInv /\ TypeOK /\ dir \in Directions /\ peers' = peers
      /\ 1 \in Mails /\ m \in Messages
      /\ inbox[w] \in Seq(Commands) /\ peers[w].received \in Seq(Commands)
      /\ held[dir] \in Seq(Frames)
    BY OldestMessage DEF SessionInv, CallInv, TypeOK, HandlersOK, handlers, DirectionOf, Directions
<1>2. /\ MailedFrames' \subseteq MailedFrames /\ SentFrames' = SentFrames
      /\ IsFrame(m) => /\ m.frame \in SentFrames /\ m.frame \in MailedFrames
                       /\ \A g \in MailedFrames' : Precedes(m.frame, g)
    BY <1>1, ServeKeepsMailed DEF FrameInv
<1>3. PICK more \in Seq(Commands) :
              /\ inbox'[w] = inbox[w] \o more
              /\ \/ more = <<>>
                 \/ \E p \in Nat : more = <<Ack(p)>>
                 \/ /\ mailbox[1].cmd = "WebsocketData" /\ more = <<Send(mailbox[1].frame)>>
                    /\ socket[Opposite(DirectionOf(mailbox[1].from))] = w
                 \/ /\ mailbox[1].cmd = "StartWebsocket" /\ mailbox[1].from # w
                    /\ socket[DirectionOf(mailbox[1].from)] = w /\ more = <<SessionError>>
                 \/ /\ mailbox[1].cmd = "StartWebsocket" /\ mailbox[1].from = w
                    /\ more = Queued(DirectionOf(w))
    BY InboxGets
<1>4. /\ SentTo(w) \in Seq(Commands) /\ SentTo(w)' = SentTo(w) \o more
    BY <1>3, ServeSends
<1>5. \/ held'[dir] = held[dir]
      \/ held'[dir] = <<>>
      \/ /\ IsFrame(m) /\ socket[dir] = NoOne /\ held'[dir] = Append(held[dir], m.frame)
    BY <1>1, HeldGets
<1>6. SentInOrder(w) /\ HeldInOrder(dir)
    BY <1>1 DEF FrameInv
<1> HIDE DEF dir, m
<1>7. ASSUME NEW i \in 1..Len(SentTo(w)), SentTo(w)[i].tag = "Send"
      PROVE  /\ \A j \in 1..Len(held[dir]) : Precedes(SentTo(w)[i].frame, held[dir][j])
             /\ \A g \in MailedFrames : Precedes(SentTo(w)[i].frame, g)
             /\ \A j \in 1..Len(held'[dir]) : Precedes(SentTo(w)[i].frame, held'[dir][j])
             /\ \A g \in MailedFrames' : Precedes(SentTo(w)[i].frame, g)
    <2>1. /\ \A j \in 1..Len(held[dir]) : Precedes(SentTo(w)[i].frame, held[dir][j])
          /\ \A g \in MailedFrames : Precedes(SentTo(w)[i].frame, g)
        BY <1>6, <1>7 DEF SentInOrder, dir
    <2>2. CASE IsFrame(m) /\ held'[dir] = Append(held[dir], m.frame)
        <3>1. m.frame \in Frames
            BY <1>1, <2>2, MessageFields DEF IsFrame
        <3>2. /\ Len(held'[dir]) = Len(held[dir]) + 1 /\ Len(held[dir]) \in Nat
              /\ held'[dir][Len(held[dir]) + 1] = m.frame
              /\ \A j \in 1..Len(held[dir]) : held'[dir][j] = held[dir][j]
            BY <1>1, <2>2, <3>1, AppendProperties
        <3>3. \A j \in 1..Len(held'[dir]) : j \in 1..Len(held[dir]) \/ j = Len(held[dir]) + 1
            BY <3>2
        <3> QED
            BY <1>2, <2>1, <2>2, <3>2, <3>3
    <2>3. CASE held'[dir] = held[dir] \/ held'[dir] = <<>>
        BY <1>2, <2>1, <2>3
    <2> QED
        BY <1>5, <2>2, <2>3
<1>8. CASE \A k \in 1..Len(more) : more[k].tag # "Send"
    BY <1>2, <1>4, <1>6, <1>7, <1>8, SentGrows DEF dir
<1>9. CASE /\ m.cmd = "WebsocketData" /\ more = <<Send(m.frame)>>
           /\ socket[Opposite(DirectionOf(m.from))] = w
    <2>1. Opposite(DirectionOf(m.from)) \in Directions /\ w # NoOne
        BY NoOneIsNoHandler DEF Opposite, Directions, Callers
    <2>2. socket[dir] = w
        BY <1>9, <2>1 DEF SessionInv, SocketsOK, dir
    <2>3. held[dir] = <<>>
        BY <1>1, <2>1, <2>2 DEF SessionInv, HeldOnlyForAbsentPeers
    <2>4. held'[dir] = <<>>
        BY <1>5, <2>1, <2>2, <2>3
    <2>5. IsFrame(m) /\ Len(more) = 1 /\ more[1].frame = m.frame
        BY <1>9 DEF IsFrame, Send
    <2>6. \A k \in 1..Len(more) : k = 1 /\ more[k].frame = m.frame
        BY <2>5
    <2>7. \A k \in 1..Len(more) : more[k].tag = "Send" =>
              /\ more[k].frame \in SentFrames'
              /\ \A l \in 1..Len(more) :
                    k < l /\ more[l].tag = "Send" => Precedes(more[k].frame, more[l].frame)
              /\ \A j \in 1..Len(held'[dir]) : Precedes(more[k].frame, held'[dir][j])
              /\ \A g \in MailedFrames' : Precedes(more[k].frame, g)
        BY <1>2, <2>4, <2>5, <2>6
    <2> QED
        BY <1>2, <1>4, <1>6, <1>7, <2>5, <2>6, <2>7, SentGrows DEF dir
<1>10. CASE m.cmd = "StartWebsocket" /\ m.from = w /\ more = Queued(dir)
    <2>1. held'[dir] = <<>>
        BY <1>1, <1>10, HeldGets DEF dir, m
    <2>2. /\ Len(held[dir]) \in Nat /\ Len(more) = Len(held[dir])
          /\ \A k \in 1..Len(more) : k \in 1..Len(held[dir]) /\ more[k].frame = held[dir][k]
        BY <1>1, <1>10 DEF Queued, Send
    <2>3. \A k \in 1..Len(more) : more[k].tag = "Send" =>
              /\ more[k].frame \in SentFrames'
              /\ \A l \in 1..Len(more) :
                    k < l /\ more[l].tag = "Send" => Precedes(more[k].frame, more[l].frame)
              /\ \A j \in 1..Len(held'[dir]) : Precedes(more[k].frame, held'[dir][j])
              /\ \A g \in MailedFrames' : Precedes(more[k].frame, g)
        BY <1>2, <1>6, <2>1, <2>2 DEF HeldInOrder
    <2>4. \A i \in 1..Len(SentTo(w)) : SentTo(w)[i].tag = "Send" =>
              /\ \A k \in 1..Len(more) :
                    more[k].tag = "Send" => Precedes(SentTo(w)[i].frame, more[k].frame)
              /\ \A j \in 1..Len(held'[dir]) : Precedes(SentTo(w)[i].frame, held'[dir][j])
              /\ \A g \in MailedFrames' : Precedes(SentTo(w)[i].frame, g)
        BY <1>7, <2>2
    <2> QED
        BY <1>2, <1>4, <1>6, <2>3, <2>4, SentGrows DEF dir
<1>11. more = <<>> \/ (\E p \in Nat : more = <<Ack(p)>>) \/ more = <<SessionError>>
          => \A k \in 1..Len(more) : more[k].tag # "Send"
    BY DEF Ack, SessionError
<1> QED
    BY <1>3, <1>8, <1>9, <1>10, <1>11 DEF dir, m

\* A frame that is new is the youngest of its sender.
LEMMA PostKeepsFrames ==
    ASSUME FrameInv, mailbox \in Seq(Messages), held' = held,
           \A w \in Peers : SentTo(w)' = SentTo(w),
           SentFrames \subseteq SentFrames',
           \/ mailbox' = mailbox
           \/ \E m \in Messages :
                /\ Post(m)
                /\ IsFrame(m) => /\ m.frame \in SentFrames' /\ m.frame[1] = m.from
                                 /\ \A f \in SentFrames : Precedes(f, m.frame)
    PROVE  FrameInv'
<1> DEFINE Follows(g) == g \in MailedFrames \/ \A f \in SentFrames : Precedes(f, g)
<1>1. ASSUME NEW i \in Mails', IsFrame(mailbox'[i])
      PROVE  \/ i \in Mails /\ mailbox'[i] = mailbox[i]
             \/ /\ mailbox'[i].frame \in SentFrames' /\ mailbox'[i].frame[1] = mailbox'[i].from
                /\ \A f \in SentFrames : Precedes(f, mailbox'[i].frame)
                /\ i = Len(mailbox')
    <2>1. CASE mailbox' = mailbox
        BY <2>1 DEF Mails
    <2>2. ASSUME NEW m \in Messages, Post(m),
                 IsFrame(m) => /\ m.frame \in SentFrames' /\ m.frame[1] = m.from
                               /\ \A f \in SentFrames : Precedes(f, m.frame)
          PROVE  \/ i \in Mails /\ mailbox'[i] = mailbox[i]
                 \/ /\ mailbox'[i].frame \in SentFrames' /\ mailbox'[i].frame[1] = mailbox'[i].from
                    /\ \A f \in SentFrames : Precedes(f, mailbox'[i].frame)
                    /\ i = Len(mailbox')
        <3>1. CASE i \in Mails
            BY <2>2, <3>1, Posted
        <3>2. CASE running /\ i = Len(mailbox) + 1
            <4>1. mailbox' = Append(mailbox, m)
                BY <2>2, <3>2 DEF Post
            <4>2. Len(mailbox') = Len(mailbox) + 1 /\ mailbox'[i] = m
                BY <2>2, <3>2, <4>1, AppendProperties
            <4> QED
                BY <1>1, <2>2, <3>2, <4>2
        <3> QED
            BY <2>2, <3>1, <3>2, Posted
    <2> QED
        BY <2>1, <2>2
<1>2. \A g \in MailedFrames' : Follows(g)
    BY <1>1 DEF MailedFrames, IsFrame
<1>3. \A i \in Mails : IsFrame(mailbox[i]) =>
          mailbox[i].frame \in SentFrames /\ mailbox[i].frame[1] = mailbox[i].from
    BY DEF FrameInv, MailedInOrder
<1>4. MailedInOrder'
    <2>1. ASSUME NEW i \in Mails', IsFrame(mailbox'[i])
          PROVE  /\ mailbox'[i].frame \in SentFrames'
                 /\ mailbox'[i].frame[1] = mailbox'[i].from
                 /\ \A j \in Mails' : i < j /\ IsFrame(mailbox'[j])
                       => Precedes(mailbox'[i].frame, mailbox'[j].frame)
        <3>1. /\ mailbox'[i].frame \in SentFrames'
              /\ mailbox'[i].frame[1] = mailbox'[i].from
            BY <1>1, <1>3, <2>1
        <3>2. ASSUME NEW j \in Mails', i < j, IsFrame(mailbox'[j])
              PROVE  Precedes(mailbox'[i].frame, mailbox'[j].frame)
            <4>1. i # Len(mailbox')
                BY <3>2 DEF Mails
            <4>2. i \in Mails /\ mailbox'[i] = mailbox[i] /\ mailbox[i].frame \in SentFrames
                BY <1>1, <1>3, <2>1, <4>1
            <4> QED
                BY <1>1, <2>1, <3>2, <4>2 DEF FrameInv, MailedInOrder
        <3> QED
            BY <3>1, <3>2
    <2> QED
        BY <2>1 DEF MailedInOrder, IsFrame, Precedes
<1>5. ASSUME NEW dir \in Directions
      PROVE  HeldInOrder(dir)'
    <2>1. HeldInOrder(dir)
        BY DEF FrameInv
    <2> HIDE DEF Follows
    <2>2. \A i \in 1..Len(held[dir]) : \A g : Follows(g) => Precedes(held[dir][i], g)
        BY <2>1 DEF HeldInOrder, Follows
    <2> QED
        BY <1>2, <2>1, <2>2 DEF HeldInOrder, Precedes
<1>6. ASSUME NEW w \in Peers
      PROVE  SentInOrder(w)'
    <2>1. SentInOrder(w) /\ SentTo(w)' = SentTo(w)
        BY DEF FrameInv
    <2> HIDE DEF Follows
    <2>2. \A i \in 1..Len(SentTo(w)) : SentTo(w)[i].tag = "Send" =>
              \A g : Follows(g) => Precedes(SentTo(w)[i].frame, g)
        BY <2>1 DEF SentInOrder, Follows
    <2> QED
        BY <1>2, <2>1, <2>2 DEF SentInOrder, Precedes, DirectionOf
<1> QED
    BY <1>4, <1>5, <1>6 DEF FrameInv

\* Reading a command moves it from the channel to what was received.
LEMMA HandlersKeepSent ==
    ASSUME CallInv, RelayNext, ~Serve, NEW w \in Peers
    PROVE  SentTo(w)' = SentTo(w)
<1>1. /\ inbox[w] \in Seq(Commands) /\ peers[w].received \in Seq(Commands)
    BY DEF CallInv, TypeOK, HandlersOK
<1>2. CASE peers'[w].received = peers[w].received /\ inbox'[w] = inbox[w]
    BY <1>2 DEF SentTo
<1>3. CASE /\ inbox[w] # <<>> /\ inbox'[w] = Tail(inbox[w])
           /\ peers'[w].received = Append(peers[w].received, Head(inbox[w]))
    <2> DEFINE h == Head(inbox[w])
               t == Tail(inbox[w])
               r == peers[w].received
    <2>1. h \in Commands /\ t \in Seq(Commands) /\ <<h>> \in Seq(Commands) /\ r \in Seq(Commands)
        BY <1>1, <1>3
    <2>2. inbox[w] = <<h>> \o t
        BY <1>1, <1>3
    <2> HIDE DEF h, t, r
    <2>3. Append(r, h) = r \o <<h>>
        BY <2>1, AppendIsConcat
    <2>4. (r \o <<h>>) \o t = r \o (<<h>> \o t)
        BY <2>1, ConcatAssociative
    <2> QED
        BY <1>3, <2>2, <2>3, <2>4 DEF SentTo, h, t, r
<1> QED
    BY <1>2, <1>3, PeerSteps, OthersLeavePeers

\* The handlers number the frames as they send them.
LEMMA HandlersKeepFrames ==
    ASSUME CallInv, FrameInv, RelayNext, ~Serve
    PROVE  FrameInv' /\ SentFrames \subseteq SentFrames'
<1>1. /\ mailbox \in Seq(Messages) /\ held' = held
      /\ \A w \in Peers : SentTo(w)' = SentTo(w)
      /\ peers \in [Peers -> [pc : PeerPCs, sent : Nat, received : Seq(Commands)]]
    BY HandlersKeepSent, HandlersOnlyRead DEF CallInv, HandlersOK, signaling
<1>2. \A w \in Peers : peers'[w].sent = peers[w].sent \/ peers'[w].sent = peers[w].sent + 1
    BY PeerSteps, OthersLeavePeers
<1>3. SentFrames \subseteq SentFrames'
    BY <1>1, <1>2 DEF SentFrames
<1>4. ASSUME NEW w \in Peers, PeerMoves(w)
      PROVE  \/ mailbox' = mailbox
             \/ \E m \in Messages :
                  /\ Post(m)
                  /\ IsFrame(m) => /\ m.frame \in SentFrames' /\ m.frame[1] = m.from
                                   /\ \A f \in SentFrames : Precedes(f, m.frame)
    <2>1. ASSUME NEW m, m \in {[cmd |-> "StartWebsocket", from |-> w],
                               [cmd |-> "WebsocketDisconnected", from |-> w]}
          PROVE  m \in Messages /\ ~IsFrame(m)
        BY <2>1 DEF Messages, IsFrame
    <2>2. CASE /\ <<w, peers[w].sent + 1>> \in Frames
               /\ peers'[w].sent = peers[w].sent + 1
               /\ Post([cmd |-> "WebsocketData", from |-> w, frame |-> <<w, peers[w].sent + 1>>])
        <3> DEFINE f == <<w, peers[w].sent + 1>>
                   m == [cmd |-> "WebsocketData", from |-> w, frame |-> f]
        <3>1. m \in Messages /\ m.frame = f /\ m.from = w
            BY <2>2 DEF Messages
        <3>2. f \in SentFrames' /\ f[1] = w
            BY <1>1, <2>2 DEF SentFrames
        <3>3. \A g \in SentFrames : Precedes(g, f)
            BY <1>1 DEF SentFrames, Precedes
        <3> HIDE DEF f
        <3> QED
            BY <2>2, <3>1, <3>2, <3>3 DEF f
    <2> QED
        BY <1>4, <2>1, <2>2, PeerSteps
<1>5. CASE ~\E w \in Peers : PeerMoves(w)
    BY <1>1, <1>3, <1>5, OthersLeavePeers, PostKeepsFrames DEF FromPeer, IsFrame
<1> QED
    BY <1>1, <1>3, <1>4, <1>5, PostKeepsFrames

\* Every step keeps the frames in order.
LEMMA FrameInvStep ==
    ASSUME SessionInv, FrameInv, [RelayNext]_relayVars
    PROVE  FrameInv'
<1>1. CallInv
    BY DEF SessionInv
<1>2. CASE Serve
    BY <1>1, <1>2, ServeKeepsMailed, ServeKeepsHeld, ServeKeepsSent DEF FrameInv
<1>3. CASE UNCHANGED relayVars
    <2>1. peers' = peers /\ inbox' = inbox /\ held' = held /\ mailbox' = mailbox
        BY <1>3 DEF relayVars, vars, handlers
    <2>2. (\A w \in Peers : SentTo(w)' = SentTo(w)) /\ SentFrames' = SentFrames
        BY <2>1 DEF SentTo, SentFrames
    <2> QED
        BY <1>1, <2>1, <2>2, PostKeepsFrames DEF CallInv, HandlersOK
<1> QED
    BY <1>1, <1>2, <1>3, HandlersKeepFrames

\* Of every sender, what a websocket was sent is older than what is held for
\* it, and that is older than what is in the mailbox.
LEMMA FrameInvariance == RelaySpec => []FrameInv
<1>1. RelayInit => FrameInv
    BY DEF RelayInit, Init, FrameInv, MailedInOrder, HeldInOrder, SentInOrder, SentTo, Mails
<1>2. SessionInv /\ FrameInv /\ [RelayNext]_relayVars => FrameInv'
    BY FrameInvStep
<1> QED
    BY <1>1, <1>2, SessionInvariance, PTL DEF RelaySpec

\* A client sees each client of the other side in order and once, whether its
\* frames were held for it or sent on at once.
THEOREM FramesStayInOrder == RelaySpec => []FramesInOrder
<1>1. FrameInv => FramesInOrder
    BY DEF FrameInv, SentInOrder, Precedes, FramesInOrder
<1> QED
    BY <1>1, FrameInvariance, PTL

-----------------------------------------------------------------------------
(* No frame is lost, unless hold_frame has no room for it.                  *)

\* The oldest command is a frame that has to be held, and there is no room.
Overflows ==
    /\ mailbox # <<>>
    /\ LET m == Head(mailbox)
           to == Opposite(DirectionOf(m.from))
       IN  /\ IsFrame(m)
           /\ socket[to] = NoOne /\ Len(held[to]) = MaxHeld

IsHeld(f, dir) == \E i \in 1..Len(held[dir]) : held[dir][i] = f
IsSent(f, w) == \E i \in 1..Len(SentTo(w)) : SentTo(w)[i] = Send(f)

\* A websocket that starts is sent everything that is held for it.
LEMMA StartIsSent ==
    ASSUME SessionInv, Serve, mailbox[1].cmd = "StartWebsocket",
           NEW w, w = mailbox[1].from, NEW f, IsHeld(f, DirectionOf(w))
    PROVE  w \in Peers /\ IsSent(f, w)'
<1> DEFINE dir == DirectionOf(w)
<1>1. /\ mailbox[1] \in Messages /\ 1 \in Mails /\ Dispatch(mailbox[1]) /\ TypeOK
      /\ IsStart(mailbox[1]) => mailbox[1].from \notin started
    BY OldestMessage DEF SessionInv, CallInv, StartsOnce
<1>2. w \in Peers /\ StartWebsocket(w)
    BY <1>1, MessageFields DEF Dispatch
<1>3. /\ dir \in Directions /\ inbox \in [Peers -> Seq(Commands)]
      /\ held[dir] \in Seq(Frames)
    BY <1>1 DEF DirectionOf, Directions, TypeOK
<1>4. socket[dir] # w
    BY SMTT(30), <1>1, <1>2, <1>3, NoOneIsNoHandler DEF IsStart, SessionInv, SocketsOK, Callers
<1>5. inbox'[w] = inbox[w] \o Queued(dir)
    BY <1>2, <1>3, <1>4 DEF StartWebsocket, Queued
<1>6. /\ Queued(dir) \in Seq(Commands) /\ Len(Queued(dir)) = Len(held[dir])
      /\ \A i \in 1..Len(held[dir]) : Queued(dir)[i] = Send(held[dir][i])
    <2>1. \A i \in 1..Len(held[dir]) : Send(held[dir][i]) \in Commands
        BY <1>3 DEF Send, Commands
    <2> QED
        BY <1>3, <2>1 DEF Queued
<1> DEFINE more == Queued(dir)
           s == SentTo(w)
<1>7. s \in Seq(Commands) /\ SentTo(w)' = s \o more
    BY <1>2, <1>5, <1>6, ServeSends
<1>8. PICK i \in 1..Len(more) : more[i] = Send(f)
    BY <1>6 DEF IsHeld
<1>9. more \in Seq(Commands)
    BY <1>6
<1> HIDE DEF more, s
<1>10. Len(s) + i \in 1..Len(s \o more) /\ (s \o more)[Len(s) + i] = Send(f)
    BY <1>7, <1>8, <1>9, ConcatProperties, LenProperties
<1> QED
    BY <1>2, <1>7, <1>10 DEF IsSent

\* What was sent stays sent.
LEMMA SentStays ==
    ASSUME SessionInv, Serve, NEW w \in Peers, NEW f, IsSent(f, w)
    PROVE  IsSent(f, w)'
<1>1. PICK more \in Seq(Commands) : inbox'[w] = inbox[w] \o more
    BY InboxGets
<1> DEFINE s == SentTo(w)
<1>2. s \in Seq(Commands) /\ SentTo(w)' = s \o more
    BY <1>1, ServeSends
<1>3. PICK i \in 1..Len(s) : s[i] = Send(f)
    BY DEF IsSent
<1> HIDE DEF s
<1>4. i \in 1..Len(s \o more) /\ (s \o more)[i] = Send(f)
    BY <1>1, <1>2, <1>3, ConcatProperties, LenProperties
<1> QED
    BY <1>2, <1>4 DEF IsSent

\* What is held stays held until the websocket it is held for starts.
LEMMA HeldStays ==
    ASSUME SessionInv, Serve, NEW dir \in Directions, NEW f, IsHeld(f, dir)
    PROVE  \/ IsHeld(f, dir)'
           \/ mailbox[1].cmd = "StartWebsocket" /\ DirectionOf(mailbox[1].from) = dir
<1>1. held[dir] \in Seq(Frames) /\ CallInv /\ mailbox[1] \in Messages
    BY OldestMessage DEF SessionInv, CallInv, TypeOK
<1>2. CASE held'[dir] = held[dir]
    BY <1>2 DEF IsHeld
<1>3. CASE IsFrame(mailbox[1]) /\ held'[dir] = Append(held[dir], mailbox[1].frame)
    <2>1. mailbox[1].frame \in Frames
        BY <1>1, <1>3, MessageFields DEF IsFrame
    <2>2. /\ Len(held'[dir]) = Len(held[dir]) + 1 /\ Len(held[dir]) \in Nat
          /\ \A i \in 1..Len(held[dir]) : held'[dir][i] = held[dir][i]
        BY <1>1, <1>3, <2>1, AppendProperties
    <2> QED
        BY <2>2 DEF IsHeld
<1> QED
    BY <1>1, <1>2, <1>3, HeldGets

\* The frame that is served is sent or held.
LEMMA FrameIsServed ==
    ASSUME SessionInv, Serve, ~Overflows, IsFrame(mailbox[1]),
           NEW to, to = Opposite(DirectionOf(mailbox[1].from)),
           NEW f, f = mailbox[1].frame
    PROVE  \/ IsHeld(f, to)'
           \/ \E w \in Peers : DirectionOf(w) = to /\ IsSent(f, w)'
<1>1. /\ mailbox[1] \in Messages /\ 1 \in Mails /\ Dispatch(mailbox[1]) /\ TypeOK
      /\ Head(mailbox) = mailbox[1] /\ mailbox # <<>>
    BY OldestMessage, Served DEF SessionInv, CallInv, HandlersOK, Serve
<1>2. /\ RelayFrame(DirectionOf(mailbox[1].from), f) /\ f \in Frames
      /\ to \in Directions
    BY <1>1, MessageFields DEF Dispatch, IsFrame, Opposite, Directions
<1>3. CASE socket[to] = NoOne
    <2>1. held' = [held EXCEPT ![to] = Append(@, f)] /\ held \in [Directions -> Seq(Frames)]
        BY <1>1, <1>2, <1>3 DEF RelayFrame, HeldWith, Overflows, TypeOK
    <2>2. held'[to] = Append(held[to], f) /\ held[to] \in Seq(Frames)
        BY <1>2, <2>1
    <2>3. /\ Len(held'[to]) = Len(held[to]) + 1 /\ Len(held[to]) \in Nat
          /\ held'[to][Len(held[to]) + 1] = f
        BY <1>2, <2>2, AppendProperties
    <2>4. Len(held[to]) + 1 \in 1..Len(held'[to])
        BY <2>3
    <2> QED
        BY <2>3, <2>4 DEF IsHeld
<1>4. CASE socket[to] # NoOne
    <2>1. PICK w \in Peers : w = socket[to] /\ DirectionOf(w) = to
        BY <1>1, <1>2, <1>4 DEF TypeOK, SessionInv, SocketsOK
    <2>2. inbox'[w] = Append(inbox[w], Send(f)) /\ inbox[w] \in Seq(Commands)
        BY <1>1, <1>2, <1>4, <2>1 DEF RelayFrame, TypeOK
    <2>3. Send(f) \in Commands /\ <<Send(f)>> \in Seq(Commands)
        BY <1>2 DEF Send, Commands
    <2>4. inbox'[w] = inbox[w] \o <<Send(f)>>
        BY SMTT(30), <2>2, <2>3, AppendIsConcat
    <2> DEFINE s == SentTo(w)
               more == <<Send(f)>>
    <2>5. s \in Seq(Commands) /\ SentTo(w)' = s \o more /\ Len(more) = 1 /\ more[1] = Send(f)
        BY <2>1, <2>3, <2>4, ServeSends
    <2>6. more \in Seq(Commands)
        BY <2>3
    <2> HIDE DEF s, more
    <2>7. Len(s) + 1 \in 1..Len(s \o more) /\ (s \o more)[Len(s) + 1] = Send(f)
        BY <2>5, <2>6, ConcatProperties, LenProperties
    <2> QED
        BY <2>1, <2>5, <2>7 DEF IsSent
<1> QED
    BY <1>3, <1>4

IsMailed(f) == f \in MailedFrames

\* Frame f of connection v is on its way, held for the other side, or was sent
\* to one of its connections.
IsKept(f, v) ==
    LET to == Opposite(DirectionOf(v))
    IN  IsMailed(f) \/ IsHeld(f, to) \/ \E w \in Peers : DirectionOf(w) = to /\ IsSent(f, w)

KeptInv == running => \A v \in Peers : \A n \in 1..peers[v].sent : IsKept(<<v, n>>, v)

\* Each turn of the session task keeps a frame where it is or moves it on.
LEMMA ServeKeepsFrame ==
    ASSUME SessionInv, FrameInv, ~Overflows, Serve, running',
           NEW v \in Peers, NEW f, f[1] = v, IsKept(f, v)
    PROVE  IsKept(f, v)'
<1> DEFINE to == Opposite(DirectionOf(v))
<1>1. CASE IsMailed(f)
    <2>1. PICK i \in Mails : IsFrame(mailbox[i]) /\ mailbox[i].frame = f
        BY <1>1 DEF IsMailed, MailedFrames
    <2>2. mailbox[i].from = v
        BY <2>1 DEF FrameInv, MailedInOrder
    <2>3. CASE i = 1
        BY <2>1, <2>2, <2>3, FrameIsServed DEF IsKept, Opposite, DirectionOf
    <2>4. CASE i # 1
        <3>1. i - 1 \in Mails' /\ mailbox'[i - 1] = mailbox[i]
            BY <2>4, Served DEF SessionInv, CallInv, HandlersOK
        <3>2. IsMailed(f)'
            BY <2>1, <3>1 DEF IsMailed, MailedFrames, IsFrame
        <3> QED
            BY <3>2 DEF IsKept
    <2> QED
        BY <2>3, <2>4
<1>2. CASE IsHeld(f, to)
    <2>1. to \in Directions
        BY DEF Opposite, Directions
    <2>2. CASE IsHeld(f, to)'
        BY <2>2 DEF IsKept
    <2>3. CASE mailbox[1].cmd = "StartWebsocket" /\ DirectionOf(mailbox[1].from) = to
        BY <1>2, <2>3, StartIsSent DEF IsKept, Opposite, DirectionOf
    <2> QED
        BY <1>2, <2>1, <2>2, <2>3, HeldStays
<1>3. CASE \E w \in Peers : DirectionOf(w) = to /\ IsSent(f, w)
    BY <1>3, SentStays DEF IsKept, Opposite, DirectionOf
<1> QED
    BY <1>1, <1>2, <1>3 DEF IsKept

\* A handler leaves the frames there are, and posts the one it sends.
LEMMA HandlersKeepFrame ==
    ASSUME SessionInv, KeptInv, RelayNext, ~Serve
    PROVE  KeptInv'
<1>1. /\ CallInv /\ mailbox \in Seq(Messages) /\ running' = running /\ held' = held
      /\ \A w \in Peers : SentTo(w)' = SentTo(w)
      /\ peers \in [Peers -> [pc : PeerPCs, sent : Nat, received : Seq(Commands)]]
    BY HandlersKeepSent, HandlersOnlyRead, HandlerStepIsAStep
       DEF SessionInv, CallInv, HandlersOK, signaling
<1>2. ASSUME NEW f, IsMailed(f)
      PROVE  IsMailed(f)'
    <2>1. ASSUME NEW m \in Messages, Post(m)
          PROVE  \A i \in Mails : i \in Mails' /\ mailbox'[i] = mailbox[i]
        BY <1>1, <2>1, Posted
    <2>2. ASSUME NEW w \in Peers, PeerMoves(w)
          PROVE  mailbox' = mailbox \/ \E m \in Messages : Post(m)
        <3>1. /\ [cmd |-> "StartWebsocket", from |-> w] \in Messages
              /\ [cmd |-> "WebsocketDisconnected", from |-> w] \in Messages
              /\ \A x \in Frames : [cmd |-> "WebsocketData", from |-> w, frame |-> x] \in Messages
            BY DEF Messages
        <3> QED
            BY <1>1, <2>2, <3>1, PeerSteps
    <2>3. mailbox' = mailbox \/ \E m \in Messages : Post(m)
        BY <1>1, <2>2, OthersLeavePeers
    <2>4. \A i \in Mails : i \in Mails' /\ mailbox'[i] = mailbox[i]
        BY <2>1, <2>3 DEF Mails
    <2> QED
        BY <1>2, <2>4 DEF IsMailed, MailedFrames, IsFrame
<1>3. ASSUME NEW v \in Peers, NEW f, IsKept(f, v)
      PROVE  IsKept(f, v)'
    BY <1>1, <1>2, <1>3 DEF IsKept, IsHeld, IsSent, Opposite, DirectionOf
<1>4. ASSUME running, NEW v \in Peers, NEW n \in 1..peers'[v].sent
      PROVE  IsKept(<<v, n>>, v)'
    <2>1. peers[v].sent \in Nat
        BY <1>1
    <2>2. CASE n \in 1..peers[v].sent
        BY <1>3, <1>4, <2>2 DEF KeptInv
    <2>3. CASE n = peers[v].sent + 1
        <3> DEFINE f == <<v, peers[v].sent + 1>>
                   m == [cmd |-> "WebsocketData", from |-> v, frame |-> f]
        <3>1. Post(m) /\ f \in Frames
            <4>1. peers'[v].sent # peers[v].sent
                BY <1>4, <2>1, <2>3
            <4>2. PeerMoves(v)
                BY <1>1, <4>1, PeerSteps, OthersLeavePeers
            <4> QED
                BY <1>1, <4>1, <4>2, PeerSteps
        <3>2. m \in Messages /\ IsFrame(m) /\ m.frame = f /\ f = <<v, n>>
            BY <2>3, <3>1 DEF Messages, IsFrame
        <3> HIDE DEF m, f
        <3>3. PICK i \in Mails' : mailbox'[i] = m
            BY <1>1, <1>4, <3>1, <3>2, Posted
        <3>4. PICK g : g = <<v, n>> /\ g \in MailedFrames'
            BY <3>2, <3>3 DEF MailedFrames, IsFrame
        <3> QED
            BY <3>4 DEF IsKept, IsMailed
    <2>4. peers'[v].sent = peers[v].sent \/ peers'[v].sent = peers[v].sent + 1
        BY <1>1, PeerSteps, OthersLeavePeers
    <2>5. n \in 1..peers[v].sent \/ n = peers[v].sent + 1
        BY <2>1, <2>4
    <2> QED
        BY <2>2, <2>3, <2>5
<1> QED
    BY <1>1, <1>4 DEF KeptInv, IsKept, IsMailed, IsHeld, IsSent, Opposite, DirectionOf

\* While no channel overflows, every step keeps the frames.
LEMMA KeptInvStep ==
    ASSUME SessionInv, FrameInv, ~Overflows, KeptInv, [RelayNext]_relayVars
    PROVE  KeptInv'
<1>1. CASE Serve
    <2>1. running /\ peers' = peers
        BY <1>1, OldestMessage DEF SessionInv, handlers
    <2>2. ASSUME running', NEW v \in Peers, NEW n \in 1..peers[v].sent
          PROVE  IsKept(<<v, n>>, v)'
        BY <1>1, <2>1, <2>2, ServeKeepsFrame DEF KeptInv
    <2> QED
        BY <2>1, <2>2 DEF KeptInv, IsKept, IsMailed, IsHeld, IsSent, Opposite, DirectionOf
<1>2. CASE UNCHANGED relayVars
    BY <1>2 DEF relayVars, vars, handlers, KeptInv, IsKept, IsMailed, IsHeld, IsSent, SentTo,
                MailedFrames, IsFrame, Mails, Opposite, DirectionOf
<1> QED
    BY <1>1, <1>2, HandlersKeepFrame

\* No frame disappears in the relay while its session runs, however the two
\* sides connect, replace each other and leave, unless hold_frame drops one.
THEOREM FramesStay == RelaySpec /\ []~Overflows => []FramesAreKept
<1>1. RelayInit => KeptInv
    BY DEF RelayInit, Init, KeptInv
<1>2. SessionInv /\ FrameInv /\ ~Overflows /\ KeptInv /\ [RelayNext]_relayVars => KeptInv'
    BY KeptInvStep
<1>3. KeptInv => FramesAreKept
    BY DEF KeptInv, IsKept, IsMailed, IsHeld, IsSent, MailedFrames, IsFrame, Mails,
           FramesAreKept
<1> QED
    BY <1>1, <1>2, <1>3, SessionInvariance, FrameInvariance, PTL DEF RelaySpec
=============================================================================
