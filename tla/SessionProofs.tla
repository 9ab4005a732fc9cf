--------------------------- MODULE SessionProofs ---------------------------
(* Theorems about module Session, for every instance of its constants.     *)
EXTENDS Session, TLAPS

-----------------------------------------------------------------------------
(* What the helpers of the commands return.                                 *)

\* A reply that is an answer keeps `answers` typed, whoever the waiter is.
LEMMA AnswersWithType ==
    ASSUME TypeOK, NEW h, NEW waiter,
           NEW result \in Answers, NEW waiterResult \in Answers
    PROVE  AnswersWith(h, result, waiter, waiterResult) \in [Callers -> Answers]
BY DEF TypeOK, AnswersWith

\* Telling a download that it was replaced appends an event.
LEMMA EventsAfterReplacingType ==
    ASSUME TypeOK
    PROVE  EventsAfterReplacing \in [Downloads -> Seq(Events)]
BY DEF TypeOK, EventsAfterReplacing, Events

\* Reporting progress appends a command to at most one inbox.
LEMMA InboxAfterProgressType ==
    ASSUME TypeOK, NEW p \in Nat
    PROVE  InboxAfterProgress(p) \in [Peers -> Seq(Commands)]
<1>1. Ack(p) \in Commands
    BY DEF Ack, Commands
<1>2. QED
    BY <1>1 DEF TypeOK, InboxAfterProgress

\* What a queued chunk is, once pending is known to hold one.
LEMMA QueuedChunkType ==
    ASSUME TypeOK, pending.tag = "Data"
    PROVE  /\ pending.position \in Nat
           /\ pending.chunk \in Chunks
           /\ pending.chunk.size \in Nat
           /\ pending.waiter \in Uploads \cup {NoOne}
           /\ pending = Data(pending.chunk, pending.waiter, pending.position)
<1>1. pending \in [tag : {"Data"}, chunk : Chunks, waiter : Uploads \cup {NoOne},
                   position : Nat]
    BY DEF TypeOK, Pendings, NoPending
<1>2. pending.chunk \in [at : Nat, size : Nat, final : BOOLEAN]
    BY <1>1, ChunksAreTyped
<1>3. QED
    BY <1>1, <1>2 DEF Data

\* What the uploader and the connected download are.
LEMMA UploaderType ==
    ASSUME TypeOK, uploader.tag = "Some"
    PROVE  /\ uploader.token \in Uploads
           /\ uploader.position \in Nat
           /\ uploader = Uploader(uploader.token, uploader.position)
BY DEF TypeOK, UploaderSlots, NoUploader, Uploader

\* The download that is connected, taken apart.
LEMMA DownloaderType ==
    ASSUME TypeOK, downloader.tag = "Connected"
    PROVE  /\ downloader.token \in Downloads
           /\ downloader.position \in Nat
           /\ downloader = Connected(downloader.token, downloader.position)
BY DEF TypeOK, DownloaderSlots, Absent, Complete, Connected

\* A position error is an answer an upload may get.
LEMMA AtPositionType ==
    ASSUME NEW p \in Nat
    PROVE  AtPosition(p) \in UploadErrors
BY DEF AtPosition, UploadErrors

\* What check_start_position returns.
LEMMA StartPositionErrorType ==
    ASSUME TypeOK, NEW p \in Nat
    PROVE  StartPositionError(p) \in {Ok} \cup UploadErrors
BY QueuedChunkType, DownloaderType, AtPositionType DEF StartPositionError

\* Where a download goes on behind the queued chunk.
LEMMA PositionAfterQueuedType ==
    ASSUME TypeOK, NEW p \in Nat
    PROVE  PositionAfterQueued(p) \in Nat
BY QueuedChunkType DEF PositionAfterQueued, Meets

\* Terminating the uploader leaves a chunk without waiter, or an error.
LEMMA PendingAfterTerminationType ==
    ASSUME TypeOK, NEW error \in UploadErrors
    PROVE  PendingAfterTermination(error) \in Pendings
<1>1. CASE pending.tag = "Data"
    <2>1. PendingAfterTermination(error) = Data(pending.chunk, NoOne, pending.position)
        BY <1>1, QueuedChunkType DEF PendingAfterTermination, Data
    <2>2. QED
        BY <1>1, <2>1, QueuedChunkType DEF Data, Pendings
<1>2. CASE pending.tag # "Data"
    BY <1>2 DEF PendingAfterTermination, Error, Pendings
<1>3. QED
    BY <1>1, <1>2

\* A chunk handed to a download is an event.
LEMMA BytesType ==
    ASSUME NEW chunk \in Chunks
    PROVE  Bytes(chunk) \in Events
BY DEF Bytes, Events

-----------------------------------------------------------------------------
(* Type correctness: one lemma per command that changes more than one part  *)
(* of the state.                                                            *)

\* start_download keeps the types.
LEMMA TypeOKStartDownload ==
    ASSUME TypeOK, NEW d \in Downloads, NEW p \in Positions, StartDownload(d, p)
    PROVE  TypeOK'
<1> DEFINE at == PositionAfterQueued(p)
<1>1. p \in Nat /\ at \in Nat
    BY PositionAfterQueuedType, SizesAreNatural DEF Positions
<1>2. downloader' \in DownloaderSlots
    BY <1>1 DEF StartDownload, Connected, DownloaderSlots
<1>3. pending' \in Pendings
    BY <1>1, AtPositionType DEF StartDownload, PendingAfterDownload, Error, Pendings
<1>4. answers' \in [Callers -> Answers]
    <2>1. WaiterResult(p) \in Answers
        BY <1>1, AtPositionType DEF WaiterResult, Answers
    <2>2. Ok \in Answers
        BY DEF Answers
    <2>3. QED
        BY <2>1, <2>2, AnswersWithType DEF StartDownload
<1>5. events' \in [Downloads -> Seq(Events)]
    <2>1. Meets(p) => Bytes(pending.chunk) \in Events
        BY QueuedChunkType, BytesType DEF Meets
    <2>2. QED
        BY <2>1, EventsAfterReplacingType DEF StartDownload
<1>6. inbox' \in [Peers -> Seq(Commands)]
    BY <1>1, InboxAfterProgressType DEF StartDownload, TypeOK
<1>7. QED
    BY <1>2, <1>3, <1>4, <1>5, <1>6 DEF StartDownload, TypeOK, signaling

\* finish_download keeps the types.
LEMMA TypeOKFinishDownload ==
    ASSUME TypeOK, NEW f \in Finishes, FinishDownload(f)
    PROVE  TypeOK'
<1>1. Finished \in UploadErrors /\ Finished \in Answers /\ Ok \in Answers
    BY DEF UploadErrors, Answers
<1>2. answers' \in [Callers -> Answers]
    BY <1>1, AnswersWithType DEF FinishDownload
<1>3. pending' \in Pendings
    BY <1>1, PendingAfterTerminationType DEF FinishDownload, TypeOK
<1>4. uploader' \in UploaderSlots /\ running' \in BOOLEAN
    BY DEF FinishDownload, TypeOK, UploaderSlots
<1>5. downloader' \in DownloaderSlots
    BY DEF FinishDownload, DownloaderSlots
<1>6. events' \in [Downloads -> Seq(Events)]
    BY EventsAfterReplacingType DEF FinishDownload
<1>7. QED
    BY <1>2, <1>3, <1>4, <1>5, <1>6 DEF FinishDownload, TypeOK, signaling

\* start_upload keeps the types.
LEMMA TypeOKStartUpload ==
    ASSUME TypeOK, NEW u \in Uploads, NEW p \in Positions, StartUpload(u, p)
    PROVE  TypeOK'
<1>1. p \in Nat
    BY SizesAreNatural DEF Positions
<1>2. ConnectionReplaced \in UploadErrors /\ ConnectionReplaced \in Answers
    BY DEF UploadErrors, Answers
<1>3. answers' \in [Callers -> Answers]
    <2>1. StartPositionError(p) \in Answers
        BY <1>1, StartPositionErrorType DEF Answers
    <2>2. QED
        BY <1>2, <2>1, AnswersWithType DEF StartUpload
<1>4. pending' \in Pendings
    <2>1. PendingAfterTermination(ConnectionReplaced) \in Pendings /\ NoPending \in Pendings
        BY <1>2, PendingAfterTerminationType DEF Pendings
    <2>2. QED
        BY <2>1 DEF StartUpload, TypeOK
<1>5. uploader' \in UploaderSlots
    BY <1>1 DEF StartUpload, UploaderSlots, Uploader
<1>6. inbox' \in [Peers -> Seq(Commands)]
    BY <1>1, InboxAfterProgressType DEF StartUpload, TypeOK
<1>7. QED
    BY <1>3, <1>4, <1>5, <1>6 DEF StartUpload, TypeOK, signaling

\* An uploader is refused with an error that it may be told.
LEMMA RefusedType ==
    ASSUME TypeOK, NEW u \in Uploads, Refused(u)
    PROVE  answers' \in [Callers -> Answers]
<1>1. pending.tag = "Error" => pending.error \in Answers
    BY DEF TypeOK, Pendings, NoPending, Answers
<1>2. Ok \in Answers /\ ConnectionReplaced \in Answers
    BY DEF Answers, UploadErrors
<1>3. QED
    BY <1>1, <1>2, AnswersWithType DEF Refused

\* upload_data keeps the types.
LEMMA TypeOKUploadData ==
    ASSUME TypeOK, NEW u \in Uploads, NEW chunk \in Chunks, UploadData(u, chunk)
    PROVE  TypeOK'
<1> USE DEF UploadData
<1>1. CASE Refused(u) /\ UNCHANGED <<slots, events, inbox>>
    BY <1>1, RefusedType DEF TypeOK, slots, signaling
<1>2. CASE /\ IsUploader(u) /\ pending.tag = "Data"
           /\ answers' = AnswersWith(u, DataPending, NoOne, Ok)
           /\ UNCHANGED <<slots, events, inbox>>
    <2>1. DataPending \in Answers /\ Ok \in Answers
        BY DEF Answers, UploadErrors
    <2>2. QED
        BY <1>2, <2>1, AnswersWithType DEF TypeOK, slots, signaling
<1>3. CASE IsUploader(u) /\ pending.tag = "None"
              /\ uploader' = [uploader EXCEPT !.position = @ + chunk.size]
    <2>1. chunk.size \in Nat
        BY ChunksAreTyped
    <2>2. uploader' \in UploaderSlots
        <3>1. uploader \in [tag : {"Some"}, token : Uploads, position : Nat]
            BY <1>3 DEF IsUploader, TypeOK, UploaderSlots, NoUploader
        <3>2. QED
            BY <1>3, <2>1, <3>1 DEF UploaderSlots
    <2>3. CASE downloader.tag = "Connected"
        <3> DEFINE at == uploader.position + chunk.size
        <3>1. at \in Nat
            BY <1>3, <2>1, UploaderType DEF IsUploader
        <3>2. downloader' \in DownloaderSlots
            <4>1. downloader \in [tag : {"Connected"}, token : Downloads, position : Nat]
                BY <2>3 DEF TypeOK, DownloaderSlots, Absent, Complete
            <4>2. QED
                BY <1>3, <2>3, <3>1, <4>1 DEF DownloaderSlots, IsUploader, Refused
        <3>3. events' \in [Downloads -> Seq(Events)]
            <4>1. events' = [events EXCEPT ![downloader.token] = Append(@, Bytes(chunk))]
                BY <1>3, <2>3 DEF IsUploader, Refused
            <4>2. downloader.token \in Downloads /\ Bytes(chunk) \in Events
                BY <2>3, DownloaderType, BytesType
            <4>3. QED
                BY <4>1, <4>2 DEF TypeOK
        <3>4. inbox' \in [Peers -> Seq(Commands)]
            BY <1>3, <2>3, <3>1, InboxAfterProgressType DEF IsUploader, Refused
        <3>5. answers' \in [Callers -> Answers] /\ pending' = pending
            <4>1. answers' = AnswersWith(u, Ok, NoOne, Ok) /\ pending' = pending
                BY <1>3, <2>3 DEF IsUploader, Refused
            <4>2. QED
                BY <4>1, AnswersWithType DEF Answers
        <3>6. QED
            BY <2>2, <3>2, <3>3, <3>4, <3>5 DEF TypeOK, signaling
    <2>4. CASE downloader.tag # "Connected"
        <3>1. pending' = Data(chunk, u, uploader.position)
                /\ UNCHANGED <<downloader, events, inbox, answers>>
            BY <1>3, <2>4 DEF IsUploader, Refused
        <3>2. pending' \in Pendings
            BY <1>3, <3>1, UploaderType DEF Data, Pendings, IsUploader
        <3>3. QED
            BY <2>2, <3>1, <3>2 DEF TypeOK, signaling
    <2>5. QED
        BY <2>3, <2>4
<1>4. QED
    BY <1>1, <1>2, <1>3

\* flush_upload keeps the types.
LEMMA TypeOKFlushUpload ==
    ASSUME TypeOK, NEW u \in Uploads, FlushUpload(u)
    PROVE  TypeOK'
<1>1. answers' \in [Callers -> Answers]
    <2>1. Ok \in Answers /\ NotFound \in Answers
        BY DEF Answers, UploadErrors
    <2>2. QED
        BY <2>1, RefusedType, AnswersWithType DEF FlushUpload
<1>2. pending' \in Pendings
    <2>1. CASE pending.tag = "Data" /\ pending' = [pending EXCEPT !.waiter = u]
        <3>1. pending \in [tag : {"Data"}, chunk : Chunks, waiter : Uploads \cup {NoOne},
                           position : Nat]
            BY <2>1 DEF TypeOK, Pendings, NoPending
        <3>2. QED
            BY <2>1, <3>1 DEF Pendings
    <2>2. CASE UNCHANGED pending
        BY <2>2 DEF TypeOK
    <2>3. QED
        BY <2>1, <2>2 DEF FlushUpload
<1>3. QED
    BY <1>1, <1>2 DEF FlushUpload, TypeOK, signaling

\* start_websocket keeps the types.
LEMMA TypeOKStartWebsocket ==
    ASSUME TypeOK, NEW w \in Peers, StartWebsocket(w)
    PROVE  TypeOK'
<1> DEFINE dir == DirectionOf(w)
           queued == [i \in 1..Len(held[dir]) |-> Send(held[dir][i])]
           fed == [inbox EXCEPT ![w] = @ \o queued]
<1>1. dir \in Directions
    BY DEF DirectionOf, Directions
<1>2. queued \in Seq(Commands)
    <2>1. held[dir] \in Seq(Frames)
        BY <1>1 DEF TypeOK
    <2>2. \A i \in 1..Len(held[dir]) : Send(held[dir][i]) \in Commands
        BY <2>1 DEF Send, Commands
    <2>3. QED
        BY <2>1, <2>2
<1>3. fed \in [Peers -> Seq(Commands)]
    BY <1>2 DEF TypeOK
<1>4. inbox' \in [Peers -> Seq(Commands)]
    <2>1. SessionError \in Commands
        BY DEF Commands
    <2>2. inbox' = [x \in Peers |-> IF x = socket[dir] THEN Append(fed[x], SessionError)
                                                      ELSE fed[x]]
        BY DEF StartWebsocket
    <2>3. QED
        BY <1>3, <2>1, <2>2
<1>5. socket' \in [Directions -> Peers \cup {NoOne}] /\ held' \in [Directions -> Seq(Frames)]
    BY <1>1 DEF StartWebsocket, HeldTaken, TypeOK
<1>6. answers' \in [Callers -> Answers]
    BY AnswersWithType DEF StartWebsocket, Answers
<1>7. started' \subseteq Uploads \cup Downloads \cup Peers
    BY DEF StartWebsocket, TypeOK
<1>8. QED
    BY <1>4, <1>5, <1>6, <1>7 DEF StartWebsocket, TypeOK, slots

\* A frame that is passed on keeps the types.
LEMMA TypeOKRelayFrame ==
    ASSUME TypeOK, NEW from \in Directions, NEW frame \in Frames, RelayFrame(from, frame)
    PROVE  TypeOK'
<1> DEFINE to == Opposite(from)
<1>1. to \in Directions
    BY DEF Opposite, Directions
<1>2. Send(frame) \in Commands
    BY DEF Send, Commands
<1>3. CASE socket[to] # NoOne
    <2>1. /\ inbox' = [inbox EXCEPT ![socket[to]] = Append(@, Send(frame))]
          /\ held' = held
        BY <1>3 DEF RelayFrame
    <2>2. inbox' \in [Peers -> Seq(Commands)]
        BY <1>1, <1>2, <1>3, <2>1 DEF TypeOK
    <2>3. QED
        BY <2>1, <2>2 DEF RelayFrame, TypeOK, slots
<1>4. CASE socket[to] = NoOne
    <2>1. held' = HeldWith(to, frame) /\ inbox' = inbox
        BY <1>4 DEF RelayFrame
    <2>2. HeldWith(to, frame) \in [Directions -> Seq(Frames)]
        BY <1>1 DEF HeldWith, TypeOK
    <2>3. QED
        BY <2>1, <2>2 DEF RelayFrame, TypeOK, slots
<1>5. QED
    BY <1>3, <1>4

\* The notices of disconnection keep the types.
LEMMA TypeOKDisconnected ==
    ASSUME TypeOK,
           \/ \E d \in Downloads, completed \in BOOLEAN : DownloaderDisconnected(d, completed)
           \/ \E u \in Uploads : UploaderDisconnected(u)
           \/ \E w \in Peers : WebsocketDisconnected(w)
    PROVE  TypeOK'
<1>1. ASSUME NEW d \in Downloads, NEW completed \in BOOLEAN,
             DownloaderDisconnected(d, completed)
      PROVE  TypeOK'
    <2>1. downloader' \in DownloaderSlots /\ running' \in BOOLEAN
        BY <1>1 DEF DownloaderDisconnected, TypeOK, DownloaderSlots
    <2>2. QED
        BY <1>1, <2>1 DEF DownloaderDisconnected, TypeOK, signaling
<1>2. ASSUME NEW u \in Uploads, UploaderDisconnected(u)
      PROVE  TypeOK'
    <2>1. uploader' \in UploaderSlots /\ pending' \in Pendings /\ running' \in BOOLEAN
        BY <1>2 DEF UploaderDisconnected, TypeOK, UploaderSlots, Pendings
    <2>2. QED
        BY <1>2, <2>1 DEF UploaderDisconnected, TypeOK, signaling
<1>3. ASSUME NEW w \in Peers, WebsocketDisconnected(w)
      PROVE  TypeOK'
    BY <1>3 DEF WebsocketDisconnected, TypeOK, slots
<1>4. QED
    BY <1>1, <1>2, <1>3

\* Taking from a channel keeps the types.
LEMMA TypeOKTake ==
    ASSUME TypeOK,
           \/ \E h \in Callers : TakeAnswer(h)
           \/ \E d \in Downloads : TakeEvent(d)
           \/ \E w \in Peers : TakeCommand(w)
    PROVE  TypeOK'
<1>1. ASSUME NEW h \in Callers, TakeAnswer(h)
      PROVE  TypeOK'
    BY <1>1 DEF TakeAnswer, TypeOK, Answers, slots, signaling
<1>2. ASSUME NEW d \in Downloads, TakeEvent(d)
      PROVE  TypeOK'
    <2>1. Tail(events[d]) \in Seq(Events)
        BY <1>2 DEF TakeEvent, TypeOK
    <2>2. QED
        BY <1>2, <2>1 DEF TakeEvent, TypeOK, slots, signaling
<1>3. ASSUME NEW w \in Peers, TakeCommand(w)
      PROVE  TypeOK'
    <2>1. Tail(inbox[w]) \in Seq(Commands)
        BY <1>3 DEF TakeCommand, TypeOK
    <2>2. QED
        BY <1>3, <2>1 DEF TakeCommand, TypeOK, slots, signaling
<1>4. QED
    BY <1>1, <1>2, <1>3

\* Every step of the session and of its environment keeps the session typed.
LEMMA TypeStep ==
    ASSUME TypeOK, [Next]_vars
    PROVE  TypeOK'
<1>1. ASSUME NEW c \in Checks, NEW p \in Positions, CheckStartUpload(c, p)
      PROVE  TypeOK'
    <2>1. StartPositionError(p) \in Answers /\ Ok \in Answers
        BY StartPositionErrorType, SizesAreNatural DEF Positions, Answers
    <2>2. QED
        BY <1>1, <2>1, AnswersWithType DEF CheckStartUpload, TypeOK, slots, signaling
<1>2. ASSUME NEW u \in Uploads, NEW chunk \in ChunksFor(u), UploadData(u, chunk)
      PROVE  TypeOK'
    BY <1>2, TypeOKUploadData DEF ChunksFor
<1>3. CASE UNCHANGED vars
    BY <1>3 DEF vars, TypeOK
<1>4. QED
    BY <1>1, <1>2, <1>3, TypeOKStartDownload, TypeOKFinishDownload, TypeOKStartUpload,
       TypeOKFlushUpload, TypeOKStartWebsocket, TypeOKRelayFrame, TypeOKDisconnected,
       TypeOKTake
    DEF Next

\* A new session is typed.
LEMMA InitType ==
    ASSUME Init
    PROVE  TypeOK
BY DEF Init, TypeOK, DownloaderSlots, UploaderSlots, Pendings, Answers

\* Whatever commands arrive, in whatever order, the session's state and its
\* channels only ever hold what their Rust types allow.
THEOREM TypeCorrect == Spec => []TypeOK
<1>1. Init => TypeOK
    BY InitType
<1>2. TypeOK /\ [Next]_vars => TypeOK'
    BY TypeStep
<1>3. QED
    BY <1>1, <1>2, PTL DEF Spec

-----------------------------------------------------------------------------
(* Positions: the three facts that keep the content of a file contiguous.   *)
(* Each is inductive only with the others: a queued chunk is fed to a        *)
(* download that starts, after which the uploader has to agree with it.     *)

PositionsInv == TypeOK /\ QueuedOnlyWhenAbsent /\ PositionsAgree /\ QueueIsContinued

Positional == QueuedOnlyWhenAbsent /\ PositionsAgree /\ QueueIsContinued

\* What a download that starts leaves: nothing queued, and an uploader that is
\* at its position or has an error to resume from.
LEMMA PositionsStartDownload ==
    ASSUME PositionsInv, NEW d \in Downloads, NEW p \in Positions, StartDownload(d, p)
    PROVE  Positional'
<1> DEFINE at == PositionAfterQueued(p)
<1>1. pending' = PendingAfterDownload(at) /\ downloader' = Connected(d, at)
        /\ uploader' = uploader
    BY DEF StartDownload
<1>2. pending'.tag # "Data"
    BY <1>1 DEF PendingAfterDownload, Error, NoPending
<1>3. pending'.tag = "None" => ~Behind(at)
    BY <1>1 DEF PendingAfterDownload, Error
<1>4. PositionsAgree'
    BY <1>1, <1>3 DEF Behind, PositionsAgree, Connected
<1>5. QED
    BY <1>2, <1>4 DEF Positional, QueuedOnlyWhenAbsent, QueueIsContinued

\* `bytes=-0` leaves no uploader behind a queued chunk.
LEMMA PositionsFinishDownload ==
    ASSUME PositionsInv, NEW f \in Finishes, FinishDownload(f)
    PROVE  Positional'
<1>1. downloader'.tag # "Connected"
    BY DEF FinishDownload, Complete
<1>2. QueueIsContinued'
    <2>1. CASE uploader.tag = "Some" /\ pending.tag = "Data"
        BY <2>1 DEF FinishDownload, NoUploader, QueueIsContinued
    <2>2. CASE uploader.tag = "Some" /\ pending.tag # "Data"
        BY <2>2 DEF FinishDownload, PendingAfterTermination, Error, QueueIsContinued
    <2>3. CASE uploader.tag # "Some"
        BY <2>3 DEF FinishDownload, QueueIsContinued
    <2>4. QED
        BY <2>1, <2>2, <2>3
<1>3. QED
    BY <1>1, <1>2 DEF Positional, QueuedOnlyWhenAbsent, PositionsAgree

\* An upload only starts where check_start_position lets it.
LEMMA PositionsStartUpload ==
    ASSUME PositionsInv, NEW u \in Uploads, NEW p \in Positions, StartUpload(u, p)
    PROVE  Positional'
<1> DEFINE left == IF uploader.tag = "Some"
                     THEN PendingAfterTermination(ConnectionReplaced) ELSE pending
<1>1. downloader' = downloader
    BY DEF StartUpload
<1>2. /\ pending'.tag = "Data" => pending.tag = "Data"
      /\ pending'.tag = "Data" => /\ pending'.position = pending.position
                                  /\ pending'.chunk = pending.chunk
    <2>1. left.tag = "Data" => /\ pending.tag = "Data"
                               /\ left.position = pending.position
                               /\ left.chunk = pending.chunk
        <3>1. CASE uploader.tag = "Some" /\ pending.tag = "Data"
            BY <3>1, QueuedChunkType DEF PositionsInv, PendingAfterTermination, Data
        <3>2. CASE uploader.tag = "Some" /\ pending.tag # "Data"
            BY <3>2 DEF PendingAfterTermination, Error
        <3>3. CASE uploader.tag # "Some"
            BY <3>3
        <3>4. QED
            BY <3>1, <3>2, <3>3
    <2>2. pending' = left \/ pending' = NoPending
        BY DEF StartUpload
    <2>3. QED
        BY <2>1, <2>2 DEF NoPending
<1>3. CASE StartPositionError(p) = Ok
    <2>1. uploader' = Uploader(u, p)
        BY <1>3 DEF StartUpload
    <2>2. downloader.tag = "Connected" => p = downloader.position
        BY <1>3 DEF StartPositionError, AtPosition, Ok
    <2>3. pending.tag = "Data" => p = pending.position + pending.chunk.size
        BY <1>3 DEF StartPositionError, AtPosition, Ok, PositionsInv, QueuedOnlyWhenAbsent
    <2>4. QED
        BY <1>1, <1>2, <2>1, <2>2, <2>3
        DEF Positional, PositionsInv, QueuedOnlyWhenAbsent, PositionsAgree,
            QueueIsContinued, Uploader
<1>4. CASE StartPositionError(p) # Ok
    <2>1. uploader'.tag # "Some"
        BY <1>4 DEF StartUpload, NoUploader
    <2>2. QED
        BY <1>1, <1>2, <2>1
        DEF Positional, PositionsInv, QueuedOnlyWhenAbsent, PositionsAgree, QueueIsContinued
<1>5. QED
    BY <1>3, <1>4

\* A chunk moves the uploader and the download together, or is queued with
\* the uploader right behind it.
LEMMA PositionsUploadData ==
    ASSUME PositionsInv, NEW u \in Uploads, NEW chunk \in Chunks, UploadData(u, chunk)
    PROVE  Positional'
<1>1. CASE UNCHANGED slots
    BY <1>1 DEF slots, Positional, PositionsInv, QueuedOnlyWhenAbsent, PositionsAgree,
                QueueIsContinued
<1>2. CASE /\ IsUploader(u)
           /\ uploader' = [uploader EXCEPT !.position = @ + chunk.size]
           /\ downloader.tag = "Connected"
           /\ downloader' = [downloader EXCEPT !.position = uploader.position + chunk.size]
           /\ pending' = pending
           /\ pending.tag = "None"
    <2>1. downloader' = Connected(downloader.token, uploader.position + chunk.size)
        BY <1>2, DownloaderType DEF PositionsInv, Connected
    <2>2. uploader' = Uploader(uploader.token, uploader.position + chunk.size)
        BY <1>2, UploaderType DEF PositionsInv, IsUploader, Uploader
    <2>3. QED
        BY <1>2, <2>1, <2>2 DEF Positional, QueuedOnlyWhenAbsent, PositionsAgree,
                                QueueIsContinued, Connected, Uploader
<1>3. CASE /\ IsUploader(u)
           /\ uploader' = [uploader EXCEPT !.position = @ + chunk.size]
           /\ downloader.tag # "Connected"
           /\ downloader' = downloader
           /\ pending' = Data(chunk, u, uploader.position)
    <2>1. uploader' = Uploader(uploader.token, uploader.position + chunk.size)
        BY <1>3, UploaderType DEF PositionsInv, IsUploader, Uploader
    <2>2. QED
        BY <1>3, <2>1 DEF Positional, QueuedOnlyWhenAbsent, PositionsAgree,
                          QueueIsContinued, Data, Uploader
<1>4. QED
    BY <1>1, <1>2, <1>3 DEF UploadData

\* A flush only changes who waits for the queued chunk.
LEMMA PositionsFlushUpload ==
    ASSUME PositionsInv, NEW u \in Uploads, FlushUpload(u)
    PROVE  Positional'
<1>1. uploader' = uploader /\ downloader' = downloader
    BY DEF FlushUpload
<1>2. CASE pending' = pending
    BY <1>1, <1>2 DEF Positional, PositionsInv, QueuedOnlyWhenAbsent, PositionsAgree,
                      QueueIsContinued
<1>3. CASE pending.tag = "Data" /\ pending' = [pending EXCEPT !.waiter = u]
    <2>1. pending' = Data(pending.chunk, u, pending.position)
        BY <1>3, QueuedChunkType DEF PositionsInv, Data
    <2>2. QED
        BY <1>1, <1>3, <2>1 DEF Positional, PositionsInv, QueuedOnlyWhenAbsent,
                                PositionsAgree, QueueIsContinued, Data
<1>4. QED
    BY <1>2, <1>3 DEF FlushUpload

\* A disconnect empties a slot, and no queued chunk with it.
LEMMA PositionsDisconnected ==
    ASSUME PositionsInv,
           \/ \E d \in Downloads, completed \in BOOLEAN : DownloaderDisconnected(d, completed)
           \/ \E u \in Uploads : UploaderDisconnected(u)
    PROVE  Positional'
<1>1. ASSUME NEW d \in Downloads, NEW completed \in BOOLEAN,
             DownloaderDisconnected(d, completed)
      PROVE  Positional'
    <2>1. downloader' = downloader \/ downloader'.tag # "Connected"
        BY <1>1 DEF DownloaderDisconnected, Complete, Absent
    <2>2. QED
        BY <1>1, <2>1 DEF DownloaderDisconnected, Positional, PositionsInv,
                          QueuedOnlyWhenAbsent, PositionsAgree, QueueIsContinued
<1>2. ASSUME NEW u \in Uploads, UploaderDisconnected(u)
      PROVE  Positional'
    <2>1. downloader' = downloader
        BY <1>2 DEF UploaderDisconnected
    <2>2. CASE IsUploader(u)
        <3>1. uploader' = NoUploader
            BY <1>2, <2>2, Zenon DEF UploaderDisconnected
        <3>2. pending' = pending \/ pending' = NoPending
            BY <1>2, <2>2, Zenon DEF UploaderDisconnected
        <3>3. QED
            BY <2>1, <3>1, <3>2 DEF Positional, PositionsInv, QueuedOnlyWhenAbsent,
                                    PositionsAgree, QueueIsContinued, NoPending,
                                    NoUploader
    <2>3. CASE ~IsUploader(u)
        BY <1>2, <2>1, <2>3 DEF UploaderDisconnected, Positional, PositionsInv,
                                QueuedOnlyWhenAbsent, PositionsAgree, QueueIsContinued
    <2>4. QED
        BY <2>2, <2>3
<1>3. QED
    BY <1>1, <1>2

\* However uploads and downloads start, break off, replace each other and
\* resume: nothing is queued while a download is connected, an uploader
\* continues the chunk that is queued, and with no error pending it is at the
\* position of the connected download (the debug_assert of upload_data).
THEOREM PositionsCorrect ==
    Spec => [](QueuedOnlyWhenAbsent /\ PositionsAgree /\ QueueIsContinued)
<1>1. Init => Positional
    BY DEF Init, Positional, QueuedOnlyWhenAbsent, PositionsAgree, QueueIsContinued,
           NoUploader, Absent
<1>2. PositionsInv /\ [Next]_vars => Positional'
    <2> SUFFICES ASSUME PositionsInv, [Next]_vars
                 PROVE  Positional'
        OBVIOUS
    <2>1. CASE UNCHANGED slots
        BY <2>1 DEF slots, Positional, PositionsInv, QueuedOnlyWhenAbsent, PositionsAgree,
                    QueueIsContinued
    <2>2. ASSUME NEW u \in Uploads, NEW chunk \in ChunksFor(u), UploadData(u, chunk)
          PROVE  Positional'
        BY <2>2, PositionsUploadData DEF ChunksFor
    <2>3. CASE UNCHANGED vars
        BY <2>1, <2>3 DEF vars, slots
    <2>4. (\E c \in Checks, p \in Positions : CheckStartUpload(c, p)) => UNCHANGED slots
        BY DEF CheckStartUpload
    <2>5. (\E w \in Peers : StartWebsocket(w) \/ WebsocketDisconnected(w) \/ TakeCommand(w))
             => UNCHANGED slots
        BY DEF StartWebsocket, WebsocketDisconnected, TakeCommand
    <2>6. (\E dir \in Directions, frame \in Frames : RelayFrame(dir, frame))
             => UNCHANGED slots
        BY DEF RelayFrame
    <2>7. (\E h \in Callers : TakeAnswer(h)) \/ (\E d \in Downloads : TakeEvent(d))
             => UNCHANGED slots
        BY DEF TakeAnswer, TakeEvent
    <2>8. QED
        BY <2>1, <2>2, <2>3, <2>4, <2>5, <2>6, <2>7, PositionsStartDownload,
           PositionsFinishDownload, PositionsStartUpload, PositionsFlushUpload,
           PositionsDisconnected
        DEF Next
<1>3. QED
    BY <1>1, <1>2, TypeCorrect, PTL DEF Spec, PositionsInv, Positional

\* An uploader that connects behind a queued chunk, its own or another's, and
\* whatever happens to that chunk, goes on exactly where the chunk ends.
THEOREM QueueContinues == Spec => []QueueIsContinued
BY PositionsCorrect, PTL

-----------------------------------------------------------------------------
(* Signaling: frames are held only for an absent peer.                      *)

\* Whatever frames are relayed and whichever websockets come, go and replace
\* each other, the session holds frames only for a direction that has no
\* websocket, and never more than MAX_HELD_FRAMES of them.
THEOREM HeldCorrect == Spec => []HeldOnlyForAbsentPeers
<1>1. Init => HeldOnlyForAbsentPeers
    BY SizesAreNatural DEF Init, HeldOnlyForAbsentPeers
<1>2. TypeOK /\ HeldOnlyForAbsentPeers /\ [Next]_vars => HeldOnlyForAbsentPeers'
    <2> SUFFICES ASSUME TypeOK, HeldOnlyForAbsentPeers, [Next]_vars
                 PROVE  HeldOnlyForAbsentPeers'
        OBVIOUS
    <2>1. CASE UNCHANGED signaling
        BY <2>1 DEF signaling, HeldOnlyForAbsentPeers
    <2>2. ASSUME NEW w \in Peers, StartWebsocket(w)
          PROVE  HeldOnlyForAbsentPeers'
        <3> DEFINE dir == DirectionOf(w)
        <3>1. dir \in Directions
            BY DEF DirectionOf, Directions
        <3>2. /\ socket' = [socket EXCEPT ![dir] = w]
              /\ held' = [held EXCEPT ![dir] = <<>>]
            BY <2>2 DEF StartWebsocket, HeldTaken
        <3>3. QED
            BY <3>1, <3>2, SizesAreNatural DEF HeldOnlyForAbsentPeers, TypeOK
    <2>3. ASSUME NEW from \in Directions, NEW frame \in Frames, RelayFrame(from, frame)
          PROVE  HeldOnlyForAbsentPeers'
        <3> DEFINE to == Opposite(from)
        <3>1. to \in Directions /\ socket' = socket
            BY <2>3 DEF Opposite, Directions, RelayFrame
        <3>2. held' = held \/ ( /\ socket[to] = NoOne
                                /\ Len(held[to]) # MaxHeld
                                /\ held' = [held EXCEPT ![to] = Append(@, frame)] )
            BY <2>3 DEF RelayFrame, HeldWith
        <3>3. CASE held' = held
            BY <3>1, <3>3 DEF HeldOnlyForAbsentPeers
        <3>4. CASE /\ socket[to] = NoOne
                   /\ Len(held[to]) # MaxHeld
                   /\ held' = [held EXCEPT ![to] = Append(@, frame)]
            <4>1. held[to] \in Seq(Frames) /\ Len(held[to]) < MaxHeld
                BY <3>1, <3>4, SizesAreNatural DEF HeldOnlyForAbsentPeers, TypeOK
            <4>2. Len(held'[to]) <= MaxHeld
                BY <3>1, <3>4, <4>1, SizesAreNatural DEF TypeOK
            <4>3. QED
                BY <3>1, <3>4, <4>2 DEF HeldOnlyForAbsentPeers, TypeOK
        <3>5. QED
            BY <3>2, <3>3, <3>4
    <2>4. ASSUME NEW w \in Peers, WebsocketDisconnected(w)
          PROVE  HeldOnlyForAbsentPeers'
        BY <2>4 DEF WebsocketDisconnected, HeldOnlyForAbsentPeers
    <2>5. ASSUME NEW h \in Callers,
                 \/ \E p \in Positions : StartDownload(h, p) \/ CheckStartUpload(h, p)
                                            \/ StartUpload(h, p)
                 \/ FinishDownload(h) \/ FlushUpload(h)
                 \/ \E chunk \in ChunksFor(h) : UploadData(h, chunk)
                 \/ \E completed \in BOOLEAN : DownloaderDisconnected(h, completed)
                 \/ UploaderDisconnected(h)
                 \/ TakeAnswer(h) \/ TakeEvent(h) \/ TakeCommand(h)
          PROVE  UNCHANGED signaling
        BY <2>5 DEF StartDownload, CheckStartUpload, StartUpload, FinishDownload,
                    FlushUpload, UploadData, DownloaderDisconnected,
                    UploaderDisconnected, TakeAnswer, TakeEvent, TakeCommand
    <2>6. CASE UNCHANGED vars
        BY <2>1, <2>6 DEF vars, signaling
    <2>7. QED
        BY <2>1, <2>2, <2>3, <2>4, <2>5, <2>6 DEF Next, Callers
<1>3. QED
    BY <1>1, <1>2, TypeCorrect, PTL DEF Spec

-----------------------------------------------------------------------------
(* Downloads: one that was replaced is never fed again.  A download that has *)
(* not started has no events, so none is registered twice.                  *)

DownloadsStartFresh ==
    \A d \in Downloads : d \notin started => events[d] = <<>> /\ ~IsConnected(d)

DownloadsInv == TypeOK /\ ReplacedIsLast /\ DownloadsStartFresh

\* The download that is connected gets ConnectionReplaced as its last event,
\* and the others keep theirs.
LEMMA ReplacingIsLast ==
    ASSUME DownloadsInv, NEW d \in Downloads,
           NEW i \in 1..Len(EventsAfterReplacing[d]), EventsAfterReplacing[d][i] = Replaced
    PROVE  i = Len(EventsAfterReplacing[d])
<1>1. events[d] \in Seq(Events)
    BY DEF DownloadsInv, TypeOK
<1>2. CASE IsConnected(d)
    <2>1. EventsAfterReplacing[d] = Append(events[d], Replaced)
        BY <1>2 DEF EventsAfterReplacing
    <2>2. \A j \in 1..Len(events[d]) : events[d][j] # Replaced
        BY <1>2 DEF DownloadsInv, ReplacedIsLast
    <2>3. QED
        BY <1>1, <2>1, <2>2
<1>3. CASE ~IsConnected(d)
    BY <1>3 DEF DownloadsInv, ReplacedIsLast, EventsAfterReplacing
<1>4. QED
    BY <1>2, <1>3

\* The properties of one download, to show them for each in turn.
ReplacedIsLastOf(d) ==
    \A i \in 1..Len(events[d]) :
        events[d][i] = Replaced => i = Len(events[d]) /\ ~IsConnected(d)

FreshOf(d) == d \notin started => events[d] = <<>> /\ ~IsConnected(d)

\* A download that starts is fresh, and the one it replaces is told as its last event.
LEMMA DownloadsStartDownload ==
    ASSUME DownloadsInv, NEW c \in Downloads, c \notin started,
           NEW p \in Positions, StartDownload(c, p), NEW d \in Downloads
    PROVE  ReplacedIsLastOf(d)' /\ FreshOf(d)'
<1>1. /\ started' = started \cup {c}
      /\ downloader' = Connected(c, PositionAfterQueued(p))
      /\ events' = [EventsAfterReplacing EXCEPT
                       ![c] = IF Meets(p) THEN Append(@, Bytes(pending.chunk)) ELSE @]
    BY DEF StartDownload
<1>2. EventsAfterReplacing \in [Downloads -> Seq(Events)]
    BY EventsAfterReplacingType DEF DownloadsInv
<1>3. CASE d = c
    <2>1. EventsAfterReplacing[d] = <<>>
        BY <1>3 DEF DownloadsInv, DownloadsStartFresh, EventsAfterReplacing
    <2>2. events'[d] = <<>> \/ events'[d] = <<Bytes(pending.chunk)>>
        BY <1>1, <1>2, <1>3, <2>1
    <2>3. Bytes(pending.chunk) # Replaced
        BY DEF Bytes, Replaced
    <2>4. QED
        BY <1>1, <1>3, <2>2, <2>3 DEF ReplacedIsLastOf, FreshOf
<1>4. CASE d # c
    <2>1. events'[d] = EventsAfterReplacing[d] /\ ~IsConnected(d)'
        BY <1>1, <1>2, <1>4 DEF IsConnected, Connected
    <2>2. ReplacedIsLastOf(d)'
        BY <2>1, ReplacingIsLast DEF ReplacedIsLastOf
    <2>3. FreshOf(d)'
        BY <1>1, <1>4, <2>1 DEF FreshOf, DownloadsInv, DownloadsStartFresh,
                                EventsAfterReplacing
    <2>4. QED
        BY <2>2, <2>3
<1>5. QED
    BY <1>3, <1>4

\* finish_download replaces the download that is connected, which is told as its last event.
LEMMA DownloadsFinishDownload ==
    ASSUME DownloadsInv, NEW f \in Finishes, FinishDownload(f), NEW d \in Downloads
    PROVE  ReplacedIsLastOf(d)' /\ FreshOf(d)'
<1>1. events' = EventsAfterReplacing /\ started' = started /\ ~IsConnected(d)'
    BY DEF FinishDownload, IsConnected, Complete
<1>2. ReplacedIsLastOf(d)'
    BY <1>1, ReplacingIsLast DEF ReplacedIsLastOf
<1>3. FreshOf(d)'
    BY <1>1 DEF FreshOf, DownloadsInv, DownloadsStartFresh, EventsAfterReplacing
<1>4. QED
    BY <1>2, <1>3

\* A chunk goes to the connected download only, which was not replaced.
LEMMA DownloadsUploadData ==
    ASSUME DownloadsInv, NEW u \in Uploads, NEW chunk \in Chunks, UploadData(u, chunk),
           NEW d \in Downloads
    PROVE  ReplacedIsLastOf(d)' /\ FreshOf(d)'
<1>1. started' = started
    BY DEF UploadData
<1>2. CASE events' = events /\ downloader' = downloader
    BY <1>1, <1>2 DEF ReplacedIsLastOf, FreshOf, DownloadsInv, ReplacedIsLast,
                      DownloadsStartFresh, IsConnected
<1>3. CASE /\ downloader.tag = "Connected"
           /\ downloader' = [downloader EXCEPT !.position = uploader.position + chunk.size]
           /\ events' = [events EXCEPT ![downloader.token] = Append(@, Bytes(chunk))]
    <2>1. downloader' = Connected(downloader.token, uploader.position + chunk.size)
        BY <1>3, DownloaderType DEF DownloadsInv, Connected
    <2>2. IsConnected(d)' <=> IsConnected(d)
        BY <1>3, <2>1 DEF IsConnected, Connected
    <2>3. events[d] \in Seq(Events)
        BY DEF DownloadsInv, TypeOK
    <2>4. CASE IsConnected(d)
        <3>1. events'[d] = Append(events[d], Bytes(chunk)) /\ d \in started
            BY <1>3, <2>4 DEF IsConnected, DownloadsInv, TypeOK, DownloadsStartFresh
        <3>2. \A i \in 1..Len(events[d]) : events[d][i] # Replaced
            BY <2>4 DEF DownloadsInv, ReplacedIsLast
        <3>3. Bytes(chunk) # Replaced
            BY DEF Bytes, Replaced
        <3>4. \A i \in 1..Len(events'[d]) : events'[d][i] # Replaced
            BY <2>3, <3>1, <3>2, <3>3
        <3>5. QED
            BY <1>1, <3>1, <3>4 DEF ReplacedIsLastOf, FreshOf
    <2>5. CASE ~IsConnected(d)
        <3>1. events'[d] = events[d]
            BY <1>3, <2>5 DEF IsConnected, DownloadsInv, TypeOK
        <3>2. QED
            BY <1>1, <2>2, <2>5, <3>1 DEF ReplacedIsLastOf, FreshOf, DownloadsInv,
                                          ReplacedIsLast, DownloadsStartFresh
    <2>6. QED
        BY <2>4, <2>5
<1>4. QED
    BY <1>2, <1>3 DEF UploadData, slots

\* An event that is taken from the front leaves the last one in place.
LEMMA DownloadsTakeEvent ==
    ASSUME DownloadsInv, NEW c \in Downloads, TakeEvent(c), NEW d \in Downloads
    PROVE  ReplacedIsLastOf(d)' /\ FreshOf(d)'
<1>1. /\ events[c] # <<>>
      /\ events' = [events EXCEPT ![c] = Tail(@)]
      /\ started' = started /\ (IsConnected(d)' <=> IsConnected(d))
    BY DEF TakeEvent, slots, IsConnected
<1>2. events[d] \in Seq(Events)
    BY DEF DownloadsInv, TypeOK
<1>3. CASE d = c
    <2> DEFINE left == Tail(events[d])
    <2>1. events'[d] = left
        BY <1>1, <1>3 DEF DownloadsInv, TypeOK
    <2>2. /\ Len(left) = Len(events[d]) - 1
          /\ \A i \in 1..Len(left) : /\ i + 1 \in 1..Len(events[d])
                                     /\ left[i] = events[d][i + 1]
        <3>1. events[d] # <<>>
            BY <1>1, <1>3
        <3>2. QED
            BY <1>2, <3>1
    <2>3. ReplacedIsLastOf(d)'
        BY <1>1, <1>2, <2>1, <2>2 DEF ReplacedIsLastOf, DownloadsInv, ReplacedIsLast
    <2>4. QED
        BY <1>1, <1>3, <2>3 DEF FreshOf, DownloadsInv, DownloadsStartFresh
<1>4. CASE d # c
    <2>1. events'[d] = events[d]
        BY <1>1, <1>4 DEF DownloadsInv, TypeOK
    <2>2. QED
        BY <1>1, <2>1 DEF ReplacedIsLastOf, FreshOf, DownloadsInv, ReplacedIsLast,
                          DownloadsStartFresh
<1>5. QED
    BY <1>3, <1>4

\* Every other command leaves the events alone and connects no download.
LEMMA DownloadsUntouched ==
    ASSUME DownloadsInv, events' = events, started \subseteq started',
           downloader' = downloader \/ downloader'.tag # "Connected", NEW d \in Downloads
    PROVE  ReplacedIsLastOf(d)' /\ FreshOf(d)'
<1>1. IsConnected(d)' => IsConnected(d)
    BY DEF IsConnected
<1>2. QED
    BY <1>1 DEF ReplacedIsLastOf, FreshOf, DownloadsInv, ReplacedIsLast,
                DownloadsStartFresh

\* A download is fed until it is told that it was replaced, and one that has not
\* started is not fed at all.
LEMMA DownloadsCorrect == Spec => [](ReplacedIsLast /\ DownloadsStartFresh)
<1>1. Init => ReplacedIsLast /\ DownloadsStartFresh
    BY DEF Init, ReplacedIsLast, DownloadsStartFresh, IsConnected, Absent
<1>2. DownloadsInv /\ [Next]_vars => (ReplacedIsLast /\ DownloadsStartFresh)'
    <2> SUFFICES ASSUME DownloadsInv, [Next]_vars
                 PROVE  (ReplacedIsLast /\ DownloadsStartFresh)'
        OBVIOUS
    <2> SUFFICES ASSUME NEW d \in Downloads
                 PROVE  ReplacedIsLastOf(d)' /\ FreshOf(d)'
        BY DEF ReplacedIsLast, DownloadsStartFresh, ReplacedIsLastOf, FreshOf
    <2> DEFINE Untouched == /\ events' = events /\ started \subseteq started'
                            /\ downloader' = downloader \/ downloader'.tag # "Connected"
    <2>1. CASE Untouched
        BY <2>1, DownloadsUntouched
    <2>2. ASSUME NEW u \in Uploads, NEW chunk \in ChunksFor(u), UploadData(u, chunk)
          PROVE  ReplacedIsLastOf(d)' /\ FreshOf(d)'
        BY <2>2, DownloadsUploadData DEF ChunksFor
    <2>3. ASSUME NEW h \in Callers,
                 \/ \E p \in Positions : CheckStartUpload(h, p) \/ StartUpload(h, p)
                 \/ FlushUpload(h) \/ UploaderDisconnected(h)
                 \/ \E completed \in BOOLEAN : DownloaderDisconnected(h, completed)
                 \/ StartWebsocket(h) \/ WebsocketDisconnected(h)
                 \/ TakeAnswer(h) \/ TakeCommand(h)
          PROVE  Untouched
        BY <2>3 DEF CheckStartUpload, StartUpload, FlushUpload, UploaderDisconnected,
                    DownloaderDisconnected, StartWebsocket, WebsocketDisconnected,
                    TakeAnswer, TakeCommand, slots, Absent, Complete
    <2>4. ASSUME NEW dir \in Directions, NEW frame \in Frames, RelayFrame(dir, frame)
          PROVE  Untouched
        BY <2>4 DEF RelayFrame, slots
    <2>5. CASE UNCHANGED vars
        BY <2>5, <2>1 DEF vars
    <2>6. QED
        BY <2>1, <2>2, <2>3, <2>4, <2>5, DownloadsStartDownload, DownloadsFinishDownload,
           DownloadsTakeEvent
        DEF Next, Callers
<1>3. QED
    BY <1>1, <1>2, TypeCorrect, PTL DEF Spec, DownloadsInv

\* Nothing follows ConnectionReplaced on a download's channel, in whatever
\* order downloads start, are replaced, disconnect and read their events.
THEOREM ReplacedCorrect == Spec => []ReplacedIsLast
BY DownloadsCorrect, PTL

-----------------------------------------------------------------------------
(* Errors: the one that is queued is for the uploader that is connected.    *)

\* No error outlives the uploader it is meant for, so none ends the upload of
\* its successor; only a failed takeover leaves the error that says so.
THEOREM QueuedErrorCorrect == Spec => []QueuedErrorHasAReader
<1>1. Init => QueuedErrorHasAReader
    BY DEF Init, QueuedErrorHasAReader, NoPending
<1>2. TypeOK /\ QueuedErrorHasAReader /\ [Next]_vars => QueuedErrorHasAReader'
    <2> SUFFICES ASSUME TypeOK, QueuedErrorHasAReader, [Next]_vars
                 PROVE  QueuedErrorHasAReader'
        OBVIOUS
    <2>1. CASE running' = running /\ uploader' = uploader /\ pending' = pending
        BY <2>1 DEF QueuedErrorHasAReader
    <2>2. ASSUME NEW d \in Downloads, NEW p \in Positions, StartDownload(d, p)
          PROVE  QueuedErrorHasAReader'
        BY <2>2 DEF StartDownload, PendingAfterDownload, Behind, QueuedErrorHasAReader,
                    NoPending
    <2>3. ASSUME NEW f \in Finishes, FinishDownload(f)
          PROVE  QueuedErrorHasAReader'
        BY <2>3, Zenon DEF FinishDownload, QueuedErrorHasAReader
    <2>4. ASSUME NEW u \in Uploads, NEW p \in Positions, StartUpload(u, p)
          PROVE  QueuedErrorHasAReader'
        <3>1. CASE StartPositionError(p) = Ok
            BY <2>4, <3>1 DEF StartUpload, Uploader, QueuedErrorHasAReader
        <3>2. CASE StartPositionError(p) # Ok /\ uploader.tag = "Some"
            <4>1. pending' = PendingAfterTermination(ConnectionReplaced)
                BY <2>4, <3>2 DEF StartUpload
            <4>2. CASE pending.tag = "Data"
                <5>1. pending' = [pending EXCEPT !.waiter = NoOne]
                    BY <4>1, <4>2 DEF PendingAfterTermination
                <5>2. pending'.tag # "Error"
                    BY <4>2, <5>1
                <5>3. QED
                    BY <5>2 DEF QueuedErrorHasAReader
            <4>3. CASE pending.tag # "Data"
                BY <4>1, <4>3 DEF PendingAfterTermination, Error, QueuedErrorHasAReader
            <4>4. QED
                BY <4>2, <4>3
        <3>3. CASE StartPositionError(p) # Ok /\ uploader.tag # "Some"
            BY <2>4, <3>3 DEF StartUpload, QueuedErrorHasAReader
        <3>4. QED
            BY <3>1, <3>2, <3>3
    <2>5. ASSUME NEW u \in Uploads, NEW chunk \in ChunksFor(u), UploadData(u, chunk)
          PROVE  QueuedErrorHasAReader'
        <3>1. \/ running' = running /\ uploader' = uploader /\ pending' = pending
              \/ pending' = pending /\ pending.tag = "None"
              \/ pending' = Data(chunk, u, uploader.position)
            BY <2>5 DEF UploadData, slots
        <3>2. CASE pending' = Data(chunk, u, uploader.position)
            <4>1. pending'.tag # "Error"
                BY <3>2 DEF Data
            <4>2. QED
                BY <4>1 DEF QueuedErrorHasAReader
        <3>3. CASE pending' = pending /\ pending.tag = "None"
            BY <3>3 DEF QueuedErrorHasAReader
        <3>4. QED
            BY <2>1, <3>1, <3>2, <3>3
    <2>6. ASSUME NEW u \in Uploads, FlushUpload(u)
          PROVE  QueuedErrorHasAReader'
        <3>1. /\ running' = running /\ uploader' = uploader
              /\ pending' = pending \/ pending' = [pending EXCEPT !.waiter = u]
              /\ pending' = pending \/ pending.tag = "Data"
            BY <2>6 DEF FlushUpload
        <3>2. CASE pending' = pending
            BY <2>1, <3>1, <3>2
        <3>3. CASE pending.tag = "Data" /\ pending' = [pending EXCEPT !.waiter = u]
            <4>1. pending' = Data(pending.chunk, u, pending.position)
                BY <3>3, QueuedChunkType DEF Data
            <4>2. pending'.tag # "Error"
                BY <4>1 DEF Data
            <4>3. QED
                BY <4>2 DEF QueuedErrorHasAReader
        <3>4. QED
            BY <3>1, <3>2, <3>3
    <2>7. ASSUME NEW u \in Uploads, UploaderDisconnected(u)
          PROVE  QueuedErrorHasAReader'
        <3>1. CASE ~IsUploader(u)
            BY <2>7, <2>1, <3>1 DEF UploaderDisconnected
        <3>2. CASE IsUploader(u)
            <4>1. pending' = IF running' /\ pending.tag = "Error" THEN NoPending ELSE pending
                BY <2>7, <3>2, Zenon DEF UploaderDisconnected
            <4>2. QED
                BY <4>1 DEF NoPending, QueuedErrorHasAReader
        <3>3. QED
            BY <3>1, <3>2
    <2>8. ASSUME NEW d \in Downloads, NEW completed \in BOOLEAN,
                 DownloaderDisconnected(d, completed)
          PROVE  QueuedErrorHasAReader'
        BY <2>8, Zenon DEF DownloaderDisconnected, QueuedErrorHasAReader
    <2>9. ASSUME NEW h \in Callers,
                 \/ \E p \in Positions : CheckStartUpload(h, p)
                 \/ StartWebsocket(h) \/ WebsocketDisconnected(h)
                 \/ TakeAnswer(h) \/ TakeEvent(h) \/ TakeCommand(h)
          PROVE  running' = running /\ uploader' = uploader /\ pending' = pending
        BY <2>9 DEF CheckStartUpload, StartWebsocket, WebsocketDisconnected, TakeAnswer,
                    TakeEvent, TakeCommand, slots
    <2>10. ASSUME NEW dir \in Directions, NEW frame \in Frames, RelayFrame(dir, frame)
           PROVE  running' = running /\ uploader' = uploader /\ pending' = pending
        BY <2>10 DEF RelayFrame, slots
    <2>11. CASE UNCHANGED vars
        BY <2>1, <2>11 DEF vars
    <2>12. QED
        BY <2>1, <2>2, <2>3, <2>4, <2>5, <2>6, <2>7, <2>8, <2>9, <2>10, <2>11
        DEF Next, Callers
<1>3. QED
    BY <1>1, <1>2, TypeCorrect, PTL DEF Spec

=============================================================================
