---------------------------- MODULE RelayProofs ----------------------------
(* Theorems about module Relay: what its handlers ask of the session is what *)
(* Session allows, and no call and no guard is lost between them.           *)
EXTENDS Relay, SessionProofs, SequenceTheorems

Mails == 1..Len(mailbox)

\* The commands whose sender waits for an answer, and those that use a token
\* for the first time.
IsCall(m) == m.cmd \in {"StartDownload", "FinishDownload", "CheckStartUpload",
                        "StartUpload", "FlushUpload", "UploadData", "StartWebsocket"}
IsStart(m) == m.cmd \in {"StartDownload", "StartUpload", "StartWebsocket"}
Asked(h) == \E i \in Mails : IsCall(mailbox[i]) /\ mailbox[i].from = h

\* The handlers that are waiting for nothing.
Resting ==
    {u \in Uploads : uploads[u].pc \in {"Idle", "Reading"}}
        \cup {d \in Downloads : downloads[d].pc \in {"Idle", "Streaming"}}
        \cup {c \in Checks \cup Finishes : calls[c] = "Idle"}
        \cup {w \in Peers : peers[w].pc \in {"Idle", "Open"}}

-----------------------------------------------------------------------------
(* The invariant, by parts.                                                 *)

\* The handlers are typed, except that how far a download is says more than
\* its type (see RelayStreamProofs).
HandlersOK ==
    /\ mailbox \in Seq(Messages)
    /\ uploads \in [Uploads -> [pc : UploadPCs, next : Positions, last : BOOLEAN,
                                outcome : Answers \cup {Aborted}]]
    /\ downloads \in [Downloads -> [pc : DownloadPCs, next : Nat, completed : BOOLEAN]]
    /\ calls \in [Checks \cup Finishes -> {"Idle", "Waiting", "Done"}]
    /\ peers \in [Peers -> [pc : PeerPCs, sent : Nat, received : Seq(Commands)]]

\* A handler has one call at a time: in the mailbox, with the queued chunk, or
\* answered.
OneCall ==
    /\ \A i, j \in Mails :
          /\ IsCall(mailbox[i]) /\ IsCall(mailbox[j])
          /\ mailbox[i].from = mailbox[j].from
          => i = j
    /\ \A i \in Mails : IsCall(mailbox[i]) =>
          answers[mailbox[i].from] = NoAnswer /\ Waiter # mailbox[i].from
    /\ Waiter # NoOne => answers[Waiter] = NoAnswer
    /\ \A h \in Resting : answers[h] = NoAnswer /\ Waiter # h /\ ~Asked(h)

\* A token is used for one start.
StartsOnce ==
    /\ \A i \in Mails : IsStart(mailbox[i]) => mailbox[i].from \notin started
    /\ \A u \in Uploads : uploads[u].pc = "Idle" => u \notin started
    /\ \A d \in Downloads : downloads[d].pc = "Idle" => d \notin started
    /\ \A w \in Peers : peers[w].pc = "Idle" => w \notin started
    /\ ~running => mailbox = <<>>

\* A chunk lies in the file, and the one that says it is the last is.
Fits(chunk) ==
    /\ chunk.at + chunk.size <= FileSize
    /\ chunk.final <=> chunk.at + chunk.size = FileSize

\* What an upload has in the mailbox says where the upload is.
UploadMail(m) ==
    LET upload == uploads[m.from] IN
    /\ m.cmd = "StartUpload" /\ upload.pc # "Done" =>
          upload.pc = "Starting" /\ m.position = upload.next
    /\ m.cmd = "FlushUpload" => upload.pc \in {"Flushing", "Done"}
    /\ m.cmd = "UploadData" =>
          /\ Fits(m.chunk)
          /\ upload.pc # "Done" => /\ upload.pc = "Sending"
                                   /\ upload.next = m.chunk.at + m.chunk.size
                                   /\ upload.last = m.chunk.final
          /\ IsUploader(m.from) => uploader.position = m.chunk.at
    /\ m.cmd = "UploaderDisconnected" => upload.pc = "Done"

\* The session's uploader is where its handler is, once the session has taken
\* what the handler sent it.
UploaderIsAt(u) ==
    IsUploader(u) =>
        /\ u \in started
        /\ uploads[u].pc \in {"Starting", "Flushing", "Reading"}
              => uploader.position = uploads[u].next
        /\ /\ uploads[u].pc = "Sending" /\ ~Asked(u)
           /\ answers[u] = Ok \/ (running /\ answers[u] = NoAnswer)
           => uploader.position = uploads[u].next

UploadsOK ==
    /\ \A i \in Mails : UploadMail(mailbox[i])
    /\ \A u \in Uploads : UploaderIsAt(u)
    /\ \A u \in Uploads : uploads[u].last => uploads[u].pc = "Sending"

CallInv == TypeOK /\ HandlersOK /\ OneCall /\ StartsOnce /\ UploadsOK

-----------------------------------------------------------------------------
(* The mailbox.                                                             *)

\* What a message carries.
LEMMA MessageFields ==
    ASSUME NEW m \in Messages
    PROVE  /\ m.from \in Callers
           /\ m.cmd = "StartDownload" => m.from \in Downloads /\ m.position \in Positions
           /\ m.cmd = "DownloaderDisconnected" => m.from \in Downloads /\ m.completed \in BOOLEAN
           /\ m.cmd = "FinishDownload" => m.from \in Finishes
           /\ m.cmd = "CheckStartUpload" => m.from \in Checks /\ m.position \in Positions
           /\ m.cmd = "StartUpload" => m.from \in Uploads /\ m.position \in Positions
           /\ m.cmd \in {"FlushUpload", "UploaderDisconnected"} => m.from \in Uploads
           /\ m.cmd = "UploadData" => m.from \in Uploads /\ m.chunk \in Chunks
           /\ m.cmd \in {"StartWebsocket", "WebsocketDisconnected"} => m.from \in Peers
           /\ m.cmd = "WebsocketData" => m.from \in Peers /\ m.frame \in Frames
           /\ m.cmd \in {"StartDownload", "DownloaderDisconnected", "FinishDownload",
                         "CheckStartUpload", "StartUpload", "FlushUpload",
                         "UploaderDisconnected", "UploadData", "StartWebsocket",
                         "WebsocketDisconnected", "WebsocketData"}
BY DEF Messages, Callers

\* Post appends, as long as the session runs.
LEMMA Posted ==
    ASSUME mailbox \in Seq(Messages), NEW m \in Messages, Post(m)
    PROVE  /\ mailbox' \in Seq(Messages)
           /\ running => Len(mailbox) + 1 \in Mails' /\ mailbox'[Len(mailbox) + 1] = m
           /\ ~running => mailbox' = mailbox
           /\ \A i \in Mails : i \in Mails' /\ mailbox'[i] = mailbox[i]
           /\ \A i \in Mails' : \/ i \in Mails
                                \/ running /\ i = Len(mailbox) + 1
<1>1. CASE running
    BY <1>1, AppendProperties DEF Post, Mails
<1>2. CASE ~running
    BY <1>2 DEF Post, Mails
<1> QED
    BY <1>1, <1>2

\* Serve takes the oldest message, or all of them when the session ends.
LEMMA Served ==
    ASSUME mailbox \in Seq(Messages), Serve
    PROVE  /\ mailbox' \in Seq(Messages)
           /\ 1 \in Mails /\ Head(mailbox) = mailbox[1] /\ mailbox[1] \in Messages
           /\ ~running' => mailbox' = <<>> /\ Mails' = {}
           /\ \A i \in Mails' : i + 1 \in Mails /\ i + 1 # 1 /\ mailbox'[i] = mailbox[i + 1]
           /\ running' => \A i \in Mails \ {1} : i - 1 \in Mails' /\ mailbox'[i - 1] = mailbox[i]
<1>1. /\ mailbox # <<>>
      /\ mailbox' = IF running' THEN Tail(mailbox) ELSE <<>>
    BY DEF Serve
<1>2. Len(mailbox) \in Nat /\ Len(mailbox) > 0
    BY <1>1, EmptySeq, LenProperties
<1>3. Head(mailbox) = mailbox[1] /\ mailbox[1] \in Messages
    BY <1>1, <1>2, ElementOfSeq
<1>4. CASE running'
    <2>1. /\ mailbox' \in Seq(Messages)
          /\ Len(mailbox') = Len(mailbox) - 1
          /\ \A i \in 1..Len(mailbox') : mailbox'[i] = mailbox[i + 1]
        BY <1>1, <1>4, HeadTailProperties
    <2> QED
        BY <1>2, <1>3, <1>4, <2>1 DEF Mails
<1>5. CASE ~running'
    <2>1. mailbox' = <<>> /\ mailbox' \in Seq(Messages) /\ Len(mailbox') = 0
        BY <1>1, <1>5, EmptySeq
    <2> QED
        BY <1>2, <1>3, <1>5, <2>1 DEF Mails
<1> QED
    BY <1>4, <1>5

-----------------------------------------------------------------------------
(* What serving a command does to the calls.                                *)

\* The call of h is answered, or becomes the waiter of the queued chunk; the
\* waiter there was keeps waiting, or is answered; nobody else is told anything.
CallTaken(h) ==
    /\ \A x \in Callers \ {h} :
          \/ answers'[x] = answers[x] /\ (Waiter' = x <=> Waiter = x)
          \/ x = Waiter /\ Waiter' # x /\ answers'[x] # NoAnswer
    /\ answers'[h] = NoAnswer <=> Waiter' = h

\* A notice answers nobody.
NoticeTaken == answers' = answers /\ Waiter' = Waiter

\* The waiter is an upload.
LEMMA WaiterType ==
    ASSUME TypeOK
    PROVE  /\ Waiter \in Uploads \cup {NoOne}
           /\ Waiter # NoOne => /\ pending.tag = "Data" /\ Waiter = pending.waiter
                                /\ Waiter \in Uploads /\ Waiter \in Callers
BY QueuedChunkType DEF Waiter, Callers

\* AnswersWith, handler by handler.
LEMMA AnswersWithValues ==
    ASSUME NEW h, NEW waiter, NEW result, NEW waiterResult,
           answers' = AnswersWith(h, result, waiter, waiterResult)
    PROVE  \A x \in Callers :
              /\ x = h => answers'[x] = result
              /\ x # h /\ x = waiter => answers'[x] = waiterResult
              /\ x # h /\ x # waiter => answers'[x] = answers[x]
BY DEF AnswersWith

\* Termination leaves no waiter.
LEMMA TerminatedHasNoWaiter ==
    ASSUME TypeOK, NEW error, pending' = PendingAfterTermination(error)
    PROVE  Waiter' = NoOne
<1>1. CASE pending.tag = "Data"
    <2>1. pending = Data(pending.chunk, pending.waiter, pending.position)
        BY <1>1, QueuedChunkType
    <2>2. pending' = Data(pending.chunk, NoOne, pending.position)
        BY <1>1, <2>1 DEF PendingAfterTermination, Data
    <2> QED
        BY <2>2 DEF Data, Waiter
<1>2. CASE pending.tag # "Data"
    BY <1>2 DEF PendingAfterTermination, Error, Waiter
<1> QED
    BY <1>1, <1>2

\* The session answers a download, and the upload whose chunk it replaces.
LEMMA StartDownloadAnswers ==
    ASSUME TypeOK, NEW d \in Downloads, NEW p \in Positions, StartDownload(d, p)
    PROVE  CallTaken(d)
<1>1. Waiter' = NoOne
    BY DEF StartDownload, PendingAfterDownload, Waiter, Error, NoPending
<1>2. answers' = AnswersWith(d, Ok, Waiter, WaiterResult(p))
    BY DEF StartDownload
<1>3. WaiterResult(p) # NoAnswer /\ Ok # NoAnswer
    BY DEF WaiterResult, Ok, NoAnswer, AtPosition
<1>4. d \in Callers /\ NoOne \notin Callers
    BY NoOneIsNoHandler DEF Callers
<1> QED
    BY <1>1, <1>2, <1>3, <1>4, AnswersWithValues DEF CallTaken

\* The session answers the end of a download, and the upload that waited for it.
LEMMA FinishDownloadAnswers ==
    ASSUME TypeOK, NEW f \in Finishes, FinishDownload(f)
    PROVE  CallTaken(f)
<1>1. answers' = AnswersWith(f, Ok, TerminatedWaiter, Finished)
    BY DEF FinishDownload
<1>2. Ok # NoAnswer /\ Finished # NoAnswer
    BY DEF Ok, Finished, NoAnswer
<1>3. f \in Callers /\ NoOne \notin Callers
    BY NoOneIsNoHandler DEF Callers
<1>4. CASE uploader.tag = "Some"
    <2>1. pending' = PendingAfterTermination(Finished) /\ TerminatedWaiter = Waiter
        BY <1>4 DEF FinishDownload, TerminatedWaiter
    <2>2. Waiter' = NoOne
        BY <2>1, TerminatedHasNoWaiter
    <2> QED
        BY <1>1, <1>2, <1>3, <2>1, <2>2, AnswersWithValues DEF CallTaken
<1>5. CASE uploader.tag # "Some"
    <2>1. pending' = pending /\ TerminatedWaiter = NoOne
        BY <1>5 DEF FinishDownload, TerminatedWaiter
    <2>2. Waiter' = Waiter /\ Waiter # f
        BY <1>3, <2>1, WaiterType, HandlersAreDistinct DEF Waiter
    <2> QED
        BY <1>1, <1>2, <1>3, <2>1, <2>2, AnswersWithValues DEF CallTaken
<1> QED
    BY <1>4, <1>5

\* The session answers a check at once.
LEMMA CheckStartUploadAnswers ==
    ASSUME TypeOK, NEW c \in Checks, NEW p \in Positions, CheckStartUpload(c, p)
    PROVE  CallTaken(c)
<1>1. /\ answers' = AnswersWith(c, StartPositionError(p), NoOne, Ok)
      /\ pending' = pending
    BY DEF CheckStartUpload, slots
<1>2. StartPositionError(p) # NoAnswer
    BY DEF StartPositionError, AtPosition, Ok, NoAnswer
<1>3. c \in Callers /\ NoOne \notin Callers
    BY NoOneIsNoHandler DEF Callers
<1>4. Waiter' = Waiter /\ Waiter # c
    BY <1>1, <1>3, WaiterType, HandlersAreDistinct DEF Waiter
<1> QED
    BY <1>1, <1>2, <1>3, <1>4, AnswersWithValues DEF CallTaken

\* The session answers an upload at once, and the one that it replaces.
LEMMA StartUploadAnswers ==
    ASSUME TypeOK, NEW u \in Uploads, NEW p \in Positions, StartUpload(u, p), Waiter # u
    PROVE  CallTaken(u)
<1>1. answers' = AnswersWith(u, StartPositionError(p), TerminatedWaiter, ConnectionReplaced)
    BY DEF StartUpload
<1>2. StartPositionError(p) # NoAnswer /\ ConnectionReplaced # NoAnswer
    BY DEF StartPositionError, AtPosition, Ok, NoAnswer, ConnectionReplaced
<1>3. u \in Callers /\ NoOne \notin Callers
    BY NoOneIsNoHandler DEF Callers
<1> DEFINE left == IF uploader.tag = "Some"
                     THEN PendingAfterTermination(ConnectionReplaced) ELSE pending
<1>4. pending' = left \/ (pending' = NoPending /\ left.tag = "Error")
    BY DEF StartUpload
<1>5. CASE uploader.tag = "Some"
    <2>1. TerminatedWaiter = Waiter /\ left = PendingAfterTermination(ConnectionReplaced)
        BY <1>5 DEF TerminatedWaiter
    <2>2. Waiter' = NoOne
        BY <1>4, <2>1, TerminatedHasNoWaiter DEF NoPending, Waiter
    <2> QED
        BY <1>1, <1>2, <1>3, <2>1, <2>2, AnswersWithValues DEF CallTaken
<1>6. CASE uploader.tag # "Some"
    <2>1. TerminatedWaiter = NoOne /\ left = pending
        BY <1>6 DEF TerminatedWaiter
    <2>2. Waiter' = Waiter
        BY <1>4, <2>1 DEF NoPending, Waiter
    <2> QED
        BY <1>1, <1>2, <1>3, <2>1, <2>2, AnswersWithValues DEF CallTaken
<1> QED
    BY <1>5, <1>6

\* A refusal is no acceptance.
LEMMA RefusedAnswers ==
    ASSUME TypeOK, NEW u \in Uploads, Refused(u), pending' = pending, Waiter # u
    PROVE  CallTaken(u) /\ answers'[u] \notin {Ok, NoAnswer}
<1>1. PICK error : /\ answers' = AnswersWith(u, error, NoOne, Ok)
                   /\ error = ConnectionReplaced \/ (pending.tag = "Error" /\ error = pending.error)
    BY DEF Refused
<1>2. error \in UploadErrors
    BY <1>1 DEF TypeOK, Pendings, NoPending, UploadErrors
<1>3. error \notin {Ok, NoAnswer}
    BY <1>2 DEF UploadErrors, Ok, NoAnswer, NotFound, ConnectionReplaced, Finished, DataPending
<1>4. u \in Callers /\ NoOne \notin Callers /\ Waiter' = Waiter
    BY NoOneIsNoHandler DEF Callers, Waiter
<1> QED
    BY <1>1, <1>3, <1>4, AnswersWithValues DEF CallTaken

\* The session answers a chunk, or queues it with its caller as the one that waits.
LEMMA UploadDataAnswers ==
    ASSUME TypeOK, NEW u \in Uploads, NEW chunk \in Chunks, UploadData(u, chunk), Waiter # u,
           answers[u] = NoAnswer
    PROVE  CallTaken(u)
<1>1. u \in Callers /\ NoOne \notin Callers
    BY NoOneIsNoHandler DEF Callers
<1>2. Ok # NoAnswer /\ DataPending # NoAnswer
    BY DEF Ok, DataPending, NoAnswer
<1>3. CASE Refused(u) /\ UNCHANGED <<slots, events, inbox>>
    BY <1>3, RefusedAnswers DEF slots
<1>4. CASE /\ answers' = AnswersWith(u, DataPending, NoOne, Ok)
           /\ UNCHANGED <<slots, events, inbox>>
    <2>1. Waiter' = Waiter
        BY <1>4 DEF slots, Waiter
    <2> QED
        BY <1>1, <1>2, <1>4, <2>1, AnswersWithValues DEF CallTaken
<1>5. CASE answers' = AnswersWith(u, Ok, NoOne, Ok) /\ pending' = pending
    <2>1. Waiter' = Waiter
        BY <1>5 DEF Waiter
    <2> QED
        BY <1>1, <1>2, <1>5, <2>1, AnswersWithValues DEF CallTaken
<1>6. CASE /\ pending.tag = "None" /\ answers' = answers
           /\ pending' = Data(chunk, u, uploader.position)
    <2>1. Waiter = NoOne /\ Waiter' = u
        BY <1>6 DEF Data, Waiter
    <2> QED
        BY <1>1, <1>6, <2>1 DEF CallTaken
<1> QED
    BY <1>3, <1>4, <1>5, <1>6 DEF UploadData

\* The session answers a flush, or lets it wait for the queued chunk.
LEMMA FlushUploadAnswers ==
    ASSUME TypeOK, NEW u \in Uploads, FlushUpload(u), Waiter # u, answers[u] = NoAnswer
    PROVE  CallTaken(u)
<1>1. u \in Callers /\ NoOne \notin Callers
    BY NoOneIsNoHandler DEF Callers
<1>2. Ok # NoAnswer /\ NotFound # NoAnswer
    BY DEF Ok, NotFound, NoAnswer
<1>3. CASE Refused(u) /\ pending' = pending
    BY <1>3, RefusedAnswers
<1>4. CASE /\ pending.tag = "Data" /\ pending' = [pending EXCEPT !.waiter = u]
           /\ answers' = AnswersWith(NoOne, Ok, Waiter, NotFound)
    <2>1. pending = Data(pending.chunk, pending.waiter, pending.position)
        BY <1>4, QueuedChunkType
    <2>2. pending' = Data(pending.chunk, u, pending.position)
        BY <1>4, <2>1 DEF Data
    <2>3. Waiter' = u
        BY <2>2 DEF Data, Waiter
    <2> QED
        BY <1>1, <1>2, <1>4, <2>3, AnswersWithValues DEF CallTaken
<1>5. CASE answers' = AnswersWith(u, Ok, NoOne, Ok) /\ pending' = pending
    <2>1. Waiter' = Waiter
        BY <1>5 DEF Waiter
    <2> QED
        BY <1>1, <1>2, <1>5, <2>1, AnswersWithValues DEF CallTaken
<1> QED
    BY <1>3, <1>4, <1>5 DEF FlushUpload

\* The session answers a websocket at once.
LEMMA StartWebsocketAnswers ==
    ASSUME TypeOK, NEW w \in Peers, StartWebsocket(w)
    PROVE  CallTaken(w)
<1>1. answers' = AnswersWith(w, Ok, NoOne, Ok) /\ pending' = pending
    BY DEF StartWebsocket, slots
<1>2. Ok # NoAnswer
    BY DEF Ok, NoAnswer
<1>3. w \in Callers /\ NoOne \notin Callers
    BY NoOneIsNoHandler DEF Callers
<1>4. Waiter' = Waiter /\ Waiter # w
    BY <1>1, <1>3, WaiterType, HandlersAreDistinct DEF Waiter
<1> QED
    BY <1>1, <1>2, <1>3, <1>4, AnswersWithValues DEF CallTaken

\* What is no call answers nobody but the caller that waits.
LEMMA NoticesAnswer ==
    ASSUME TypeOK,
           \/ \E d \in Downloads, completed \in BOOLEAN : DownloaderDisconnected(d, completed)
           \/ \E u \in Uploads : UploaderDisconnected(u)
           \/ \E w \in Peers : WebsocketDisconnected(w)
           \/ \E dir \in Directions, frame \in Frames : RelayFrame(dir, frame)
    PROVE  NoticeTaken
<1>1. ASSUME NEW u \in Uploads, UploaderDisconnected(u)
      PROVE  NoticeTaken
    <2>1. pending' = pending \/ (pending' = NoPending /\ pending.tag = "Error")
        BY <1>1, Zenon DEF UploaderDisconnected
    <2>2. Waiter' = Waiter /\ answers' = answers
        BY <1>1, <2>1 DEF UploaderDisconnected, NoPending, Waiter
    <2> QED
        BY <2>2 DEF NoticeTaken
<1>2. ASSUME answers' = answers /\ pending' = pending
      PROVE  NoticeTaken
    BY <1>2 DEF NoticeTaken, Waiter
<1> QED
    BY <1>1, <1>2 DEF DownloaderDisconnected, WebsocketDisconnected, RelayFrame, slots

-----------------------------------------------------------------------------
(* What the session serves is what Session allows at that time.             *)

\* The sender of the oldest call waits for it.
LEMMA CallerIsFree ==
    ASSUME CallInv, NEW i \in Mails, IsCall(mailbox[i])
    PROVE  Free(mailbox[i].from)
BY DEF CallInv, OneCall, Free

\* The session serves the oldest message, which is a message of a handler.
LEMMA OldestMessage ==
    ASSUME CallInv, Serve
    PROVE  /\ 1 \in Mails /\ mailbox[1] \in Messages
           /\ Dispatch(mailbox[1])
           /\ UNCHANGED handlers
           /\ running
<1>1. 1 \in Mails /\ mailbox[1] \in Messages /\ Head(mailbox) = mailbox[1]
    BY Served DEF CallInv, HandlersOK
<1>2. Dispatch(mailbox[1]) /\ UNCHANGED handlers
    BY <1>1 DEF Serve
<1>3. running
    BY <1>2, Zenon
       DEF Dispatch, StartDownload, FinishDownload, CheckStartUpload, StartUpload, UploadData,
           FlushUpload, StartWebsocket, RelayFrame, DownloaderDisconnected,
           UploaderDisconnected, WebsocketDisconnected
<1> QED
    BY <1>1, <1>2, <1>3

\* What the session serves it answers or lets wait.
LEMMA ServeTakesMessage ==
    ASSUME CallInv, Serve
    PROVE  /\ IsCall(mailbox[1]) => CallTaken(mailbox[1].from)
           /\ ~IsCall(mailbox[1]) => NoticeTaken
           /\ started' = IF IsStart(mailbox[1]) THEN started \cup {mailbox[1].from} ELSE started
<1> DEFINE m == mailbox[1]
<1>1. 1 \in Mails /\ m \in Messages /\ Dispatch(m)
    BY OldestMessage
<1>2. TypeOK /\ (IsCall(m) => Waiter # m.from /\ answers[m.from] = NoAnswer)
    BY <1>1, CallerIsFree DEF CallInv, Free
<1> HIDE DEF m
<1> USE MessageFields, <1>1, <1>2
<1>3. CASE m.cmd = "StartDownload" /\ StartDownload(m.from, m.position)
    BY <1>3, StartDownloadAnswers DEF IsCall, IsStart, StartDownload, m
<1>4. CASE m.cmd = "FinishDownload" /\ FinishDownload(m.from)
    BY <1>4, FinishDownloadAnswers DEF IsCall, IsStart, FinishDownload, m
<1>5. CASE m.cmd = "CheckStartUpload" /\ CheckStartUpload(m.from, m.position)
    BY <1>5, CheckStartUploadAnswers DEF IsCall, IsStart, CheckStartUpload, m
<1>6. CASE m.cmd = "StartUpload" /\ StartUpload(m.from, m.position)
    BY <1>6, StartUploadAnswers DEF IsCall, IsStart, StartUpload, m
<1>7. CASE m.cmd = "UploadData" /\ UploadData(m.from, m.chunk)
    BY SMTT(30), <1>7, UploadDataAnswers DEF IsCall, IsStart, UploadData, m
<1>8. CASE m.cmd = "FlushUpload" /\ FlushUpload(m.from)
    BY <1>8, FlushUploadAnswers DEF IsCall, IsStart, FlushUpload, m
<1>9. CASE m.cmd = "StartWebsocket" /\ StartWebsocket(m.from)
    BY <1>9, StartWebsocketAnswers DEF IsCall, IsStart, StartWebsocket, m
<1>10. CASE m.cmd = "WebsocketData" /\ RelayFrame(DirectionOf(m.from), m.frame)
    <2>1. DirectionOf(m.from) \in Directions
        BY DEF DirectionOf, Directions
    <2> QED
        BY <1>10, <2>1, NoticesAnswer DEF IsCall, IsStart, RelayFrame, m
<1>11. CASE m.cmd = "DownloaderDisconnected" /\ DownloaderDisconnected(m.from, m.completed)
    BY <1>11, NoticesAnswer DEF IsCall, IsStart, DownloaderDisconnected, m
<1>12. CASE m.cmd = "UploaderDisconnected" /\ UploaderDisconnected(m.from)
    BY <1>12, NoticesAnswer DEF IsCall, IsStart, UploaderDisconnected, m
<1>13. CASE m.cmd = "WebsocketDisconnected" /\ WebsocketDisconnected(m.from)
    BY <1>13, NoticesAnswer DEF IsCall, IsStart, WebsocketDisconnected, m
<1> QED
    BY <1>3, <1>4, <1>5, <1>6, <1>7, <1>8, <1>9, <1>10, <1>11, <1>12, <1>13 DEF Dispatch

\* Every turn of the session task is a command that Session has, at a time
\* when it allows it.
LEMMA ServeIsAStep ==
    ASSUME CallInv, Serve
    PROVE  Next
<1> DEFINE m == mailbox[1]
<1>1. 1 \in Mails /\ m \in Messages /\ Dispatch(m)
    BY OldestMessage
<1>2. IsCall(m) => Free(m.from)
    BY <1>1, CallerIsFree
<1>3. IsStart(m) => m.from \notin started
    BY <1>1 DEF CallInv, StartsOnce
<1>4. m.cmd = "UploadData" => m.chunk \in ChunksFor(m.from)
    <2>1. m.cmd = "UploadData" =>
              /\ m.chunk \in Chunks /\ Fits(m.chunk)
              /\ IsUploader(m.from) => uploader.position = m.chunk.at
        BY <1>1, MessageFields DEF CallInv, UploadsOK, UploadMail
    <2> QED
        BY <2>1 DEF ChunksFor, Fits
<1> HIDE DEF m
<1> USE <1>1, MessageFields
<1>5. CASE m.cmd = "StartDownload" /\ StartDownload(m.from, m.position)
    BY <1>2, <1>3, <1>5, Zenon DEF IsCall, IsStart, Next
<1>6. CASE m.cmd = "FinishDownload" /\ FinishDownload(m.from)
    BY <1>2, <1>6, Zenon DEF IsCall, Next
<1>7. CASE m.cmd = "CheckStartUpload" /\ CheckStartUpload(m.from, m.position)
    BY <1>2, <1>7, Zenon DEF IsCall, Next
<1>8. CASE m.cmd = "StartUpload" /\ StartUpload(m.from, m.position)
    BY <1>2, <1>3, <1>8, Zenon DEF IsCall, IsStart, Next
<1>9. CASE m.cmd = "UploadData" /\ UploadData(m.from, m.chunk)
    BY <1>2, <1>4, <1>9, Zenon DEF IsCall, Next
<1>10. CASE m.cmd = "FlushUpload" /\ FlushUpload(m.from)
    BY <1>2, <1>10, Zenon DEF IsCall, Next
<1>11. CASE m.cmd = "StartWebsocket" /\ StartWebsocket(m.from)
    BY <1>2, <1>3, <1>11, Zenon DEF IsCall, IsStart, Next
<1>12. CASE m.cmd = "WebsocketData" /\ RelayFrame(DirectionOf(m.from), m.frame)
    BY <1>12, Zenon DEF DirectionOf, Directions, Next
<1>13. CASE m.cmd = "DownloaderDisconnected" /\ DownloaderDisconnected(m.from, m.completed)
    BY <1>13, Zenon DEF Next
<1>14. CASE m.cmd = "UploaderDisconnected" /\ UploaderDisconnected(m.from)
    BY <1>14, Zenon DEF Next
<1>15. CASE m.cmd = "WebsocketDisconnected" /\ WebsocketDisconnected(m.from)
    BY <1>15, Zenon DEF Next
<1> QED
    BY <1>5, <1>6, <1>7, <1>8, <1>9, <1>10, <1>11, <1>12, <1>13, <1>14, <1>15 DEF Dispatch

-----------------------------------------------------------------------------
(* The steps of the handlers, as the session sees them.                     *)

\* A handler reads what the session sent it, or does nothing to the session.
LEMMA HandlerStepIsAStep ==
    ASSUME CallInv, RelayNext, ~Serve
    PROVE  [Next]_vars /\ running' = running /\ started' = started /\ slots' = slots
<1>1. ASSUME NEW h \in Callers, ReadAnswer(h), UNCHANGED sessionVars
      PROVE  [Next]_vars /\ running' = running /\ started' = started /\ slots' = slots
    <2>1. CASE answers[h] # NoAnswer
        <3>1. TakeAnswer(h)
            BY <1>1, <2>1 DEF ReadAnswer, sessionVars, TakeAnswer
        <3> QED
            BY <1>1, <3>1, Zenon DEF Next, sessionVars
    <2>2. CASE answers[h] = NoAnswer
        <3>1. answers' = answers
            BY <1>1, <2>2 DEF ReadAnswer, CallInv, TypeOK
        <3> QED
            BY <1>1, <3>1 DEF sessionVars, vars, slots, signaling
    <2> QED
        BY <2>1, <2>2
<1>2. CASE UNCHANGED vars
    BY <1>2 DEF vars, slots
<1>3. ASSUME NEW u \in Uploads,
             \/ UploadRefused(u) \/ UploadStarted(u) \/ UploadAccepted(u)
      PROVE  ReadAnswer(u) /\ UNCHANGED sessionVars /\ u \in Callers
    BY <1>3 DEF UploadRefused, UploadStarted, UploadAccepted, Callers
<1>4. ASSUME NEW u \in Uploads,
             (\E p \in Positions : UploadArrives(u, p)) \/ UploadReads(u) \/ UploadAborts(u)
      PROVE  UNCHANGED vars
    BY <1>4 DEF UploadArrives, UploadReads, UploadAborts
<1>5. ASSUME NEW d \in Downloads, DownloadStarted(d)
      PROVE  ReadAnswer(d) /\ UNCHANGED sessionVars /\ d \in Callers
    BY <1>5 DEF DownloadStarted, Callers
<1>6. ASSUME NEW d \in Downloads, DownloadYields(d)
      PROVE  [Next]_vars /\ running' = running /\ started' = started /\ slots' = slots
    <2>1. TakeEvent(d)
        BY <1>6 DEF DownloadYields, TakeEvent
    <2> QED
        BY <1>6, <2>1, Zenon DEF Next, DownloadYields
<1>7. ASSUME NEW d \in Downloads,
             (\E p \in Positions : DownloadArrives(d, p)) \/ DownloadEnds(d) \/ DownloadDropped(d)
      PROVE  UNCHANGED vars
    BY <1>7 DEF DownloadArrives, DownloadEnds, DownloadDropped, DownloadCloses
<1>8. ASSUME NEW c \in Checks \cup Finishes, CallReturns(c)
      PROVE  ReadAnswer(c) /\ UNCHANGED sessionVars /\ c \in Callers
    BY <1>8 DEF CallReturns, Callers
<1>9. ASSUME NEW c \in Checks \cup Finishes, CallArrives(c)
      PROVE  UNCHANGED vars
    BY <1>9 DEF CallArrives
<1>10. ASSUME NEW w \in Peers, PeerStarted(w)
       PROVE  ReadAnswer(w) /\ UNCHANGED sessionVars /\ w \in Callers
    BY <1>10 DEF PeerStarted, Callers
<1>11. ASSUME NEW w \in Peers, PeerDelivers(w)
       PROVE  [Next]_vars /\ running' = running /\ started' = started /\ slots' = slots
    <2>1. TakeCommand(w)
        BY <1>11 DEF PeerDelivers, TakeCommand
    <2> QED
        BY <1>11, <2>1, Zenon DEF Next, PeerDelivers
<1>12. ASSUME NEW w \in Peers,
              PeerConnects(w) \/ PeerSends(w) \/ PeerReplaced(w) \/ PeerCloses(w)
       PROVE  UNCHANGED vars
    BY <1>12 DEF PeerConnects, PeerSends, PeerReplaced, PeerCloses, PeerEnds
<1> QED
    BY <1>1, <1>2, <1>3, <1>4, <1>5, <1>6, <1>7, <1>8, <1>9, <1>10, <1>11, <1>12 DEF RelayNext

\* What a handler does to the calls: it reads the answer to its own, and posts
\* a new one only when it has none.
LEMMA HandlerKeepsOneCall ==
    ASSUME OneCall, mailbox \in Seq(Messages), slots' = slots, NEW h \in Callers,
           \A x \in Callers \ {h} : answers'[x] = answers[x],
           answers'[h] \in {answers[h], NoAnswer},
           Resting' \subseteq Resting \cup {h}, Resting' \subseteq Callers,
           Waiter \in Callers \cup {NoOne},
           h \in Resting' => /\ answers'[h] = NoAnswer
                             /\ h \in Resting \/ answers[h] # NoAnswer,
           \/ mailbox' = mailbox
           \/ \E m \in Messages :
                /\ Post(m)
                /\ IsCall(m) => /\ m.from = h /\ h \notin Resting'
                                /\ answers'[h] = NoAnswer
                                /\ h \in Resting \/ answers[h] # NoAnswer
    PROVE  OneCall'
<1> DEFINE NewCall(i) == /\ mailbox'[i].from = h /\ h \notin Resting'
                         /\ answers'[h] = NoAnswer
                         /\ Waiter # h /\ ~Asked(h)
<1>1. Waiter' = Waiter
    BY DEF slots, Waiter
<1>2. h \in Resting \/ answers[h] # NoAnswer => Waiter # h /\ ~Asked(h)
    BY NoOneIsNoHandler DEF OneCall, Asked
<1>3. \A i \in Mails' :
         \/ i \in Mails /\ mailbox'[i] = mailbox[i]
         \/ i \notin Mails /\ i = Len(mailbox) + 1 /\ (IsCall(mailbox'[i]) => NewCall(i))
    <2>1. CASE mailbox' = mailbox
        BY <2>1 DEF Mails
    <2>2. ASSUME NEW m \in Messages, Post(m),
                 IsCall(m) => /\ m.from = h /\ h \notin Resting'
                              /\ answers'[h] = NoAnswer
                              /\ h \in Resting \/ answers[h] # NoAnswer
          PROVE  \A i \in Mails' :
                    \/ i \in Mails /\ mailbox'[i] = mailbox[i]
                    \/ i \notin Mails /\ i = Len(mailbox) + 1 /\ (IsCall(mailbox'[i]) => NewCall(i))
        <3>1. IsCall(m) => Waiter # h /\ ~Asked(h)
            BY <1>2, <2>2
        <3>2. Len(mailbox) + 1 \notin Mails
            BY LenProperties DEF Mails
        <3> QED
            BY <2>2, <3>1, <3>2, Posted
    <2> QED
        BY <2>1, <2>2
<1>4. \A i \in Mails : IsCall(mailbox[i]) => mailbox[i].from \in Callers
    BY ElementOfSeq, MessageFields DEF Mails
<1>5. ASSUME NEW i \in Mails', NEW j \in Mails', IsCall(mailbox'[i]), IsCall(mailbox'[j]),
             mailbox'[i].from = mailbox'[j].from
      PROVE  i = j
    BY <1>3, <1>5 DEF OneCall, Asked
<1>6. ASSUME NEW i \in Mails', IsCall(mailbox'[i])
      PROVE  answers'[mailbox'[i].from] = NoAnswer /\ Waiter' # mailbox'[i].from
    BY <1>1, <1>3, <1>4, <1>6 DEF OneCall
<1>7. Waiter # NoOne => answers'[Waiter] = NoAnswer
    BY DEF OneCall
<1>8. ASSUME NEW x \in Resting'
      PROVE  answers'[x] = NoAnswer /\ Waiter # x /\ ~Asked(x)'
    <2>1. CASE x # h
        <3>1. x \in Resting /\ answers[x] = NoAnswer /\ Waiter # x /\ ~Asked(x)
            BY <2>1 DEF OneCall
        <3> QED
            BY <1>3, <2>1, <3>1 DEF Asked
    <2>2. CASE x = h
        BY <1>2, <1>3, <2>2 DEF Asked
    <2> QED
        BY <2>1, <2>2
<1> QED
    BY <1>1, <1>5, <1>6, <1>7, <1>8 DEF OneCall

-----------------------------------------------------------------------------
(* The handlers keep their types.                                           *)

\* What a handler posts is a message.
LEMMA PostedTypes ==
    ASSUME mailbox \in Seq(Messages)
    PROVE  \A m \in Messages : Post(m) => mailbox' \in Seq(Messages)
BY Posted

\* The answer a handler reads is one of the session's.
LEMMA ResultType ==
    ASSUME TypeOK, NEW h \in Callers
    PROVE  /\ Result(h) \in Answers
           /\ Response(Result(h)) \in Answers
           /\ Result(h) = Ok => answers[h] = Ok
           /\ Result(h) = answers[h] \/ (~running /\ answers[h] = NoAnswer)
BY DEF TypeOK, Result, Response, Answers, UploadErrors, NotFound, Ok

\* The steps of an upload keep the handlers typed.
LEMMA UploadsTyped ==
    ASSUME CallInv, NEW u \in Uploads,
           \/ \E p \in Positions : UploadArrives(u, p)
           \/ UploadRefused(u) \/ UploadStarted(u) \/ UploadAccepted(u)
           \/ UploadReads(u) \/ UploadAborts(u)
    PROVE  HandlersOK'
<1> DEFINE UploadRecords == [pc : UploadPCs, next : Positions, last : BOOLEAN,
                             outcome : Answers \cup {Aborted}]
<1>1. mailbox \in Seq(Messages) /\ uploads \in [Uploads -> UploadRecords]
    BY DEF CallInv, HandlersOK
<1>2. UNCHANGED <<downloads, calls, peers>>
    BY DEF UploadArrives, UploadRefused, UploadStarted, UploadAccepted, UploadReads, UploadAborts
<1>3. SUFFICES mailbox' \in Seq(Messages) /\ uploads' \in [Uploads -> UploadRecords]
    BY <1>2 DEF CallInv, HandlersOK
<1>4. u \in Callers /\ NotFound \in Answers /\ Ok \in Answers
    BY DEF Callers, Answers, UploadErrors
<1>5. ASSUME NEW pc \in UploadPCs, uploads' = [uploads EXCEPT ![u].pc = pc]
      PROVE  uploads' \in [Uploads -> UploadRecords]
    BY <1>1, <1>5
<1>6. ASSUME NEW p \in Positions, UploadArrives(u, p)
      PROVE  mailbox' \in Seq(Messages) /\ uploads' \in [Uploads -> UploadRecords]
    <2>1. [cmd |-> "StartUpload", from |-> u, position |-> p] \in Messages
        BY DEF Messages
    <2>2. CASE running
        <3>1. uploads' = [uploads EXCEPT ![u].pc = "Starting", ![u].next = p]
            BY <1>6, <2>2 DEF UploadArrives
        <3>2. uploads' \in [Uploads -> UploadRecords]
            BY <1>1, <3>1 DEF UploadPCs
        <3> QED
            BY <1>1, <1>6, <2>1, <3>2, PostedTypes DEF UploadArrives
    <2>3. CASE ~running
        <3>1. uploads' = [uploads EXCEPT ![u].pc = "Done", ![u].outcome = NotFound]
            BY <1>6, <2>3 DEF UploadArrives
        <3>2. uploads' \in [Uploads -> UploadRecords]
            BY <1>1, <1>4, <3>1 DEF UploadPCs
        <3> QED
            BY <1>1, <1>6, <2>1, <3>2, PostedTypes DEF UploadArrives
    <2> QED
        BY <2>2, <2>3
<1>7. ASSUME NEW outcome \in Answers \cup {Aborted}, UploadEnds(u, outcome)
      PROVE  mailbox' \in Seq(Messages) /\ uploads' \in [Uploads -> UploadRecords]
    <2>1. [cmd |-> "UploaderDisconnected", from |-> u] \in Messages
        BY DEF Messages
    <2>2. 0 \in Positions
        BY SizesAreNatural DEF Positions
    <2>3. uploads' \in [Uploads -> UploadRecords]
        BY <1>1, <1>7, <2>2 DEF UploadEnds, UploadPCs
    <2> QED
        BY <1>1, <1>7, <2>1, <2>3, PostedTypes DEF UploadEnds
<1>8. CASE UploadRefused(u)
    <2>1. Response(Result(u)) \in Answers /\ UploadEnds(u, Response(Result(u)))
        BY <1>4, <1>8, ResultType DEF UploadRefused, CallInv
    <2> QED
        BY <1>7, <2>1
<1>9. CASE UploadStarted(u)
    <2>1. [cmd |-> "FlushUpload", from |-> u] \in Messages
        BY DEF Messages
    <2> QED
        BY <1>1, <1>5, <1>9, <2>1, PostedTypes DEF UploadStarted, UploadPCs
<1>10. CASE UploadAccepted(u)
    <2>1. \/ UploadEnds(u, Ok)
          \/ uploads' = [uploads EXCEPT ![u].pc = "Reading"] /\ mailbox' = mailbox
        BY <1>10 DEF UploadAccepted
    <2> QED
        BY <1>1, <1>4, <1>5, <1>7, <2>1 DEF UploadPCs
<1>11. CASE UploadReads(u)
    <2>1. PICK chunk \in Chunks :
             /\ chunk.at + chunk.size <= FileSize
             /\ uploads' = [uploads EXCEPT ![u].pc = "Sending",
                                           ![u].next = chunk.at + chunk.size,
                                           ![u].last = chunk.final]
             /\ Post([cmd |-> "UploadData", from |-> u, chunk |-> chunk])
        BY <1>11 DEF UploadReads
    <2> DEFINE end == chunk.at + chunk.size
               final == chunk.final
    <2>2. end \in Positions /\ final \in BOOLEAN
        BY <2>1, ChunksAreTyped, SizesAreNatural DEF Positions
    <2>3. uploads' = [uploads EXCEPT ![u].pc = "Sending", ![u].next = end, ![u].last = final]
        BY <2>1
    <2> HIDE DEF end, final
    <2>4. uploads' \in [Uploads -> UploadRecords]
        <3>1. /\ [uploads[u] EXCEPT !.pc = "Sending", !.next = end, !.last = final] \in UploadRecords
              /\ uploads' = [uploads EXCEPT ![u] = [uploads[u] EXCEPT !.pc = "Sending", !.next = end,
                                                                    !.last = final]]
            BY <1>1, <2>2, <2>3 DEF UploadPCs
        <3> QED
            BY <1>1, <3>1
    <2>5. [cmd |-> "UploadData", from |-> u, chunk |-> chunk] \in Messages
        BY DEF Messages
    <2> QED
        BY <1>1, <2>1, <2>4, <2>5, PostedTypes
<1>12. CASE UploadAborts(u)
    BY <1>7, <1>12 DEF UploadAborts
<1> QED
    BY <1>6, <1>8, <1>9, <1>10, <1>11, <1>12

\* The steps of a download keep the handlers typed.
LEMMA DownloadsTyped ==
    ASSUME CallInv, NEW d \in Downloads,
           \/ \E p \in Positions : DownloadArrives(d, p)
           \/ DownloadStarted(d) \/ DownloadYields(d)
           \/ DownloadEnds(d) \/ DownloadDropped(d)
    PROVE  HandlersOK'
<1> DEFINE DownloadRecords == [pc : DownloadPCs, next : Nat, completed : BOOLEAN]
<1>1. mailbox \in Seq(Messages) /\ downloads \in [Downloads -> DownloadRecords]
    BY DEF CallInv, HandlersOK
<1>2. UNCHANGED <<uploads, calls, peers>>
    BY DEF DownloadArrives, DownloadStarted, DownloadYields, DownloadEnds, DownloadDropped,
           DownloadCloses
<1>3. SUFFICES mailbox' \in Seq(Messages) /\ downloads' \in [Downloads -> DownloadRecords]
    BY <1>2 DEF CallInv, HandlersOK
<1>4. ASSUME NEW p \in Positions, DownloadArrives(d, p)
      PROVE  mailbox' \in Seq(Messages) /\ downloads' \in [Downloads -> DownloadRecords]
    <2>1. [cmd |-> "StartDownload", from |-> d, position |-> p] \in Messages
        BY DEF Messages
    <2>2. p \in Nat
        BY SizesAreNatural DEF Positions
    <2>3. downloads' \in [Downloads -> DownloadRecords]
        <3>1. \/ downloads' = [downloads EXCEPT ![d].pc = "Starting", ![d].next = p]
              \/ downloads' = [downloads EXCEPT ![d].pc = "Done"]
            BY <1>4 DEF DownloadArrives
        <3>2. "Starting" \in DownloadPCs /\ "Done" \in DownloadPCs
            BY DEF DownloadPCs
        <3> DEFINE starting == [downloads[d] EXCEPT !.pc = "Starting", !.next = p]
                   done == [downloads[d] EXCEPT !.pc = "Done"]
        <3>3. downloads[d] \in DownloadRecords
            BY <1>1
        <3>4. starting \in DownloadRecords /\ done \in DownloadRecords
            BY <2>2, <3>2, <3>3
        <3>5. downloads' = [downloads EXCEPT ![d] = starting] \/ downloads' = [downloads EXCEPT ![d] = done]
            BY <3>1
        <3> HIDE DEF starting, done, DownloadRecords
        <3> QED
            BY <1>1, <3>4, <3>5
    <2> QED
        BY <1>1, <1>4, <2>1, <2>3, PostedTypes DEF DownloadArrives
<1>5. CASE DownloadStarted(d)
    BY <1>1, <1>5 DEF DownloadStarted, DownloadPCs
<1>6. CASE DownloadYields(d)
    <2>1. Head(events[d]) \in Events
        BY <1>6, HeadTailProperties DEF CallInv, TypeOK, DownloadYields
    <2>2. Head(events[d]).chunk \in Chunks
        BY <1>6, <2>1 DEF Events, Replaced, DownloadYields
    <2>3. Head(events[d]).chunk.size \in Nat /\ Head(events[d]).chunk.final \in BOOLEAN
        BY <2>2, ChunksAreTyped
    <2> DEFINE next == downloads[d].next + Head(events[d]).chunk.size
               final == Head(events[d]).chunk.final
    <2>4. next \in Nat /\ final \in BOOLEAN
        BY <1>1, <2>3
    <2>5. /\ downloads' = [downloads EXCEPT ![d].next = next, ![d].completed = final]
          /\ mailbox' = mailbox
        BY <1>6 DEF DownloadYields
    <2> HIDE DEF next, final
    <2> QED
        BY <1>1, <2>4, <2>5
<1>7. CASE DownloadCloses(d)
    <2>1. [cmd |-> "DownloaderDisconnected", from |-> d,
           completed |-> downloads[d].completed] \in Messages
        BY <1>1 DEF Messages
    <2>2. downloads' \in [Downloads -> DownloadRecords]
        BY <1>1, <1>7 DEF DownloadCloses, DownloadPCs
    <2> QED
        BY <1>1, <1>7, <2>1, <2>2, PostedTypes DEF DownloadCloses
<1>8. CASE DownloadEnds(d)
    BY <1>7, <1>8 DEF DownloadEnds
<1>9. CASE DownloadDropped(d)
    <2>1. ASSUME downloads' = [downloads EXCEPT ![d].pc = "Done"], mailbox' = mailbox
          PROVE  mailbox' \in Seq(Messages) /\ downloads' \in [Downloads -> DownloadRecords]
        BY <1>1, <2>1 DEF DownloadPCs
    <2> QED
        BY <1>7, <1>9, <2>1 DEF DownloadDropped
<1> QED
    BY <1>4, <1>5, <1>6, <1>8, <1>9

\* The steps of a check or a finish keep the handlers typed.
LEMMA CallsTyped ==
    ASSUME CallInv, NEW c \in Checks \cup Finishes, CallArrives(c) \/ CallReturns(c)
    PROVE  HandlersOK'
<1> USE DEF CallInv, HandlersOK
<1>1. CASE CallArrives(c)
    <2>1. /\ c \in Finishes => [cmd |-> "FinishDownload", from |-> c] \in Messages
          /\ c \in Checks => \A p \in Positions :
                [cmd |-> "CheckStartUpload", from |-> c, position |-> p] \in Messages
        BY DEF Messages
    <2>2. mailbox' \in Seq(Messages)
        BY <1>1, <2>1, PostedTypes DEF CallArrives
    <2> QED
        BY <1>1, <2>2 DEF CallArrives
<1>2. CASE CallReturns(c)
    BY <1>2 DEF CallReturns
<1> QED
    BY <1>1, <1>2

\* The steps of a websocket keep the handlers typed.
LEMMA PeersTyped ==
    ASSUME CallInv, NEW w \in Peers,
           \/ PeerConnects(w) \/ PeerStarted(w) \/ PeerDelivers(w)
           \/ PeerSends(w) \/ PeerReplaced(w) \/ PeerCloses(w)
    PROVE  HandlersOK'
<1> DEFINE PeerRecords == [pc : PeerPCs, sent : Nat, received : Seq(Commands)]
<1>1. mailbox \in Seq(Messages) /\ peers \in [Peers -> PeerRecords]
    BY DEF CallInv, HandlersOK
<1>2. UNCHANGED <<uploads, downloads, calls>>
    BY DEF PeerConnects, PeerStarted, PeerDelivers, PeerSends, PeerReplaced, PeerCloses, PeerEnds
<1>3. SUFFICES mailbox' \in Seq(Messages) /\ peers' \in [Peers -> PeerRecords]
    BY <1>2 DEF CallInv, HandlersOK
<1>4. CASE PeerConnects(w)
    <2>1. [cmd |-> "StartWebsocket", from |-> w] \in Messages
        BY DEF Messages
    <2> QED
        BY <1>1, <1>4, <2>1, PostedTypes DEF PeerConnects, PeerPCs
<1>5. CASE PeerStarted(w)
    BY <1>1, <1>5 DEF PeerStarted, PeerPCs
<1>6. CASE PeerDelivers(w)
    <2>1. Head(inbox[w]) \in Commands
        BY <1>6, HeadTailProperties DEF CallInv, TypeOK, PeerDelivers
    <2>2. Append(peers[w].received, Head(inbox[w])) \in Seq(Commands)
        BY <1>1, <2>1, AppendProperties
    <2> QED
        BY <1>1, <1>6, <2>2 DEF PeerDelivers
<1>7. CASE PeerSends(w)
    <2>1. [cmd |-> "WebsocketData", from |-> w, frame |-> <<w, peers[w].sent + 1>>] \in Messages
        BY <1>7 DEF Messages, PeerSends
    <2>2. mailbox' \in Seq(Messages)
        BY <1>1, <1>7, <2>1, PostedTypes DEF PeerSends
    <2>3. peers[w].sent + 1 \in Nat /\ peers' = [peers EXCEPT ![w].sent = peers[w].sent + 1]
        BY <1>1, <1>7 DEF PeerSends
    <2> QED
        BY <1>1, <2>2, <2>3
<1>8. CASE PeerEnds(w)
    <2>1. [cmd |-> "WebsocketDisconnected", from |-> w] \in Messages
        BY DEF Messages
    <2> QED
        BY <1>1, <1>8, <2>1, PostedTypes DEF PeerEnds, PeerPCs
<1> QED
    BY <1>4, <1>5, <1>6, <1>7, <1>8 DEF PeerReplaced, PeerCloses

\* Every step of the relay keeps the types of the handlers.
LEMMA HandlersStep ==
    ASSUME CallInv, RelayNext
    PROVE  HandlersOK'
<1>1. CASE Serve
    BY <1>1, Served DEF Serve, handlers, CallInv, HandlersOK
<1> QED
    BY <1>1, UploadsTyped, DownloadsTyped, CallsTyped, PeersTyped DEF RelayNext

-----------------------------------------------------------------------------
(* One call at a time.                                                      *)

\* A turn of the session task keeps it.
LEMMA ServeKeepsOneCall ==
    ASSUME CallInv, Serve
    PROVE  OneCall'
<1> DEFINE m == mailbox[1]
<1>1. /\ m \in Messages /\ m.from \in Callers
      /\ 1 \in Mails
      /\ UNCHANGED handlers
    BY OldestMessage, MessageFields
<1>2. \A i \in Mails' : i + 1 \in Mails /\ i + 1 # 1 /\ mailbox'[i] = mailbox[i + 1]
    BY Served DEF CallInv, HandlersOK
<1>3. /\ IsCall(m) => CallTaken(m.from)
      /\ ~IsCall(m) => NoticeTaken
    BY ServeTakesMessage
<1>4. TypeOK'
    BY ServeIsAStep, TypeStep DEF CallInv
<1>5. \A i \in Mails : mailbox[i] \in Messages /\ mailbox[i].from \in Callers
    BY ElementOfSeq, MessageFields DEF Mails, CallInv, HandlersOK
<1>6. OneCall
    BY DEF CallInv
<1> HIDE DEF m
<1>7. ASSUME NEW x \in Callers, answers[x] = NoAnswer, Waiter # x, IsCall(m) => x # m.from
      PROVE  answers'[x] = NoAnswer /\ Waiter' # x
    BY <1>3, <1>7 DEF CallTaken, NoticeTaken
<1>8. ASSUME NEW i \in Mails', NEW j \in Mails', IsCall(mailbox'[i]), IsCall(mailbox'[j]),
             mailbox'[i].from = mailbox'[j].from
      PROVE  i = j
    <2>1. i + 1 = j + 1
        BY <1>2, <1>6, <1>8 DEF OneCall
    <2> QED
        BY <2>1 DEF Mails
<1>9. ASSUME NEW i \in Mails', IsCall(mailbox'[i])
      PROVE  answers'[mailbox'[i].from] = NoAnswer /\ Waiter' # mailbox'[i].from
    <2>1. i + 1 \in Mails /\ i + 1 # 1 /\ mailbox'[i] = mailbox[i + 1]
        BY <1>2
    <2>2. /\ IsCall(m) => mailbox[i + 1].from # m.from
          /\ answers[mailbox[i + 1].from] = NoAnswer
          /\ Waiter # mailbox[i + 1].from
        BY <1>1, <1>6, <1>9, <2>1 DEF OneCall, m
    <2> QED
        BY <1>5, <1>7, <2>1, <2>2
<1>10. Waiter' # NoOne => answers'[Waiter'] = NoAnswer
    <2>1. Waiter' # NoOne => Waiter' \in Callers
        <3>1. Waiter' # NoOne => Waiter' \in Uploads
            BY <1>4, QueuedChunkType DEF TypeOK, Pendings, NoPending, Error, Waiter
        <3> QED
            BY <3>1 DEF Callers
    <2> QED
        BY <1>3, <1>6, <2>1 DEF CallTaken, NoticeTaken, OneCall
<1>11. ASSUME NEW h \in Resting'
       PROVE  answers'[h] = NoAnswer /\ Waiter' # h /\ ~Asked(h)'
    <2>1. h \in Resting /\ h \in Callers
        BY <1>1, <1>11 DEF Resting, handlers, Callers
    <2>2. answers[h] = NoAnswer /\ Waiter # h /\ ~Asked(h)
        BY <1>6, <2>1 DEF OneCall
    <2>3. ~Asked(h)'
        BY <1>2, <2>2 DEF Asked
    <2>4. IsCall(m) => h # m.from
        BY <1>1, <2>2 DEF Asked, m
    <2> QED
        BY <1>7, <2>1, <2>2, <2>3, <2>4
<1> QED
    BY <1>8, <1>9, <1>10, <1>11 DEF OneCall

\* The chunk an upload reads lies in the file and starts where it stands.
LEMMA ChunkRead ==
    ASSUME HandlersOK, NEW u \in Uploads, UploadReads(u)
    PROVE  \E chunk \in Chunks :
              /\ chunk.at = uploads[u].next /\ Fits(chunk)
              /\ uploads[u].pc = "Reading"
              /\ uploads'[u].pc = "Sending"
              /\ uploads'[u].next = chunk.at + chunk.size
              /\ uploads'[u].last = chunk.final
              /\ Post([cmd |-> "UploadData", from |-> u, chunk |-> chunk])
              /\ UNCHANGED <<vars, downloads, calls, peers>>
<1>1. PICK chunk \in Chunks :
         /\ chunk.at = uploads[u].next /\ chunk.at + chunk.size <= FileSize
         /\ chunk.final = (chunk.at + chunk.size = FileSize)
         /\ uploads' = [uploads EXCEPT ![u].pc = "Sending",
                                       ![u].next = chunk.at + chunk.size,
                                       ![u].last = chunk.final]
         /\ Post([cmd |-> "UploadData", from |-> u, chunk |-> chunk])
    BY DEF UploadReads
<1> DEFINE end == chunk.at + chunk.size
           final == chunk.final
<1>2. uploads' = [uploads EXCEPT ![u].pc = "Sending", ![u].next = end, ![u].last = final]
    BY <1>1
<1>3. Fits(chunk)
    BY <1>1 DEF Fits
<1> HIDE DEF end, final
<1>4. uploads'[u].pc = "Sending" /\ uploads'[u].next = end /\ uploads'[u].last = final
    BY <1>2 DEF HandlersOK
<1> QED
    BY <1>1, <1>3, <1>4 DEF UploadReads, end, final

\* A call is posted by a handler that rests, or has just read an answer.
LEMMA UploadsKeepOneCall ==
    ASSUME CallInv, NEW u \in Uploads,
           \/ \E p \in Positions : UploadArrives(u, p)
           \/ UploadRefused(u) \/ UploadStarted(u) \/ UploadAccepted(u)
           \/ UploadReads(u) \/ UploadAborts(u),
           slots' = slots
    PROVE  OneCall'
<1>1. /\ OneCall /\ mailbox \in Seq(Messages)
      /\ answers \in [Callers -> Answers]
      /\ uploads \in [Uploads -> [pc : UploadPCs, next : Positions, last : BOOLEAN,
                                  outcome : Answers \cup {Aborted}]]
      /\ u \in Callers /\ Waiter \in Callers \cup {NoOne}
    BY WaiterType DEF CallInv, HandlersOK, TypeOK, Callers
<1>2. UNCHANGED <<downloads, calls, peers>>
    BY DEF UploadArrives, UploadRefused, UploadStarted, UploadAccepted, UploadReads, UploadAborts
<1>3. \A v \in Uploads \ {u} : uploads'[v] = uploads[v]
    BY <1>1 DEF UploadArrives, UploadRefused, UploadStarted, UploadAccepted, UploadReads,
                UploadAborts, UploadEnds
<1>4. Resting' \subseteq Resting \cup {u} /\ Resting' \subseteq Callers
    BY <1>2, <1>3 DEF Resting, Callers
<1>5. u \in Resting <=> uploads[u].pc \in {"Idle", "Reading"}
    BY HandlersAreDistinct DEF Resting
<1>6. u \in Resting' <=> uploads'[u].pc \in {"Idle", "Reading"}
    BY HandlersAreDistinct DEF Resting
<1>7. ASSUME \/ UNCHANGED vars
             \/ ReadAnswer(u)
      PROVE  /\ \A x \in Callers \ {u} : answers'[x] = answers[x]
             /\ answers'[u] \in {answers[u], NoAnswer}
    BY <1>1, <1>7 DEF ReadAnswer, vars
<1>8. [cmd |-> "UploaderDisconnected", from |-> u] \in Messages
    BY DEF Messages
<1>9. ASSUME NEW outcome, UploadEnds(u, outcome), UNCHANGED vars \/ ReadAnswer(u)
      PROVE  OneCall'
    <2>1. ~(u \in Resting')
        BY <1>1, <1>6, <1>9 DEF UploadEnds
    <2> QED
        BY <1>1, <1>4, <1>7, <1>8, <1>9, <2>1, HandlerKeepsOneCall DEF UploadEnds, IsCall
<1>10. ASSUME NEW p \in Positions, UploadArrives(u, p)
       PROVE  OneCall'
    <2>1. [cmd |-> "StartUpload", from |-> u, position |-> p] \in Messages
        BY DEF Messages
    <2>2. u \in Resting /\ ~(u \in Resting') /\ answers[u] = NoAnswer
        BY <1>1, <1>5, <1>6, <1>10 DEF UploadArrives, OneCall
    <2>3. UNCHANGED vars /\ answers' = answers
        BY <1>10 DEF UploadArrives, vars
    <2> QED
        BY <1>1, <1>4, <1>7, <1>10, <2>1, <2>2, <2>3, HandlerKeepsOneCall DEF UploadArrives
<1>11. CASE UploadRefused(u)
    BY <1>9, <1>11 DEF UploadRefused
<1>12. CASE UploadStarted(u)
    <2>1. [cmd |-> "FlushUpload", from |-> u] \in Messages
        BY DEF Messages
    <2>2. ~(u \in Resting') /\ answers[u] # NoAnswer /\ answers'[u] = NoAnswer
        BY <1>1, <1>6, <1>12, ResultType DEF UploadStarted, ReadAnswer, CallInv, Ok, NoAnswer
    <2> QED
        BY <1>1, <1>4, <1>7, <1>12, <2>1, <2>2, HandlerKeepsOneCall DEF UploadStarted
<1>13. CASE UploadAccepted(u)
    <2>1. CASE UploadEnds(u, Ok)
        BY <1>9, <1>13, <2>1 DEF UploadAccepted
    <2>2. CASE mailbox' = mailbox
        <3>1. answers[u] # NoAnswer /\ answers'[u] = NoAnswer
            BY <1>1, <1>13, ResultType DEF UploadAccepted, ReadAnswer, CallInv, Ok, NoAnswer
        <3> QED
            BY <1>1, <1>4, <1>7, <1>13, <2>2, <3>1, HandlerKeepsOneCall DEF UploadAccepted
    <2> QED
        BY <1>13, <2>1, <2>2 DEF UploadAccepted
<1>14. CASE UploadReads(u)
    <2>1. PICK chunk \in Chunks :
             /\ uploads[u].pc = "Reading" /\ uploads'[u].pc = "Sending"
             /\ Post([cmd |-> "UploadData", from |-> u, chunk |-> chunk])
        BY <1>14, ChunkRead DEF CallInv
    <2>2. [cmd |-> "UploadData", from |-> u, chunk |-> chunk] \in Messages
        BY DEF Messages
    <2>3. u \in Resting /\ ~(u \in Resting') /\ answers[u] = NoAnswer
        BY <1>1, <1>5, <1>6, <2>1 DEF OneCall
    <2>4. UNCHANGED vars /\ answers' = answers
        BY <1>14 DEF UploadReads, vars
    <2> QED
        BY <1>1, <1>4, <1>7, <2>1, <2>2, <2>3, <2>4, HandlerKeepsOneCall
<1>15. CASE UploadAborts(u)
    BY <1>9, <1>15 DEF UploadAborts
<1> QED
    BY <1>10, <1>11, <1>12, <1>13, <1>14, <1>15

\* A download has at most one call out.
LEMMA DownloadsKeepOneCall ==
    ASSUME CallInv, NEW d \in Downloads,
           \/ \E p \in Positions : DownloadArrives(d, p)
           \/ DownloadStarted(d) \/ DownloadYields(d)
           \/ DownloadEnds(d) \/ DownloadDropped(d),
           slots' = slots
    PROVE  OneCall'
<1>1. /\ OneCall /\ mailbox \in Seq(Messages)
      /\ answers \in [Callers -> Answers]
      /\ downloads \in [Downloads -> [pc : DownloadPCs, next : Nat, completed : BOOLEAN]]
      /\ d \in Callers /\ Waiter \in Callers \cup {NoOne}
    BY WaiterType DEF CallInv, HandlersOK, TypeOK, Callers
<1>2. UNCHANGED <<uploads, calls, peers>>
    BY DEF DownloadArrives, DownloadStarted, DownloadYields, DownloadEnds, DownloadDropped,
           DownloadCloses
<1>3. \A e \in Downloads \ {d} : downloads'[e] = downloads[e]
    BY <1>1 DEF DownloadArrives, DownloadStarted, DownloadYields, DownloadEnds, DownloadDropped,
                DownloadCloses
<1>4. Resting' \subseteq Resting \cup {d} /\ Resting' \subseteq Callers
    BY <1>2, <1>3 DEF Resting, Callers
<1>5. d \in Resting <=> downloads[d].pc \in {"Idle", "Streaming"}
    BY HandlersAreDistinct DEF Resting
<1>6. d \in Resting' <=> downloads'[d].pc \in {"Idle", "Streaming"}
    BY HandlersAreDistinct DEF Resting
<1>7. ASSUME NEW p \in Positions, DownloadArrives(d, p)
      PROVE  OneCall'
    <2>1. [cmd |-> "StartDownload", from |-> d, position |-> p] \in Messages
        BY DEF Messages
    <2>2. d \in Resting /\ ~(d \in Resting') /\ answers[d] = NoAnswer
        BY <1>1, <1>5, <1>6, <1>7 DEF DownloadArrives, OneCall
    <2>3. answers' = answers
        BY <1>7 DEF DownloadArrives, vars
    <2> QED
        BY <1>1, <1>4, <1>7, <2>1, <2>2, <2>3, HandlerKeepsOneCall DEF DownloadArrives
<1>8. CASE DownloadStarted(d)
    <2>1. /\ \A x \in Callers \ {d} : answers'[x] = answers[x]
          /\ answers'[d] = NoAnswer
          /\ mailbox' = mailbox
        BY <1>1, <1>8 DEF DownloadStarted, ReadAnswer
    <2>2. d \in Resting' => answers[d] # NoAnswer
        BY <1>1, <1>6, <1>8, ResultType DEF DownloadStarted, CallInv, Ok, NoAnswer
    <2> QED
        BY <1>1, <1>4, <2>1, <2>2, HandlerKeepsOneCall
<1>9. CASE DownloadYields(d)
    <2>1. downloads'[d].pc = downloads[d].pc /\ downloads[d].pc = "Streaming"
        BY <1>1, <1>9 DEF DownloadYields
    <2>2. d \in Resting /\ answers[d] = NoAnswer
        BY <1>1, <1>5, <2>1 DEF OneCall
    <2>3. answers' = answers /\ mailbox' = mailbox
        BY <1>9 DEF DownloadYields
    <2> QED
        BY <1>1, <1>4, <2>2, <2>3, HandlerKeepsOneCall
<1>10. CASE DownloadCloses(d)
    <2>1. [cmd |-> "DownloaderDisconnected", from |-> d,
           completed |-> downloads[d].completed] \in Messages
        BY <1>1 DEF Messages
    <2>2. ~(d \in Resting')
        BY <1>1, <1>6, <1>10 DEF DownloadCloses
    <2>3. answers' = answers
        BY <1>10 DEF DownloadCloses, vars
    <2> QED
        BY <1>1, <1>4, <1>10, <2>1, <2>2, <2>3, HandlerKeepsOneCall DEF DownloadCloses, IsCall
<1>11. CASE DownloadEnds(d)
    BY <1>10, <1>11 DEF DownloadEnds
<1>12. CASE DownloadDropped(d)
    <2>1. ASSUME downloads' = [downloads EXCEPT ![d].pc = "Done"],
                 mailbox' = mailbox, answers' = answers
          PROVE  OneCall'
        <3>1. ~(d \in Resting')
            BY <1>1, <1>6, <2>1
        <3> QED
            BY <1>1, <1>4, <2>1, <3>1, HandlerKeepsOneCall
    <2> QED
        BY <1>10, <1>12, <2>1 DEF DownloadDropped, vars
<1> QED
    BY <1>7, <1>8, <1>9, <1>11, <1>12

\* A check or a finish has at most one call out.
LEMMA CallsKeepOneCall ==
    ASSUME CallInv, NEW c \in Checks \cup Finishes, CallArrives(c) \/ CallReturns(c),
           slots' = slots
    PROVE  OneCall'
<1>1. /\ OneCall /\ mailbox \in Seq(Messages)
      /\ answers \in [Callers -> Answers]
      /\ calls \in [Checks \cup Finishes -> {"Idle", "Waiting", "Done"}]
      /\ c \in Callers /\ Waiter \in Callers \cup {NoOne}
    BY WaiterType DEF CallInv, HandlersOK, TypeOK, Callers
<1>2. UNCHANGED <<uploads, downloads, peers>>
    BY DEF CallArrives, CallReturns
<1>3. /\ \A e \in (Checks \cup Finishes) \ {c} : calls'[e] = calls[e]
      /\ calls'[c] # "Idle"
    BY <1>1 DEF CallArrives, CallReturns
<1>4. Resting' \subseteq Resting \cup {c} /\ Resting' \subseteq Callers
    BY <1>2, <1>3 DEF Resting, Callers
<1>5. c \in Resting <=> calls[c] = "Idle"
    BY HandlersAreDistinct DEF Resting
<1>6. ~(c \in Resting')
    BY <1>3, HandlersAreDistinct DEF Resting
<1>7. CASE CallArrives(c)
    <2>1. c \in Resting /\ answers[c] = NoAnswer
        BY <1>1, <1>5, <1>7 DEF CallArrives, OneCall
    <2>2. \E m \in Messages : Post(m) /\ m.from = c
        <3>1. CASE c \in Finishes /\ Post([cmd |-> "FinishDownload", from |-> c])
            BY <3>1 DEF Messages
        <3>2. ASSUME c \in Checks, NEW p \in Positions,
                     Post([cmd |-> "CheckStartUpload", from |-> c, position |-> p])
              PROVE  \E m \in Messages : Post(m) /\ m.from = c
            <4>1. [cmd |-> "CheckStartUpload", from |-> c, position |-> p] \in Messages
                BY <3>2 DEF Messages
            <4> QED
                BY <3>2, <4>1
        <3> QED
            BY <1>7, <3>1, <3>2 DEF CallArrives
    <2>3. answers' = answers
        BY <1>7 DEF CallArrives, vars
    <2> QED
        BY <1>1, <1>4, <1>6, <2>1, <2>2, <2>3, HandlerKeepsOneCall
<1>8. CASE CallReturns(c)
    <2>1. /\ \A x \in Callers \ {c} : answers'[x] = answers[x]
          /\ answers'[c] = NoAnswer
          /\ mailbox' = mailbox
        BY <1>1, <1>8 DEF CallReturns, ReadAnswer
    <2> QED
        BY <1>1, <1>4, <1>6, <2>1, HandlerKeepsOneCall
<1> QED
    BY <1>7, <1>8

\* A websocket has at most one call out.
LEMMA PeersKeepOneCall ==
    ASSUME CallInv, NEW w \in Peers,
           \/ PeerConnects(w) \/ PeerStarted(w) \/ PeerDelivers(w)
           \/ PeerSends(w) \/ PeerReplaced(w) \/ PeerCloses(w),
           slots' = slots
    PROVE  OneCall'
<1>1. /\ OneCall /\ mailbox \in Seq(Messages)
      /\ answers \in [Callers -> Answers]
      /\ peers \in [Peers -> [pc : PeerPCs, sent : Nat, received : Seq(Commands)]]
      /\ w \in Callers /\ Waiter \in Callers \cup {NoOne}
    BY WaiterType DEF CallInv, HandlersOK, TypeOK, Callers
<1>2. UNCHANGED <<uploads, downloads, calls>>
    BY DEF PeerConnects, PeerStarted, PeerDelivers, PeerSends, PeerReplaced, PeerCloses, PeerEnds
<1>3. \A e \in Peers \ {w} : peers'[e] = peers[e]
    BY <1>1 DEF PeerConnects, PeerStarted, PeerDelivers, PeerSends, PeerReplaced, PeerCloses,
                PeerEnds
<1>4. Resting' \subseteq Resting \cup {w} /\ Resting' \subseteq Callers
    BY <1>2, <1>3 DEF Resting, Callers
<1>5. w \in Resting <=> peers[w].pc \in {"Idle", "Open"}
    BY HandlersAreDistinct DEF Resting
<1>6. w \in Resting' <=> peers'[w].pc \in {"Idle", "Open"}
    BY HandlersAreDistinct DEF Resting
<1>7. CASE PeerConnects(w)
    <2>1. [cmd |-> "StartWebsocket", from |-> w] \in Messages
        BY DEF Messages
    <2>2. w \in Resting /\ ~(w \in Resting') /\ answers[w] = NoAnswer
        BY <1>1, <1>5, <1>6, <1>7 DEF PeerConnects, OneCall
    <2>3. answers' = answers
        BY <1>7 DEF PeerConnects, vars
    <2> QED
        BY <1>1, <1>4, <1>7, <2>1, <2>2, <2>3, HandlerKeepsOneCall DEF PeerConnects
<1>8. CASE PeerStarted(w)
    <2>1. /\ \A x \in Callers \ {w} : answers'[x] = answers[x]
          /\ answers'[w] = NoAnswer
          /\ mailbox' = mailbox
        BY <1>1, <1>8 DEF PeerStarted, ReadAnswer
    <2>2. w \in Resting' => answers[w] # NoAnswer
        BY <1>1, <1>6, <1>8, ResultType DEF PeerStarted, CallInv, Ok, NoAnswer
    <2> QED
        BY <1>1, <1>4, <2>1, <2>2, HandlerKeepsOneCall
<1>9. CASE PeerDelivers(w)
    <2>1. peers'[w].pc = peers[w].pc /\ peers[w].pc = "Open"
        BY <1>1, <1>9 DEF PeerDelivers
    <2>2. w \in Resting /\ answers[w] = NoAnswer
        BY <1>1, <1>5, <2>1 DEF OneCall
    <2>3. answers' = answers /\ mailbox' = mailbox
        BY <1>9 DEF PeerDelivers
    <2> QED
        BY <1>1, <1>4, <2>2, <2>3, HandlerKeepsOneCall
<1>10. CASE PeerSends(w)
    <2>1. [cmd |-> "WebsocketData", from |-> w, frame |-> <<w, peers[w].sent + 1>>] \in Messages
        BY <1>10 DEF Messages, PeerSends
    <2>2. peers[w].pc = "Open"
        BY <1>10 DEF PeerSends
    <2>3. w \in Resting /\ answers[w] = NoAnswer
        BY <1>1, <1>5, <2>2 DEF OneCall
    <2>4. answers' = answers
        BY <1>10 DEF PeerSends, vars
    <2> QED
        BY <1>1, <1>4, <1>10, <2>1, <2>3, <2>4, HandlerKeepsOneCall DEF PeerSends, IsCall
<1>11. CASE PeerEnds(w)
    <2>1. [cmd |-> "WebsocketDisconnected", from |-> w] \in Messages
        BY DEF Messages
    <2>2. ~(w \in Resting')
        BY <1>1, <1>6, <1>11 DEF PeerEnds
    <2>3. answers' = answers
        BY <1>11 DEF PeerEnds, vars
    <2> QED
        BY <1>1, <1>4, <1>11, <2>1, <2>2, <2>3, HandlerKeepsOneCall DEF PeerEnds, IsCall
<1> QED
    BY <1>7, <1>8, <1>9, <1>10, <1>11 DEF PeerReplaced, PeerCloses

\* Every step of the relay leaves every handler at most one call.
LEMMA OneCallStep ==
    ASSUME CallInv, RelayNext
    PROVE  OneCall'
<1>1. CASE Serve
    BY <1>1, ServeKeepsOneCall
<1>2. CASE ~Serve
    <2>1. slots' = slots
        BY <1>2, HandlerStepIsAStep
    <2> QED
        BY <1>2, <2>1, UploadsKeepOneCall, DownloadsKeepOneCall, CallsKeepOneCall,
           PeersKeepOneCall, Zenon DEF RelayNext
<1> QED
    BY <1>1, <1>2

-----------------------------------------------------------------------------
(* A token is used once.                                                    *)

\* Only a handler that arrives posts a start, and no handler arrives twice.
LEMMA IdleHandlers ==
    ASSUME CallInv, RelayNext, ~Serve
    PROVE  /\ \A u \in Uploads : uploads'[u].pc = "Idle" => uploads[u].pc = "Idle"
           /\ \A d \in Downloads : downloads'[d].pc = "Idle" => downloads[d].pc = "Idle"
           /\ \A w \in Peers : peers'[w].pc = "Idle" => peers[w].pc = "Idle"
           /\ \/ mailbox' = mailbox
              \/ \E m \in Messages :
                    /\ Post(m)
                    /\ m.cmd = "StartUpload" => uploads[m.from].pc = "Idle"
                    /\ m.cmd = "StartDownload" => downloads[m.from].pc = "Idle"
                    /\ m.cmd = "StartWebsocket" => peers[m.from].pc = "Idle"
<1>1. /\ uploads \in [Uploads -> [pc : UploadPCs, next : Positions, last : BOOLEAN,
                                  outcome : Answers \cup {Aborted}]]
      /\ downloads \in [Downloads -> [pc : DownloadPCs, next : Nat, completed : BOOLEAN]]
      /\ peers \in [Peers -> [pc : PeerPCs, sent : Nat, received : Seq(Commands)]]
    BY DEF CallInv, HandlersOK
<1>2. ASSUME NEW u \in Uploads,
             \/ \E p \in Positions : UploadArrives(u, p)
             \/ UploadRefused(u) \/ UploadStarted(u) \/ UploadAccepted(u)
             \/ UploadReads(u) \/ UploadAborts(u)
      PROVE  /\ \A v \in Uploads : uploads'[v].pc = "Idle" => uploads[v].pc = "Idle"
             /\ UNCHANGED <<downloads, peers>>
    <2>1. /\ \A v \in Uploads \ {u} : uploads'[v] = uploads[v]
          /\ UNCHANGED <<downloads, peers>>
        BY <1>1, <1>2 DEF UploadArrives, UploadRefused, UploadStarted, UploadAccepted, UploadReads,
                          UploadAborts, UploadEnds
    <2>2. \A p \in Positions : UploadArrives(u, p) => uploads'[u].pc # "Idle"
        BY <1>1 DEF UploadArrives
    <2>3. \A outcome : UploadEnds(u, outcome) => uploads'[u].pc # "Idle"
        BY <1>1 DEF UploadEnds
    <2>4. UploadStarted(u) => uploads'[u].pc # "Idle"
        BY <1>1 DEF UploadStarted
    <2>5. UploadAccepted(u) => uploads'[u].pc # "Idle"
        BY <1>1, <2>3 DEF UploadAccepted
    <2>6. UploadReads(u) => uploads'[u].pc # "Idle"
        BY ChunkRead DEF CallInv
    <2> QED
        BY <1>2, <2>1, <2>2, <2>3, <2>4, <2>5, <2>6 DEF UploadRefused, UploadAborts
<1>3. ASSUME NEW u \in Uploads,
             \/ \E p \in Positions : UploadArrives(u, p)
             \/ UploadRefused(u) \/ UploadStarted(u) \/ UploadAccepted(u)
             \/ UploadReads(u) \/ UploadAborts(u)
      PROVE  \/ mailbox' = mailbox
             \/ \E m \in Messages :
                    /\ Post(m) /\ m.cmd # "StartDownload" /\ m.cmd # "StartWebsocket"
                    /\ m.cmd = "StartUpload" => uploads[m.from].pc = "Idle"
    <2>1. [cmd |-> "UploaderDisconnected", from |-> u] \in Messages
        BY DEF Messages
    <2>2. [cmd |-> "FlushUpload", from |-> u] \in Messages
        BY DEF Messages
    <2>3. \A p \in Positions : [cmd |-> "StartUpload", from |-> u, position |-> p] \in Messages
        BY DEF Messages
    <2>4. \A c \in Chunks : [cmd |-> "UploadData", from |-> u, chunk |-> c] \in Messages
        BY DEF Messages
    <2> QED
        BY <1>3, <2>1, <2>2, <2>3, <2>4
           DEF UploadArrives, UploadRefused, UploadStarted, UploadAccepted, UploadReads,
               UploadAborts, UploadEnds
<1>4. ASSUME NEW d \in Downloads,
             \/ \E p \in Positions : DownloadArrives(d, p)
             \/ DownloadStarted(d) \/ DownloadYields(d)
             \/ DownloadEnds(d) \/ DownloadDropped(d)
      PROVE  /\ \A e \in Downloads : downloads'[e].pc = "Idle" => downloads[e].pc = "Idle"
             /\ UNCHANGED <<uploads, peers>>
    <2>1. /\ \A e \in Downloads \ {d} : downloads'[e] = downloads[e]
          /\ UNCHANGED <<uploads, peers>>
        BY <1>1, <1>4 DEF DownloadArrives, DownloadStarted, DownloadYields, DownloadEnds,
                          DownloadDropped, DownloadCloses
    <2>2. \A p \in Positions : DownloadArrives(d, p) => downloads'[d].pc # "Idle"
        BY <1>1 DEF DownloadArrives
    <2>3. DownloadStarted(d) => downloads'[d].pc # "Idle"
        BY <1>1 DEF DownloadStarted
    <2>4. DownloadYields(d) => downloads'[d].pc # "Idle"
        BY <1>1 DEF DownloadYields
    <2>5. DownloadEnds(d) \/ DownloadDropped(d) => downloads'[d].pc # "Idle"
        BY <1>1 DEF DownloadEnds, DownloadDropped, DownloadCloses
    <2> QED
        BY <1>4, <2>1, <2>2, <2>3, <2>4, <2>5
<1>5. ASSUME NEW d \in Downloads,
             \/ \E p \in Positions : DownloadArrives(d, p)
             \/ DownloadStarted(d) \/ DownloadYields(d)
             \/ DownloadEnds(d) \/ DownloadDropped(d)
      PROVE  \/ mailbox' = mailbox
             \/ \E m \in Messages :
                    /\ Post(m) /\ m.cmd # "StartUpload" /\ m.cmd # "StartWebsocket"
                    /\ m.cmd = "StartDownload" => downloads[m.from].pc = "Idle"
    <2>1. [cmd |-> "DownloaderDisconnected", from |-> d,
           completed |-> downloads[d].completed] \in Messages
        BY <1>1 DEF Messages
    <2>2. \A p \in Positions : [cmd |-> "StartDownload", from |-> d, position |-> p] \in Messages
        BY DEF Messages
    <2> QED
        BY <1>5, <2>1, <2>2 DEF DownloadArrives, DownloadStarted, DownloadYields, DownloadEnds,
                                DownloadDropped, DownloadCloses
<1>6. ASSUME NEW c \in Checks \cup Finishes, CallArrives(c) \/ CallReturns(c)
      PROVE  /\ UNCHANGED <<uploads, downloads, peers>>
             /\ \/ mailbox' = mailbox
                \/ \E m \in Messages : Post(m) /\ ~IsStart(m)
    <2>1. /\ c \in Finishes => [cmd |-> "FinishDownload", from |-> c] \in Messages
          /\ c \in Checks => \A p \in Positions :
                [cmd |-> "CheckStartUpload", from |-> c, position |-> p] \in Messages
        BY DEF Messages
    <2> QED
        BY <1>6, <2>1 DEF CallArrives, CallReturns, IsStart
<1>7. ASSUME NEW w \in Peers,
             \/ PeerConnects(w) \/ PeerStarted(w) \/ PeerDelivers(w)
             \/ PeerSends(w) \/ PeerReplaced(w) \/ PeerCloses(w)
      PROVE  /\ \A v \in Peers : peers'[v].pc = "Idle" => peers[v].pc = "Idle"
             /\ UNCHANGED <<uploads, downloads>>
             /\ \/ mailbox' = mailbox
                \/ \E m \in Messages :
                    /\ Post(m) /\ m.cmd # "StartUpload" /\ m.cmd # "StartDownload"
                    /\ m.cmd = "StartWebsocket" => peers[m.from].pc = "Idle"
    <2>1. [cmd |-> "StartWebsocket", from |-> w] \in Messages
        BY DEF Messages
    <2>2. [cmd |-> "WebsocketDisconnected", from |-> w] \in Messages
        BY DEF Messages
    <2>3. <<w, peers[w].sent + 1>> \in Frames =>
             [cmd |-> "WebsocketData", from |-> w, frame |-> <<w, peers[w].sent + 1>>] \in Messages
        BY DEF Messages
    <2>4. \A v \in Peers : peers'[v].pc = "Idle" => peers[v].pc = "Idle"
        BY ZenonT(60), <1>1, <1>7 DEF PeerConnects, PeerStarted, PeerDelivers, PeerSends, PeerReplaced,
                          PeerCloses, PeerEnds
    <2> QED
        BY <1>7, <2>1, <2>2, <2>3, <2>4
           DEF PeerConnects, PeerStarted, PeerDelivers, PeerSends, PeerReplaced, PeerCloses,
               PeerEnds
<1>8. CASE \E u \in Uploads :
             \/ \E p \in Positions : UploadArrives(u, p)
             \/ UploadRefused(u) \/ UploadStarted(u) \/ UploadAccepted(u)
             \/ UploadReads(u) \/ UploadAborts(u)
    BY <1>2, <1>3, <1>8
<1>9. CASE \E d \in Downloads :
             \/ \E p \in Positions : DownloadArrives(d, p)
             \/ DownloadStarted(d) \/ DownloadYields(d)
             \/ DownloadEnds(d) \/ DownloadDropped(d)
    BY <1>4, <1>5, <1>9
<1>10. CASE \E c \in Checks \cup Finishes : CallArrives(c) \/ CallReturns(c)
    BY <1>6, <1>10 DEF IsStart
<1>11. CASE \E w \in Peers :
             \/ PeerConnects(w) \/ PeerStarted(w) \/ PeerDelivers(w)
             \/ PeerSends(w) \/ PeerReplaced(w) \/ PeerCloses(w)
    BY <1>7, <1>11
<1> QED
    BY <1>8, <1>9, <1>10, <1>11 DEF RelayNext

\* Every step of the relay uses a token once.
LEMMA StartsOnceStep ==
    ASSUME CallInv, RelayNext
    PROVE  StartsOnce'
<1>1. mailbox \in Seq(Messages) /\ StartsOnce /\ OneCall
    BY DEF CallInv, HandlersOK
<1>2. CASE Serve
    <2> DEFINE m == mailbox[1]
    <2>1. /\ 1 \in Mails /\ m \in Messages
          /\ UNCHANGED handlers
          /\ started' = IF IsStart(m) THEN started \cup {m.from} ELSE started
        BY <1>2, OldestMessage, ServeTakesMessage
    <2>2. \A i \in Mails' : i + 1 \in Mails /\ i + 1 # 1 /\ mailbox'[i] = mailbox[i + 1]
        BY <1>1, <1>2, Served
    <2>3. \A i \in Mails : IsStart(mailbox[i]) => IsCall(mailbox[i])
        BY DEF IsStart, IsCall
    <2>4. ASSUME NEW i \in Mails', IsStart(mailbox'[i])
          PROVE  mailbox'[i].from \notin started'
        <3>1. /\ i + 1 \in Mails /\ i + 1 # 1 /\ mailbox'[i] = mailbox[i + 1]
              /\ IsStart(mailbox[i + 1]) /\ mailbox[i + 1].from \notin started
            BY <1>1, <2>2, <2>4 DEF StartsOnce
        <3>2. IsStart(m) => mailbox[i + 1].from # m.from
            BY <1>1, <2>1, <2>3, <3>1 DEF OneCall
        <3> QED
            BY <2>1, <3>1, <3>2
    <2>5. ASSUME NEW h \in Resting, h \notin started
          PROVE  h \notin started'
        <3>1. ~Asked(h)
            BY <1>1 DEF OneCall
        <3> QED
            BY <2>1, <2>3, <2>5, <3>1 DEF Asked
    <2>6. /\ \A u \in Uploads : uploads'[u].pc = "Idle" => u \notin started'
          /\ \A d \in Downloads : downloads'[d].pc = "Idle" => d \notin started'
          /\ \A w \in Peers : peers'[w].pc = "Idle" => w \notin started'
        BY <1>1, <2>1, <2>5 DEF handlers, Resting, StartsOnce
    <2>7. ~running' => mailbox' = <<>>
        BY <1>1, <1>2, Served
    <2> QED
        BY <2>4, <2>6, <2>7 DEF StartsOnce
<1>3. CASE ~Serve
    <2>1. running' = running /\ started' = started
        BY <1>3, HandlerStepIsAStep
    <2>2. CASE mailbox' = mailbox
        BY <1>1, <1>3, <2>1, <2>2, IdleHandlers DEF StartsOnce, Mails
    <2>3. ASSUME NEW m \in Messages, Post(m),
                 m.cmd = "StartUpload" => uploads[m.from].pc = "Idle",
                 m.cmd = "StartDownload" => downloads[m.from].pc = "Idle",
                 m.cmd = "StartWebsocket" => peers[m.from].pc = "Idle"
          PROVE  StartsOnce'
        <3>1. IsStart(m) => m.from \notin started
            BY <1>1, <2>3, MessageFields DEF IsStart, StartsOnce
        <3>2. \A i \in Mails' : mailbox'[i] = m \/ (i \in Mails /\ mailbox'[i] = mailbox[i])
            BY <1>1, <2>3, Posted
        <3>3. ~running => mailbox' = mailbox
            BY <2>3 DEF Post
        <3> QED
            BY <1>1, <1>3, <2>1, <3>1, <3>2, <3>3, IdleHandlers DEF StartsOnce
    <2> QED
        BY <1>3, <2>2, <2>3, IdleHandlers
<1> QED
    BY <1>2, <1>3

-----------------------------------------------------------------------------
(* Where the uploads are.                                                   *)

\* The session moves its uploader by what it was sent: the position a start
\* names, or the size of a chunk it has taken.
LEMMA UploaderMoves ==
    ASSUME CallInv, Serve, NEW u \in Uploads, IsUploader(u)'
    PROVE  \/ /\ IsUploader(u) /\ uploader'.position = uploader.position
              /\ mailbox[1].cmd = "UploadData" /\ mailbox[1].from = u
                    => answers'[u] \notin {Ok, NoAnswer}
           \/ /\ mailbox[1].cmd = "StartUpload" /\ mailbox[1].from = u
              /\ uploader'.position = mailbox[1].position
           \/ /\ mailbox[1].cmd = "UploadData" /\ mailbox[1].from = u
              /\ IsUploader(u) /\ uploader'.position = uploader.position + mailbox[1].chunk.size
<1> DEFINE m == mailbox[1]
<1>1. /\ 1 \in Mails /\ m \in Messages /\ Dispatch(m)
      /\ TypeOK /\ (IsCall(m) => Waiter # m.from /\ answers[m.from] = NoAnswer)
    BY OldestMessage, CallerIsFree DEF CallInv, Free
<1> HIDE DEF m
<1> USE MessageFields, <1>1
<1>2. ASSUME uploader' = uploader, m.cmd # "UploadData"
      PROVE  IsUploader(u) /\ uploader'.position = uploader.position
    BY <1>2 DEF IsUploader
<1>3. uploader' # NoUploader
    BY DEF IsUploader, NoUploader
<1>4. CASE m.cmd = "StartUpload" /\ StartUpload(m.from, m.position)
    <2>1. uploader' = Uploader(m.from, m.position)
        BY <1>3, <1>4 DEF StartUpload
    <2> QED
        BY <1>4, <2>1 DEF Uploader, IsUploader, m
<1>5. CASE m.cmd = "UploadData" /\ UploadData(m.from, m.chunk)
    <2>1. CASE /\ uploader' = uploader
               /\ answers'[m.from] \notin {Ok, NoAnswer}
        BY <1>5, <2>1 DEF IsUploader, m
    <2>2. CASE /\ IsUploader(m.from)
               /\ uploader' = [uploader EXCEPT !.position = @ + m.chunk.size]
        <3>1. uploader \in UploaderSlots /\ uploader.tag = "Some"
            BY <2>2 DEF TypeOK, IsUploader
        <3>2. /\ uploader'.token = uploader.token
              /\ uploader'.position = uploader.position + m.chunk.size
            BY <2>2, <3>1 DEF UploaderSlots, NoUploader
        <3> QED
            BY <1>5, <2>2, <3>1, <3>2 DEF IsUploader, m
    <2>3. CASE Refused(m.from) /\ UNCHANGED <<slots, events, inbox>>
        <3>1. answers'[m.from] \notin {Ok, NoAnswer} /\ uploader' = uploader
            BY <1>5, <2>3, RefusedAnswers DEF IsCall, slots
        <3> QED
            BY <2>1, <3>1
    <2>4. CASE /\ answers' = AnswersWith(m.from, DataPending, NoOne, Ok)
               /\ UNCHANGED <<slots, events, inbox>>
        <3>1. answers'[m.from] = DataPending
            BY <2>4, AnswersWithValues
        <3>2. answers'[m.from] \notin {Ok, NoAnswer} /\ uploader' = uploader
            BY <2>4, <3>1 DEF slots, DataPending, Ok, NoAnswer
        <3> QED
            BY <2>1, <3>2
    <2> QED
        BY <1>5, <2>2, <2>3, <2>4 DEF UploadData
<1>6. CASE m.cmd = "StartDownload" /\ StartDownload(m.from, m.position)
    BY <1>2, <1>6 DEF StartDownload, m
<1>7. CASE m.cmd = "FinishDownload" /\ FinishDownload(m.from)
    <2>1. uploader' = uploader
        BY <1>3, <1>7 DEF FinishDownload
    <2> QED
        BY <1>2, <1>7, <2>1 DEF m
<1>8. CASE m.cmd = "CheckStartUpload" /\ CheckStartUpload(m.from, m.position)
    BY <1>2, <1>8 DEF CheckStartUpload, slots, m
<1>9. CASE m.cmd = "FlushUpload" /\ FlushUpload(m.from)
    BY <1>2, <1>9 DEF FlushUpload, m
<1>10. CASE m.cmd = "StartWebsocket" /\ StartWebsocket(m.from)
    BY <1>2, <1>10 DEF StartWebsocket, slots, m
<1>11. CASE m.cmd = "WebsocketData" /\ RelayFrame(DirectionOf(m.from), m.frame)
    BY <1>2, <1>11 DEF RelayFrame, slots, m
<1>12. CASE m.cmd = "DownloaderDisconnected" /\ DownloaderDisconnected(m.from, m.completed)
    BY <1>2, <1>12 DEF DownloaderDisconnected, m
<1>13. CASE m.cmd = "UploaderDisconnected" /\ UploaderDisconnected(m.from)
    <2>1. uploader' = uploader
        BY <1>3, <1>13 DEF UploaderDisconnected
    <2> QED
        BY <1>2, <1>13, <2>1 DEF m
<1>14. CASE m.cmd = "WebsocketDisconnected" /\ WebsocketDisconnected(m.from)
    BY <1>2, <1>14 DEF WebsocketDisconnected, slots, m
<1> QED
    BY <1>4, <1>5, <1>6, <1>7, <1>8, <1>9, <1>10, <1>11, <1>12, <1>13, <1>14 DEF Dispatch

\* A turn of the session task leaves its uploader where the handler is.
LEMMA ServeKeepsUploads ==
    ASSUME CallInv, Serve
    PROVE  UploadsOK'
<1> DEFINE m == mailbox[1]
<1>1. /\ 1 \in Mails /\ m \in Messages /\ running
      /\ UNCHANGED handlers
      /\ started' = IF IsStart(m) THEN started \cup {m.from} ELSE started
    BY OldestMessage, ServeTakesMessage
<1>2. /\ \A i \in Mails' : i + 1 \in Mails /\ i + 1 # 1 /\ mailbox'[i] = mailbox[i + 1]
      /\ running' => \A i \in Mails \ {1} : i - 1 \in Mails' /\ mailbox'[i - 1] = mailbox[i]
    BY Served DEF CallInv, HandlersOK
<1>3. TypeOK /\ HandlersOK /\ OneCall /\ UploadsOK
    BY DEF CallInv
<1>4. \A i \in Mails : mailbox[i] \in Messages
    BY <1>3, ElementOfSeq DEF Mails, HandlersOK
<1>5. uploads' = uploads
    BY <1>1 DEF handlers
<1>6. ASSUME NEW i \in Mails'
      PROVE  UploadMail(mailbox[i])'
    <2>1. PICK n \in Messages : n = mailbox[i + 1] /\ n = mailbox'[i]
        BY <1>2, <1>4
    <2>2. i + 1 \in Mails /\ i + 1 # 1 /\ UploadMail(n)
        BY <1>2, <1>3, <2>1 DEF UploadsOK
    <2>3. n.cmd = "UploadData" /\ IsUploader(n.from)' => uploader'.position = n.chunk.at
        <3>1. SUFFICES ASSUME n.cmd = "UploadData", IsUploader(n.from)'
                       PROVE  uploader'.position = n.chunk.at
            OBVIOUS
        <3>2. IsCall(n) /\ n.from \in Uploads
            BY <3>1, MessageFields DEF IsCall
        <3>3. IsCall(m) => m.from # n.from
            BY <1>1, <1>3, <2>1, <2>2, <3>2 DEF OneCall
        <3>4. IsUploader(n.from) /\ uploader'.position = uploader.position
            BY <3>1, <3>2, <3>3, UploaderMoves DEF IsCall
        <3> QED
            BY <2>2, <3>1, <3>4 DEF UploadMail
    <2>4. UploadMail(n)'
        BY <1>5, <2>2, <2>3 DEF UploadMail
    <2> QED
        BY <2>1, <2>4 DEF UploadMail, IsUploader
<1>8. ASSUME NEW u \in Uploads
      PROVE  UploaderIsAt(u)'
    <2>1. SUFFICES ASSUME IsUploader(u)'
                   PROVE  UploaderIsAt(u)'
        BY DEF UploaderIsAt
    <2>2. UploadMail(m)
        BY <1>1, <1>3 DEF UploadsOK
    <2>3. CASE /\ IsUploader(u) /\ uploader'.position = uploader.position
               /\ m.cmd = "UploadData" /\ m.from = u => answers'[u] \notin {Ok, NoAnswer}
        <3>1. UploaderIsAt(u) /\ u \in started'
            BY <1>1, <1>3, <2>3 DEF UploadsOK, UploaderIsAt
        <3>2. ASSUME uploads[u].pc = "Sending", ~Asked(u)',
                     answers'[u] = Ok \/ (running' /\ answers'[u] = NoAnswer)
              PROVE  uploader.position = uploads[u].next
            <4>1. u \in Callers
                BY DEF Callers
            <4>2. Ok # NoAnswer
                BY DEF Ok, NoAnswer
            <4>3. ~(IsCall(m) /\ m.from = u)
                BY <2>2, <2>3, <3>2, <4>2, MessageFields, HandlersAreDistinct, <1>1
                   DEF UploadMail, IsCall
            <4>4. \/ answers'[u] = answers[u]
                  \/ u = Waiter /\ Waiter' # u /\ answers'[u] # NoAnswer
                BY <4>1, <4>3, ServeTakesMessage DEF CallTaken, NoticeTaken
            <4>5. answers[u] \in {Ok, NoAnswer}
                BY <1>3, <3>2, <4>1, <4>4, NoOneIsNoHandler DEF OneCall
            <4>6. ~Asked(u)
                <5>1. ASSUME NEW i \in Mails, IsCall(mailbox[i]), mailbox[i].from = u
                      PROVE  FALSE
                    <6>1. i # 1
                        BY <4>3, <5>1
                    <6>2. ~running'
                        BY <1>2, <3>2, <5>1, <6>1 DEF Asked
                    <6>3. answers[u] = NoAnswer /\ Waiter # u
                        BY <1>3, <5>1 DEF OneCall
                    <6> QED
                        BY <3>2, <4>2, <4>4, <6>2, <6>3
                <5> QED
                    BY <5>1 DEF Asked
            <4> QED
                BY <1>1, <2>3, <3>1, <3>2, <4>5, <4>6 DEF UploaderIsAt
        <3> QED
            BY <1>5, <2>3, <3>1, <3>2 DEF UploaderIsAt
    <2>4. CASE m.cmd = "StartUpload" /\ m.from = u /\ uploader'.position = m.position
        <3>1. u \in started'
            BY <1>1, <2>4 DEF IsStart
        <3>2. uploads[u].pc # "Done" => uploads[u].pc = "Starting" /\ m.position = uploads[u].next
            BY <2>2, <2>4 DEF UploadMail
        <3> QED
            BY <1>5, <2>4, <3>1, <3>2 DEF UploaderIsAt
    <2>5. CASE /\ m.cmd = "UploadData" /\ m.from = u
               /\ IsUploader(u) /\ uploader'.position = uploader.position + m.chunk.size
        <3>1. u \in started'
            BY <1>1, <1>3, <2>5 DEF UploadsOK, UploaderIsAt
        <3>2. /\ uploader.position = m.chunk.at
              /\ uploads[u].pc # "Done" => /\ uploads[u].pc = "Sending"
                                           /\ uploads[u].next = m.chunk.at + m.chunk.size
            BY <2>2, <2>5 DEF UploadMail
        <3> QED
            BY <1>5, <2>5, <3>1, <3>2 DEF UploaderIsAt
    <2> QED
        BY <2>1, <2>3, <2>4, <2>5, UploaderMoves
<1>9. \A u \in Uploads : uploads'[u].last => uploads'[u].pc = "Sending"
    BY <1>3, <1>5 DEF UploadsOK
<1> QED
    BY <1>6, <1>8, <1>9 DEF UploadsOK

\* What a handler leaves alone: the other uploads.  Its own messages, old and
\* new, have to agree with where it now is.
LEMMA HandlerKeepsUploads ==
    ASSUME CallInv, NEW h \in Callers,
           slots' = slots, running' = running, started' = started,
           \A v \in Uploads \ {h} : uploads'[v] = uploads[v] /\ answers'[v] = answers[v],
           h \in Uploads => /\ UploaderIsAt(h)'
                            /\ uploads'[h].last => uploads'[h].pc = "Sending"
                            /\ \A n \in Messages :
                                 n.from = h /\ (\E i \in Mails : mailbox[i] = n) => UploadMail(n)',
           \/ mailbox' = mailbox
           \/ \E m \in Messages : Post(m) /\ (running => UploadMail(m)')
    PROVE  UploadsOK'
<1>1. mailbox \in Seq(Messages) /\ UploadsOK
    BY DEF CallInv, HandlersOK
<1>2. uploader' = uploader
    BY DEF slots
<1>3. \A i \in Mails : mailbox[i] \in Messages
    BY <1>1, ElementOfSeq DEF Mails
<1>4. ASSUME NEW n \in Messages, NEW i \in Mails, mailbox[i] = n
      PROVE  UploadMail(n)'
    <2>1. CASE n.from = h /\ n.cmd \in {"StartUpload", "FlushUpload", "UploadData",
                                         "UploaderDisconnected"}
        <3>1. n.from \in Uploads
            BY <2>1, MessageFields
        <3> QED
            BY <1>4, <2>1, <3>1
    <2>2. CASE n.cmd \notin {"StartUpload", "FlushUpload", "UploadData", "UploaderDisconnected"}
        BY <2>2 DEF UploadMail
    <2>3. CASE n.from # h /\ n.cmd \in {"StartUpload", "FlushUpload", "UploadData",
                                         "UploaderDisconnected"}
        <3>1. n.from \in Uploads \ {h}
            BY <2>3, MessageFields
        <3>2. UploadMail(n)
            BY <1>1, <1>4 DEF UploadsOK
        <3>3. uploads'[n.from] = uploads[n.from]
            BY <3>1
        <3> QED
            BY <1>2, <3>2, <3>3 DEF UploadMail, IsUploader
    <2> QED
        BY <2>1, <2>2, <2>3
<1>5. \A i \in Mails' : \E n \in Messages :
         mailbox'[i] = n /\ UploadMail(n)'
    <2>1. CASE mailbox' = mailbox
        BY <1>3, <1>4, <2>1 DEF Mails
    <2>2. ASSUME NEW m \in Messages, Post(m), running => UploadMail(m)'
          PROVE  \A i \in Mails' : \E n \in Messages : mailbox'[i] = n /\ UploadMail(n)'
        <3>1. \A i \in Mails' : \/ i \in Mails /\ mailbox'[i] = mailbox[i]
                                \/ running /\ mailbox'[i] = m
            BY <1>1, <2>2, Posted
        <3> QED
            BY <1>3, <1>4, <2>2, <3>1
    <2> QED
        BY <2>1, <2>2
<1>6. ASSUME NEW i \in Mails'
      PROVE  UploadMail(mailbox[i])'
    BY <1>5 DEF UploadMail, IsUploader
<1>7. ASSUME NEW v \in Uploads \ {h}
      PROVE  UploaderIsAt(v)' /\ (uploads'[v].last => uploads'[v].pc = "Sending")
    <2>1. Asked(v) => Asked(v)'
        BY <1>1, Posted DEF Asked, Mails
    <2>2. UploaderIsAt(v) /\ uploads'[v] = uploads[v] /\ answers'[v] = answers[v]
        BY <1>1 DEF UploadsOK
    <2>3. UploaderIsAt(v)'
        BY <1>2, <2>1, <2>2 DEF UploaderIsAt, IsUploader
    <2> QED
        BY <1>1, <2>2, <2>3 DEF UploadsOK
<1> QED
    BY <1>6, <1>7 DEF UploadsOK

\* The upload handlers.
LEMMA UploadsKeepUploads ==
    ASSUME CallInv, NEW u \in Uploads,
           \/ \E p \in Positions : UploadArrives(u, p)
           \/ UploadRefused(u) \/ UploadStarted(u) \/ UploadAccepted(u)
           \/ UploadReads(u) \/ UploadAborts(u),
           slots' = slots, running' = running, started' = started
    PROVE  UploadsOK'
<1>1. /\ OneCall /\ StartsOnce /\ UploadsOK /\ mailbox \in Seq(Messages)
      /\ answers \in [Callers -> Answers]
      /\ uploads \in [Uploads -> [pc : UploadPCs, next : Positions, last : BOOLEAN,
                                  outcome : Answers \cup {Aborted}]]
      /\ u \in Callers
    BY DEF CallInv, HandlersOK, TypeOK, Callers
<1>2. uploader' = uploader
    BY DEF slots
<1>3. \A v \in Uploads \ {u} : uploads'[v] = uploads[v]
    BY <1>1 DEF UploadArrives, UploadRefused, UploadStarted, UploadAccepted, UploadReads,
                UploadAborts, UploadEnds
<1>4. \A v \in Uploads \ {u} : answers'[v] = answers[v]
    BY <1>1 DEF UploadArrives, UploadRefused, UploadStarted, UploadAccepted, UploadReads,
                UploadAborts, ReadAnswer, vars, Callers
\* What is in the mailbox of u's, by where u is.
<1>5. ASSUME NEW n \in Messages, NEW i \in Mails, mailbox[i] = n, n.from = u
      PROVE  UploadMail(n) /\ (IsCall(n) => answers[u] = NoAnswer)
    BY <1>1, <1>5 DEF UploadsOK, OneCall
<1>6. UploaderIsAt(u) /\ (uploads[u].last => uploads[u].pc = "Sending")
    BY <1>1 DEF UploadsOK
<1>7. ASSUME NEW outcome, UploadEnds(u, outcome)
      PROVE  UploadsOK'
    <2>1. uploads'[u].pc = "Done" /\ uploads'[u].last = FALSE
        BY <1>1, <1>7 DEF UploadEnds
    <2>2. UploaderIsAt(u)'
        BY <1>2, <1>6, <2>1 DEF UploaderIsAt, IsUploader
    <2>3. \A n \in Messages :
             n.from = u /\ (\E i \in Mails : mailbox[i] = n) => UploadMail(n)'
        BY <1>2, <1>5, <2>1 DEF UploadMail, IsUploader
    <2>4. \E m \in Messages : Post(m) /\ UploadMail(m)'
        <3>1. PICK m \in Messages : m = [cmd |-> "UploaderDisconnected", from |-> u]
            BY DEF Messages
        <3> QED
            BY <1>7, <2>1, <3>1 DEF UploadEnds, UploadMail
    <2> QED
        BY <1>1, <1>3, <1>4, <2>1, <2>2, <2>3, <2>4, HandlerKeepsUploads
<1>8. ASSUME NEW p \in Positions, UploadArrives(u, p)
      PROVE  UploadsOK'
    <2>1. /\ uploads[u].pc = "Idle" /\ ~uploads[u].last
          /\ uploads'[u].last = uploads[u].last
          /\ IF running THEN uploads'[u].pc = "Starting" /\ uploads'[u].next = p
                        ELSE uploads'[u].pc = "Done"
        BY <1>1, <1>6, <1>8 DEF UploadArrives
    <2>2. ~IsUploader(u)
        BY <1>1, <1>6, <2>1 DEF StartsOnce, UploaderIsAt
    <2>3. UploaderIsAt(u)'
        BY <1>2, <2>2 DEF UploaderIsAt, IsUploader
    <2>4. \A n \in Messages :
             n.from = u /\ (\E i \in Mails : mailbox[i] = n) => UploadMail(n)'
        BY <1>5, <2>1 DEF UploadMail
    <2>5. \E m \in Messages : Post(m) /\ (running => UploadMail(m)')
        <3>1. PICK m \in Messages : m = [cmd |-> "StartUpload", from |-> u, position |-> p]
            BY DEF Messages
        <3> QED
            BY <1>8, <2>1, <3>1 DEF UploadArrives, UploadMail
    <2> QED
        BY <1>1, <1>3, <1>4, <2>1, <2>3, <2>4, <2>5, HandlerKeepsUploads
<1>9. CASE UploadRefused(u)
    BY <1>7, <1>9 DEF UploadRefused
<1>10. CASE UploadStarted(u)
    <2>1. /\ uploads[u].pc = "Starting" /\ ~uploads[u].last
          /\ uploads'[u].pc = "Flushing"
          /\ uploads'[u].last = uploads[u].last /\ uploads'[u].next = uploads[u].next
        BY <1>1, <1>6, <1>10 DEF UploadStarted
    <2>2. answers[u] # NoAnswer
        BY <1>1, <1>10, ResultType DEF UploadStarted, CallInv, Ok, NoAnswer
    <2>3. UploaderIsAt(u)'
        BY <1>2, <1>6, <2>1 DEF UploaderIsAt, IsUploader
    <2>4. \A n \in Messages :
             n.from = u /\ (\E i \in Mails : mailbox[i] = n) => UploadMail(n)'
        BY <1>5, <2>1, <2>2 DEF UploadMail, IsCall
    <2>5. \E m \in Messages : Post(m) /\ (running => UploadMail(m)')
        <3>1. PICK m \in Messages : m = [cmd |-> "FlushUpload", from |-> u]
            BY DEF Messages
        <3> QED
            BY <1>10, <2>1, <3>1 DEF UploadStarted, UploadMail
    <2> QED
        BY <1>1, <1>3, <1>4, <2>1, <2>3, <2>4, <2>5, HandlerKeepsUploads
<1>11. CASE UploadAccepted(u)
    <2>1. CASE UploadEnds(u, Ok)
        BY <1>7, <2>1
    <2>2. CASE uploads' = [uploads EXCEPT ![u].pc = "Reading"] /\ mailbox' = mailbox
               /\ ~uploads[u].last
        <3>1. /\ uploads[u].pc \in {"Flushing", "Sending"}
              /\ uploads'[u].pc = "Reading"
              /\ uploads'[u].last = uploads[u].last /\ uploads'[u].next = uploads[u].next
            BY <1>1, <1>11, <2>2 DEF UploadAccepted
        <3>2. answers[u] = Ok /\ answers[u] # NoAnswer
            BY <1>1, <1>11, ResultType DEF UploadAccepted, CallInv, Ok, NoAnswer
        <3>3. ~Asked(u)
            BY <1>1, <3>2 DEF OneCall, Asked
        <3>4. UploaderIsAt(u)'
            BY <1>2, <1>6, <3>1, <3>2, <3>3 DEF UploaderIsAt, IsUploader
        <3>5. \A n \in Messages :
                 n.from = u /\ (\E i \in Mails : mailbox[i] = n) => UploadMail(n)'
            BY <1>5, <3>1, <3>2 DEF UploadMail, IsCall
        <3> QED
            BY <1>1, <1>3, <1>4, <2>2, <3>1, <3>4, <3>5, HandlerKeepsUploads
    <2> QED
        BY <1>11, <2>1, <2>2 DEF UploadAccepted
<1>12. CASE UploadReads(u)
    <2>1. PICK chunk \in Chunks :
              /\ chunk.at = uploads[u].next /\ Fits(chunk)
              /\ uploads[u].pc = "Reading" /\ uploads'[u].pc = "Sending"
              /\ uploads'[u].next = chunk.at + chunk.size
              /\ uploads'[u].last = chunk.final
              /\ Post([cmd |-> "UploadData", from |-> u, chunk |-> chunk])
              /\ UNCHANGED vars
        BY <1>12, ChunkRead DEF CallInv
    <2>2. answers'[u] = NoAnswer /\ answers[u] = NoAnswer
        BY <1>1, <2>1 DEF vars, OneCall, Resting
    <2>3. PICK m \in Messages : m = [cmd |-> "UploadData", from |-> u, chunk |-> chunk]
        BY DEF Messages
    <2>4. running => Asked(u)'
        <3>1. running => \E i \in Mails' : mailbox'[i] = m
            BY <1>1, <2>1, <2>3, Posted
        <3> QED
            BY <2>3, <3>1 DEF Asked, IsCall
    <2>5. UploaderIsAt(u)'
        BY <1>2, <1>6, <2>1, <2>2, <2>4 DEF UploaderIsAt, IsUploader, Ok, NoAnswer
    <2>6. \A n \in Messages :
             n.from = u /\ (\E i \in Mails : mailbox[i] = n) => UploadMail(n)'
        BY <1>5, <2>1 DEF UploadMail
    <2>7. UploadMail(m)'
        BY <1>2, <1>6, <2>1, <2>3 DEF UploadMail, UploaderIsAt, IsUploader, Fits
    <2> QED
        BY <1>1, <1>3, <1>4, <2>1, <2>3, <2>5, <2>6, <2>7, HandlerKeepsUploads
<1>13. CASE UploadAborts(u)
    BY <1>7, <1>13 DEF UploadAborts
<1> QED
    BY <1>8, <1>9, <1>10, <1>11, <1>12, <1>13

UploadCommands == {"StartUpload", "FlushUpload", "UploadData", "UploaderDisconnected"}

\* An upload handler moves.
UploadsMove ==
    \E u \in Uploads :
        \/ \E p \in Positions : UploadArrives(u, p)
        \/ UploadRefused(u) \/ UploadStarted(u) \/ UploadAccepted(u)
        \/ UploadReads(u) \/ UploadAborts(u)

\* Another handler moves, as the uploads see it.
OthersMove ==
    /\ \E h \in Callers : h \notin Uploads
    /\ uploads' = uploads
    /\ \A v \in Uploads : answers'[v] = answers[v]
    /\ \/ mailbox' = mailbox
       \/ \E m \in Messages : Post(m) /\ m.cmd \notin UploadCommands

\* The handlers of the other kinds leave the uploads alone.
LEMMA OthersLeaveUploads ==
    ASSUME CallInv, RelayNext, ~Serve, ~UploadsMove
    PROVE  OthersMove
<1>1. answers \in [Callers -> Answers]
    BY DEF CallInv, TypeOK
<1>2. ASSUME NEW h \in Callers, h \notin Uploads, uploads' = uploads,
             \A v \in Uploads : answers'[v] = answers[v],
             \/ mailbox' = mailbox
             \/ \E m \in Messages : Post(m) /\ m.cmd \notin UploadCommands
      PROVE  OthersMove
    BY <1>2 DEF OthersMove
<1>3. ASSUME NEW h \in Callers, h \notin Uploads, UNCHANGED vars \/ ReadAnswer(h)
      PROVE  \A v \in Uploads : answers'[v] = answers[v]
    BY <1>1, <1>3 DEF vars, ReadAnswer, Callers
<1>4. ASSUME NEW d \in Downloads,
             \/ \E p \in Positions : DownloadArrives(d, p)
             \/ DownloadStarted(d) \/ DownloadYields(d)
             \/ DownloadEnds(d) \/ DownloadDropped(d)
      PROVE  OthersMove
    <2>1. d \in Callers /\ d \notin Uploads
        BY HandlersAreDistinct DEF Callers
    <2>2. uploads' = uploads /\ (UNCHANGED vars \/ ReadAnswer(d) \/ answers' = answers)
        BY <1>4 DEF DownloadArrives, DownloadStarted, DownloadYields, DownloadEnds,
                    DownloadDropped, DownloadCloses
    <2>3. \/ mailbox' = mailbox
          \/ \E m \in Messages : Post(m) /\ m.cmd \notin UploadCommands
        <3>1. [cmd |-> "DownloaderDisconnected", from |-> d,
               completed |-> downloads[d].completed] \in Messages
            BY DEF Messages, CallInv, HandlersOK
        <3>2. \A p \in Positions :
                 [cmd |-> "StartDownload", from |-> d, position |-> p] \in Messages
            BY DEF Messages
        <3> QED
            BY <1>4, <3>1, <3>2 DEF UploadCommands, DownloadArrives, DownloadStarted, DownloadYields,
                                    DownloadEnds, DownloadDropped, DownloadCloses
    <2> QED
        BY <1>2, <1>3, <2>1, <2>2, <2>3
<1>5. ASSUME NEW c \in Checks \cup Finishes, CallArrives(c) \/ CallReturns(c)
      PROVE  OthersMove
    <2>1. c \in Callers /\ c \notin Uploads
        BY HandlersAreDistinct DEF Callers
    <2>2. uploads' = uploads /\ (UNCHANGED vars \/ ReadAnswer(c))
        BY <1>5 DEF CallArrives, CallReturns
    <2>3. \/ mailbox' = mailbox
          \/ \E m \in Messages : Post(m) /\ m.cmd \notin UploadCommands
        <3>1. /\ c \in Finishes => [cmd |-> "FinishDownload", from |-> c] \in Messages
              /\ c \in Checks => \A p \in Positions :
                    [cmd |-> "CheckStartUpload", from |-> c, position |-> p] \in Messages
            BY DEF Messages
        <3> QED
            BY <1>5, <3>1 DEF UploadCommands, CallArrives, CallReturns
    <2> QED
        BY <1>2, <1>3, <2>1, <2>2, <2>3
<1>6. ASSUME NEW w \in Peers,
             \/ PeerConnects(w) \/ PeerStarted(w) \/ PeerDelivers(w)
             \/ PeerSends(w) \/ PeerReplaced(w) \/ PeerCloses(w)
      PROVE  OthersMove
    <2>1. w \in Callers /\ w \notin Uploads
        BY HandlersAreDistinct DEF Callers
    <2>2. uploads' = uploads /\ (UNCHANGED vars \/ ReadAnswer(w) \/ answers' = answers)
        BY <1>6 DEF PeerConnects, PeerStarted, PeerDelivers, PeerSends, PeerReplaced, PeerCloses,
                    PeerEnds
    <2>3. \/ mailbox' = mailbox
          \/ \E m \in Messages : Post(m) /\ m.cmd \notin UploadCommands
        <3>1. [cmd |-> "StartWebsocket", from |-> w] \in Messages
            BY DEF Messages
        <3>2. [cmd |-> "WebsocketDisconnected", from |-> w] \in Messages
            BY DEF Messages
        <3>3. <<w, peers[w].sent + 1>> \in Frames =>
                 [cmd |-> "WebsocketData", from |-> w, frame |-> <<w, peers[w].sent + 1>>]
                     \in Messages
            BY DEF Messages
        <3> QED
            BY <1>6, <3>1, <3>2, <3>3
               DEF UploadCommands, PeerConnects, PeerStarted, PeerDelivers, PeerSends, PeerReplaced, PeerCloses,
                   PeerEnds
    <2> QED
        BY <1>2, <1>3, <2>1, <2>2, <2>3
<1> QED
    BY <1>4, <1>5, <1>6 DEF RelayNext, UploadsMove

\* A message of another handler says nothing about the uploads.
LEMMA OthersKeepUploads ==
    ASSUME CallInv, OthersMove, slots' = slots, running' = running, started' = started
    PROVE  UploadsOK'
<1>1. \A m \in Messages : m.cmd \notin UploadCommands => UploadMail(m)'
    BY DEF UploadMail, UploadCommands
<1> QED
    BY <1>1, HandlerKeepsUploads DEF OthersMove

\* Every step keeps what an upload knows of its own calls.
LEMMA UploadsOKStep ==
    ASSUME CallInv, RelayNext
    PROVE  UploadsOK'
<1>1. CASE Serve
    BY <1>1, ServeKeepsUploads
<1>2. CASE ~Serve
    <2>1. slots' = slots /\ running' = running /\ started' = started
        BY <1>2, HandlerStepIsAStep
    <2> QED
        BY <1>2, <2>1, UploadsKeepUploads, OthersLeaveUploads, OthersKeepUploads DEF UploadsMove
<1> QED
    BY <1>1, <1>2

-----------------------------------------------------------------------------
(* The relay implements the session.                                        *)

\* At first no handler has called.
LEMMA RelayInitCalls ==
    ASSUME RelayInit
    PROVE  CallInv
<1>1. TypeOK
    BY InitType DEF RelayInit
<1>2. mailbox = <<>> /\ mailbox \in Seq(Messages) /\ Mails = {}
    BY EmptySeq DEF RelayInit, Mails
<1>3. HandlersOK
    <2>1. 0 \in Positions /\ <<>> \in Seq(Commands) /\ NoAnswer \in Answers
        BY SizesAreNatural, EmptySeq DEF Positions, Answers
    <2> QED
        BY <1>2, <2>1 DEF RelayInit, HandlersOK, UploadPCs, DownloadPCs, PeerPCs
<1>4. OneCall
    <2>1. /\ \A h \in Callers : answers[h] = NoAnswer
          /\ Waiter = NoOne
          /\ Resting \subseteq Callers
        BY DEF RelayInit, Init, Waiter, NoPending, Resting, Callers
    <2> QED
        BY <1>2, <2>1, NoOneIsNoHandler DEF OneCall, Asked
<1>5. StartsOnce
    BY <1>2 DEF StartsOnce, RelayInit, Init
<1>6. UploadsOK
    BY <1>2 DEF UploadsOK, UploaderIsAt, IsUploader, RelayInit, Init, NoUploader
<1> QED
    BY <1>1, <1>3, <1>4, <1>5, <1>6 DEF CallInv

\* Every step keeps the invariant of calls.
LEMMA CallInvStep ==
    ASSUME CallInv, [RelayNext]_relayVars
    PROVE  CallInv' /\ [Next]_vars
<1>1. CASE RelayNext
    <2>1. [Next]_vars
        BY <1>1, ServeIsAStep, HandlerStepIsAStep
    <2>2. TypeOK'
        BY <2>1, TypeStep DEF CallInv
    <2> QED
        BY <1>1, <2>1, <2>2, HandlersStep, OneCallStep, StartsOnceStep, UploadsOKStep DEF CallInv
<1>2. CASE UNCHANGED relayVars
    <2>1. UNCHANGED vars /\ UNCHANGED <<mailbox, uploads, downloads, calls, peers>>
        BY <1>2 DEF relayVars, handlers
    <2>2. TypeOK'
        BY <2>1, TypeStep DEF CallInv
    <2> QED
        BY <2>1, <2>2
           DEF CallInv, HandlersOK, OneCall, StartsOnce, UploadsOK, vars, Mails, Asked, Waiter,
               Resting, UploadMail, UploaderIsAt, IsUploader
<1> QED
    BY <1>1, <1>2

\* The handlers of api.rs and websocket.rs never have two calls outstanding,
\* never use a token twice, and an upload stands where the session thinks.
LEMMA CallInvariance == RelaySpec => []CallInv
<1>1. RelayInit => CallInv
    BY RelayInitCalls
<1>2. CallInv /\ [RelayNext]_relayVars => CallInv'
    BY CallInvStep
<1> QED
    BY <1>1, <1>2, PTL DEF RelaySpec

\* The session the handlers use behaves as Session says: whatever is proved of
\* the session in an environment that may issue any command holds of it.
THEOREM RelayImplementsSession == RelaySpec => Spec
<1>1. RelayInit => Init
    BY DEF RelayInit
<1>2. CallInv /\ [RelayNext]_relayVars => [Next]_vars
    BY CallInvStep
<1> QED
    BY <1>1, <1>2, CallInvariance, PTL DEF RelaySpec, Spec

-----------------------------------------------------------------------------
(* Calls and guards.                                                        *)

\* The news that u is gone is in the mailbox, behind message i.
GoneAfter(u, i) ==
    \E j \in Mails : j > i /\ mailbox[j].cmd = "UploaderDisconnected" /\ mailbox[j].from = u

\* A start is followed by the end of its request, if that is gone; a queued
\* chunk is waited for by the uploader itself, unless that is gone; a queued
\* error is none that only a dropped call returns.
GuardsOK ==
    /\ \A i \in Mails : mailbox[i].cmd = "StartUpload" /\ ~Live(mailbox[i].from)
          => GoneAfter(mailbox[i].from, i)
    /\ running /\ Waiter # NoOne /\ Live(Waiter) => IsUploader(Waiter)
    /\ pending.tag = "Error" => pending.error # NotFound

GuardInv == GuardsOK /\ NoCallIsForgotten /\ NoLiveWaiterIsDropped /\ NoGhostUploader

\* The only answer NotFound that the session gives is to a waiter which
\* flush_upload overwrites, and what it queues is another error.
LEMMA NotFoundIsForWaiters ==
    ASSUME CallInv, pending.tag = "Error" => pending.error # NotFound, Serve
    PROVE  /\ pending'.tag = "Error" => pending'.error # NotFound
           /\ \A u \in Uploads : answers'[u] = NotFound /\ answers[u] # NotFound =>
                 /\ mailbox[1].cmd = "FlushUpload" /\ IsUploader(mailbox[1].from)
                 /\ Waiter = u /\ mailbox[1].from # u
<1> DEFINE m == mailbox[1]
<1>1. /\ 1 \in Mails /\ m \in Messages /\ Dispatch(m)
      /\ TypeOK /\ (IsCall(m) => Waiter # m.from /\ answers[m.from] = NoAnswer)
    BY OldestMessage, CallerIsFree DEF CallInv, Free
<1>2. NotFound \notin {NoAnswer, Ok, ConnectionReplaced, Finished, DataPending}
    BY DEF NotFound, NoAnswer, Ok, ConnectionReplaced, Finished, DataPending
<1>3. \A p : AtPosition(p) # NotFound
    BY DEF AtPosition, NotFound
<1>4. \A p : StartPositionError(p) # NotFound /\ WaiterResult(p) # NotFound
    BY <1>2, <1>3 DEF StartPositionError, WaiterResult
<1>5. Uploads \subseteq Callers
    BY DEF Callers
<1>6. ASSUME NEW error, error # NotFound
      PROVE  PendingAfterTermination(error).tag = "Error"
                => PendingAfterTermination(error).error # NotFound
    <2>1. CASE pending.tag = "Data"
        <3>1. pending = Data(pending.chunk, pending.waiter, pending.position)
            BY <1>1, <2>1, QueuedChunkType
        <3>2. PendingAfterTermination(error) = Data(pending.chunk, NoOne, pending.position)
            BY <2>1, <3>1 DEF PendingAfterTermination, Data
        <3> QED
            BY <3>2 DEF Data
    <2>2. CASE pending.tag # "Data"
        BY <1>6, <2>2 DEF PendingAfterTermination, Error
    <2> QED
        BY <2>1, <2>2
<1> DEFINE Kept == /\ pending'.tag = "Error" => pending'.error # NotFound
                   /\ \A u \in Uploads : answers'[u] = NotFound => answers[u] = NotFound
<1>7. ASSUME NEW h, NEW result, NEW waiter, NEW waiterResult,
             answers' = AnswersWith(h, result, waiter, waiterResult),
             result # NotFound, waiterResult # NotFound
      PROVE  \A u \in Uploads : answers'[u] = NotFound => answers[u] = NotFound
    BY <1>5, <1>7, AnswersWithValues
<1>8. ASSUME NEW u \in Uploads, Refused(u)
      PROVE  \A v \in Uploads : answers'[v] = NotFound => answers[v] = NotFound
    <2>1. PICK error : answers' = AnswersWith(u, error, NoOne, Ok) /\ error # NotFound
        BY <1>2, <1>8 DEF Refused
    <2> QED
        BY <1>2, <1>7, <2>1
<1> HIDE DEF m
<1> USE MessageFields, <1>1
<1>9. CASE m.cmd = "StartDownload" /\ StartDownload(m.from, m.position)
    <2>1. pending'.tag = "Error" => pending'.error # NotFound
        BY <1>3, <1>9 DEF StartDownload, PendingAfterDownload, Error, NoPending
    <2>2. answers' = AnswersWith(m.from, Ok, Waiter, WaiterResult(m.position))
        BY <1>9 DEF StartDownload
    <2> QED
        BY <1>2, <1>4, <1>7, <2>1, <2>2
<1>10. CASE m.cmd = "FinishDownload" /\ FinishDownload(m.from)
    <2>1. pending' = PendingAfterTermination(Finished) \/ pending' = pending
        BY <1>10 DEF FinishDownload
    <2>2. answers' = AnswersWith(m.from, Ok, TerminatedWaiter, Finished)
        BY <1>10 DEF FinishDownload
    <2> QED
        BY <1>2, <1>6, <1>7, <2>1, <2>2
<1>11. CASE m.cmd = "CheckStartUpload" /\ CheckStartUpload(m.from, m.position)
    <2>1. /\ answers' = AnswersWith(m.from, StartPositionError(m.position), NoOne, Ok)
          /\ pending' = pending
        BY <1>11 DEF CheckStartUpload, slots
    <2> QED
        BY <1>2, <1>4, <1>7, <2>1
<1>12. CASE m.cmd = "StartUpload" /\ StartUpload(m.from, m.position)
    <2>1. \/ pending' = PendingAfterTermination(ConnectionReplaced)
          \/ pending' = pending \/ pending' = NoPending
        BY <1>12 DEF StartUpload
    <2>2. answers' = AnswersWith(m.from, StartPositionError(m.position), TerminatedWaiter,
                                 ConnectionReplaced)
        BY <1>12 DEF StartUpload
    <2> QED
        BY <1>2, <1>4, <1>6, <1>7, <2>1, <2>2 DEF NoPending
<1>13. CASE m.cmd = "UploadData" /\ UploadData(m.from, m.chunk)
    <2>1. CASE Refused(m.from) /\ UNCHANGED <<slots, events, inbox>>
        BY <1>8, <1>13, <2>1 DEF slots
    <2>2. CASE answers' = AnswersWith(m.from, DataPending, NoOne, Ok) /\ pending' = pending
        BY <1>2, <1>7, <2>2
    <2>3. CASE answers' = AnswersWith(m.from, Ok, NoOne, Ok) /\ pending' = pending
        BY <1>2, <1>7, <2>3
    <2>4. CASE answers' = answers /\ pending' = Data(m.chunk, m.from, uploader.position)
        BY <2>4 DEF Data
    <2> QED
        BY <1>13, <2>1, <2>2, <2>3, <2>4 DEF UploadData, slots
<1>14. CASE m.cmd = "FlushUpload" /\ FlushUpload(m.from)
    <2>1. CASE Refused(m.from) /\ pending' = pending
        BY <1>8, <1>14, <2>1
    <2>2. CASE /\ IsUploader(m.from) /\ pending.tag = "Data"
               /\ pending' = [pending EXCEPT !.waiter = m.from]
               /\ answers' = AnswersWith(NoOne, Ok, Waiter, NotFound)
        <3>1. pending = Data(pending.chunk, pending.waiter, pending.position)
            BY <2>2, QueuedChunkType
        <3>2. pending' = Data(pending.chunk, m.from, pending.position)
            BY <2>2, <3>1 DEF Data
        <3>3. \A u \in Uploads : u # Waiter => answers'[u] = answers[u]
            BY <1>5, <2>2, AnswersWithValues, NoOneIsNoHandler
        <3> QED
            BY <1>14, <2>2, <3>2, <3>3 DEF Data, IsCall, m
    <2>3. CASE answers' = AnswersWith(m.from, Ok, NoOne, Ok) /\ pending' = pending
        BY <1>2, <1>7, <2>3
    <2> QED
        BY <1>14, <2>1, <2>2, <2>3 DEF FlushUpload
<1>15. CASE m.cmd = "StartWebsocket" /\ StartWebsocket(m.from)
    <2>1. answers' = AnswersWith(m.from, Ok, NoOne, Ok) /\ pending' = pending
        BY <1>15 DEF StartWebsocket, slots
    <2> QED
        BY <1>2, <1>7, <2>1
<1>16. CASE m.cmd = "WebsocketData" /\ RelayFrame(DirectionOf(m.from), m.frame)
    BY <1>16 DEF RelayFrame, slots
<1>17. CASE m.cmd = "DownloaderDisconnected" /\ DownloaderDisconnected(m.from, m.completed)
    BY <1>17 DEF DownloaderDisconnected
<1>18. CASE m.cmd = "UploaderDisconnected" /\ UploaderDisconnected(m.from)
    <2>1. (pending' = pending \/ pending' = NoPending) /\ answers' = answers
        BY <1>18, Zenon DEF UploaderDisconnected
    <2> QED
        BY <2>1 DEF NoPending
<1>19. CASE m.cmd = "WebsocketDisconnected" /\ WebsocketDisconnected(m.from)
    BY <1>19 DEF WebsocketDisconnected, slots
<1> QED
    BY <1>9, <1>10, <1>11, <1>12, <1>13, <1>14, <1>15, <1>16, <1>17, <1>18, <1>19 DEF Dispatch

\* The waiter of the queued chunk stays the session's uploader until the
\* session hears that its request is gone.
LEMMA WaiterIsUploader ==
    ASSUME CallInv, Serve, NEW u \in Uploads, Waiter' = u
    PROVE  \/ IsUploader(u)'
           \/ /\ Waiter = u
              /\ IsUploader(u) => mailbox[1].cmd = "UploaderDisconnected" /\ mailbox[1].from = u
<1> DEFINE m == mailbox[1]
<1>1. /\ 1 \in Mails /\ m \in Messages /\ Dispatch(m)
      /\ TypeOK /\ u # NoOne
    BY OldestMessage, NoOneIsNoHandler DEF CallInv, Callers
<1> HIDE DEF m
<1> USE MessageFields, <1>1
<1>2. ASSUME uploader' = uploader, pending' = pending
      PROVE  IsUploader(u)' \/ (Waiter = u /\ ~IsUploader(u))
    BY <1>2 DEF IsUploader, Waiter
<1>3. CASE m.cmd = "StartDownload" /\ StartDownload(m.from, m.position)
    <2>1. Waiter' = NoOne
        BY <1>3 DEF StartDownload, PendingAfterDownload, Waiter, Error, NoPending
    <2> QED
        BY <2>1
<1>4. CASE m.cmd = "FinishDownload" /\ FinishDownload(m.from)
    <2>1. CASE uploader.tag = "Some"
        <3>1. pending' = PendingAfterTermination(Finished)
            BY <1>4, <2>1 DEF FinishDownload
        <3> QED
            BY <3>1, TerminatedHasNoWaiter
    <2>2. CASE uploader.tag # "Some"
        <3>1. uploader' = uploader /\ pending' = pending
            BY <1>4, <2>2 DEF FinishDownload
        <3> QED
            BY <1>2, <3>1
    <2> QED
        BY <2>1, <2>2
<1>5. CASE m.cmd = "CheckStartUpload" /\ CheckStartUpload(m.from, m.position)
    BY <1>2, <1>5 DEF CheckStartUpload, slots
<1>6. CASE m.cmd = "StartUpload" /\ StartUpload(m.from, m.position)
    <2> DEFINE left == IF uploader.tag = "Some"
                         THEN PendingAfterTermination(ConnectionReplaced) ELSE pending
    <2>1. pending' = left \/ pending' = NoPending
        BY <1>6 DEF StartUpload
    <2>2. CASE uploader.tag = "Some"
        BY <2>1, <2>2, TerminatedHasNoWaiter DEF NoPending, Waiter
    <2>3. CASE uploader.tag # "Some"
        BY <2>1, <2>3 DEF NoPending, Waiter, IsUploader
    <2> QED
        BY <2>2, <2>3
<1>7. CASE m.cmd = "UploadData" /\ UploadData(m.from, m.chunk)
    <2>1. CASE uploader' = uploader /\ pending' = pending
        BY <1>2, <2>1
    <2>2. CASE /\ IsUploader(m.from)
               /\ uploader' = [uploader EXCEPT !.position = @ + m.chunk.size]
               /\ pending.tag = "None"
        <3>1. uploader'.tag = "Some" /\ uploader'.token = m.from
            BY <2>2 DEF TypeOK, UploaderSlots, NoUploader, IsUploader
        <3>2. pending' = pending \/ pending' = Data(m.chunk, m.from, uploader.position)
            BY <1>7, <2>2 DEF UploadData, Refused, slots
        <3>3. Waiter' = NoOne \/ Waiter' = m.from
            BY <2>2, <3>2 DEF Waiter, Data
        <3> QED
            BY <3>1, <3>3 DEF IsUploader
    <2> QED
        BY <1>7, <2>1, <2>2 DEF UploadData, slots
<1>8. CASE m.cmd = "FlushUpload" /\ FlushUpload(m.from)
    <2>1. uploader' = uploader
        BY <1>8 DEF FlushUpload
    <2>2. CASE IsUploader(m.from) /\ pending.tag = "Data" /\ pending' = [pending EXCEPT !.waiter = m.from]
        <3>1. Waiter' = m.from
            BY <2>2, QueuedChunkType DEF Waiter, Data
        <3> QED
            BY <2>1, <2>2, <3>1 DEF IsUploader
    <2> QED
        BY <1>2, <1>8, <2>1, <2>2 DEF FlushUpload
<1>9. CASE m.cmd = "StartWebsocket" /\ StartWebsocket(m.from)
    BY <1>2, <1>9 DEF StartWebsocket, slots
<1>10. CASE m.cmd = "WebsocketData" /\ RelayFrame(DirectionOf(m.from), m.frame)
    BY <1>2, <1>10 DEF RelayFrame, slots
<1>11. CASE m.cmd = "DownloaderDisconnected" /\ DownloaderDisconnected(m.from, m.completed)
    BY <1>2, <1>11 DEF DownloaderDisconnected
<1>12. CASE m.cmd = "UploaderDisconnected" /\ UploaderDisconnected(m.from)
    <2>1. Waiter = u
        BY <1>12, NoticesAnswer DEF NoticeTaken
    <2>2. CASE IsUploader(m.from)
        BY <1>12, <2>1, <2>2 DEF IsUploader, m
    <2>3. CASE ~IsUploader(m.from)
        BY <1>2, <1>12, <2>3, Zenon DEF UploaderDisconnected
    <2> QED
        BY <2>2, <2>3
<1>13. CASE m.cmd = "WebsocketDisconnected" /\ WebsocketDisconnected(m.from)
    BY <1>2, <1>13 DEF WebsocketDisconnected, slots
<1> QED
    BY <1>3, <1>4, <1>5, <1>6, <1>7, <1>8, <1>9, <1>10, <1>11, <1>12, <1>13 DEF Dispatch

\* A turn of the session task forgets no call and no guard.
LEMMA ServeKeepsGuards ==
    ASSUME CallInv, GuardInv, Serve
    PROVE  GuardInv'
<1> DEFINE m == mailbox[1]
<1>1. /\ 1 \in Mails /\ m \in Messages /\ running /\ Dispatch(m)
      /\ uploads' = uploads
    BY OldestMessage DEF handlers
<1>2. /\ \A i \in Mails' : i + 1 \in Mails /\ i + 1 # 1 /\ mailbox'[i] = mailbox[i + 1]
      /\ running' => \A i \in Mails \ {1} : i - 1 \in Mails' /\ mailbox'[i - 1] = mailbox[i]
      /\ ~running' => Mails' = {}
    BY Served DEF CallInv, HandlersOK
<1>3. TypeOK /\ OneCall /\ UploadsOK /\ UploadMail(m)
    BY <1>1 DEF CallInv, UploadsOK
<1>4. \A u : Live(u)' = Live(u) /\ Awaiting(u)' = Awaiting(u)
    BY <1>1 DEF Live, Awaiting
<1>5. \A u \in Uploads : u \in Callers /\ u # NoOne
    BY NoOneIsNoHandler DEF Callers
<1>6. \A n \in Messages : n.cmd = "StartUpload" => n.from \in Uploads
    BY MessageFields
<1>7. ASSUME NEW u \in Uploads, NEW i \in Mails, GoneAfter(u, i), running'
      PROVE  \E j \in Mails' : j > i - 1 /\ mailbox'[j].cmd = "UploaderDisconnected"
                                         /\ mailbox'[j].from = u
    <2>1. PICK j \in Mails : j > i /\ mailbox[j].cmd = "UploaderDisconnected"
                                   /\ mailbox[j].from = u
        BY <1>7 DEF GoneAfter
    <2>2. j # 1
        BY <2>1 DEF Mails
    <2>3. j - 1 \in Mails' /\ mailbox'[j - 1] = mailbox[j]
        BY <1>2, <1>7, <2>2
    <2>4. j - 1 > i - 1
        BY <2>1 DEF Mails
    <2> QED
        BY <2>1, <2>3, <2>4
<1>8. ASSUME NEW i \in Mails', mailbox'[i].cmd = "StartUpload", ~Live(mailbox'[i].from)
      PROVE  GoneAfter(mailbox[i].from, i)'
    <2>1. /\ i + 1 \in Mails /\ mailbox'[i] = mailbox[i + 1] /\ running'
          /\ mailbox[i + 1].from \in Uploads
        BY <1>2, <1>6, <1>8, ElementOfSeq DEF Mails, CallInv, HandlersOK
    <2>2. GoneAfter(mailbox[i + 1].from, i + 1)
        BY <1>8, <2>1 DEF GuardInv, GuardsOK
    <2>3. \E j \in Mails' : j > (i + 1) - 1 /\ mailbox'[j].cmd = "UploaderDisconnected"
                                            /\ mailbox'[j].from = mailbox[i + 1].from
        BY <1>7, <2>1, <2>2
    <2>4. (i + 1) - 1 = i
        BY DEF Mails
    <2> QED
        BY <2>1, <2>3, <2>4 DEF GoneAfter
<1>9. ASSUME NEW u \in Uploads, Waiter' = u, Live(u)
      PROVE  IsUploader(u)'
    <2>1. SUFFICES ASSUME Waiter = u,
                          IsUploader(u) => m.cmd = "UploaderDisconnected" /\ m.from = u
                   PROVE  FALSE
        BY <1>9, WaiterIsUploader
    <2>2. IsUploader(u)
        BY <1>1, <1>5, <1>9, <2>1 DEF GuardInv, GuardsOK
    <2>3. uploads[u].pc = "Done"
        BY <1>3, <2>1, <2>2 DEF UploadMail
    <2> QED
        BY <1>9, <2>3 DEF Live, Awaiting
<1>10. GuardsOK'
    <2>1. Waiter' # NoOne => Waiter' \in Uploads
        <3>1. TypeOK'
            BY ServeIsAStep, TypeStep DEF CallInv
        <3> QED
            BY <3>1, QueuedChunkType DEF TypeOK, Pendings, NoPending, Error, Waiter
    <2>2. Waiter' # NoOne /\ Live(Waiter)' => IsUploader(Waiter)'
        <3>1. SUFFICES ASSUME NEW u \in Uploads, Waiter' = u, Live(u)
                       PROVE  IsUploader(u)'
            BY <1>1, <2>1 DEF Live, Awaiting, IsUploader
        <3> QED
            BY <1>9, <3>1
    <2>3. \A i \in Mails' : (mailbox[i].cmd = "StartUpload" /\ ~Live(mailbox[i].from))'
             => GoneAfter(mailbox[i].from, i)'
        BY <1>1, <1>8 DEF Live, Awaiting
    <2>4. pending'.tag = "Error" => pending'.error # NotFound
        BY NotFoundIsForWaiters DEF GuardInv, GuardsOK
    <2> QED
        BY <2>2, <2>3, <2>4 DEF GuardsOK
<1>11. ASSUME NEW u \in Uploads, running', Awaiting(u), answers'[u] = NoAnswer
       PROVE  Waiter' = u \/ \E i \in Mails' : mailbox'[i].from = u
    <2>1. CASE IsCall(m) /\ m.from = u
        BY <1>11, <2>1, ServeTakesMessage DEF CallTaken
    <2>2. CASE ~(IsCall(m) /\ m.from = u)
        <3>1. answers[u] = NoAnswer /\ (Waiter = u => Waiter' = u)
            BY <1>5, <1>11, <2>2, ServeTakesMessage DEF CallTaken, NoticeTaken
        <3>2. Waiter = u \/ \E i \in Mails : mailbox[i].from = u
            BY <1>1, <1>11, <3>1 DEF GuardInv, NoCallIsForgotten, Mails
        <3>3. ASSUME NEW i \in Mails, mailbox[i].from = u, m.from # u
              PROVE  \E j \in Mails' : mailbox'[j].from = u
            BY <1>2, <1>11, <3>3
        <3>4. m.from # u
            BY <1>1, <1>3, <1>11, <2>2, MessageFields, HandlersAreDistinct
               DEF IsCall, UploadMail, Awaiting
        <3> QED
            BY <3>1, <3>2, <3>3, <3>4
    <2> QED
        BY <2>1, <2>2
<1>12. ASSUME NEW u \in Uploads, running', Awaiting(u)
       PROVE  answers'[u] # NotFound
    <2>1. SUFFICES ASSUME answers'[u] = NotFound
                   PROVE  FALSE
        OBVIOUS
    <2>2. answers[u] # NotFound
        BY <1>1, <1>12 DEF GuardInv, NoLiveWaiterIsDropped
    <2>3. IsUploader(m.from) /\ Waiter = u /\ m.from # u
        BY <2>1, <2>2, NotFoundIsForWaiters DEF GuardInv, GuardsOK
    <2>4. IsUploader(u)
        BY <1>1, <1>5, <1>12, <2>3 DEF GuardInv, GuardsOK, Live
    <2> QED
        BY <2>3, <2>4 DEF IsUploader
<1>13. ASSUME NEW u \in Uploads, running', IsUploader(u)', ~Live(u)
       PROVE  \E j \in Mails' : mailbox'[j].cmd = "UploaderDisconnected" /\ mailbox'[j].from = u
    <2>1. CASE m.cmd = "StartUpload" /\ m.from = u
        <3>1. GoneAfter(u, 1)
            BY <1>1, <1>13, <2>1 DEF GuardInv, GuardsOK
        <3> QED
            BY <1>1, <1>7, <1>13, <3>1
    <2>2. CASE IsUploader(u)
        <3>1. PICK j \in Mails : mailbox[j].cmd = "UploaderDisconnected" /\ mailbox[j].from = u
            BY <1>1, <1>13, <2>2 DEF GuardInv, NoGhostUploader, Mails
        <3>2. j # 1
            <4>1. SUFFICES ASSUME m.cmd = "UploaderDisconnected", m.from = u
                           PROVE  FALSE
                BY <3>1
            <4>2. UploaderDisconnected(u)
                BY <1>1, <4>1 DEF Dispatch
            <4> QED
                BY <1>13, <2>2, <4>2 DEF UploaderDisconnected, IsUploader, NoUploader
        <3> QED
            BY <1>2, <1>13, <3>1, <3>2
    <2> QED
        BY <1>13, <2>1, <2>2, UploaderMoves
<1>14. NoCallIsForgotten'
    BY <1>1, <1>11 DEF NoCallIsForgotten, Awaiting, Mails
<1>15. NoLiveWaiterIsDropped'
    BY <1>1, <1>12 DEF NoLiveWaiterIsDropped, Awaiting
<1>16. NoGhostUploader'
    BY <1>1, <1>13 DEF NoGhostUploader, Live, Awaiting, Mails
<1> QED
    BY <1>10, <1>14, <1>15, <1>16 DEF GuardInv

\* While the session runs, an upload handler that moves either is done and says
\* so, or is live: it reads on, or posts its next call.
LEMMA UploadPosts ==
    ASSUME CallInv, NEW u \in Uploads, running,
           \/ \E p \in Positions : UploadArrives(u, p)
           \/ UploadRefused(u) \/ UploadStarted(u) \/ UploadAccepted(u)
           \/ UploadReads(u) \/ UploadAborts(u)
    PROVE  /\ Live(u) \/ uploads[u].pc = "Idle"
           /\ \/ /\ ~Live(u)'
                 /\ \E m \in Messages :
                       Post(m) /\ m.cmd = "UploaderDisconnected" /\ m.from = u
              \/ /\ Live(u)' /\ ~Awaiting(u)' /\ mailbox' = mailbox
              \/ /\ Live(u)'
                 /\ \E m \in Messages : Post(m) /\ IsCall(m) /\ m.from = u
           /\ \A v \in Uploads \ {u} : uploads'[v] = uploads[v] /\ answers'[v] = answers[v]
           /\ answers'[u] \in {answers[u], NoAnswer}
<1>1. /\ answers \in [Callers -> Answers]
      /\ uploads \in [Uploads -> [pc : UploadPCs, next : Positions, last : BOOLEAN,
                                  outcome : Answers \cup {Aborted}]]
      /\ u \in Callers /\ Uploads \subseteq Callers
    BY DEF CallInv, HandlersOK, TypeOK, Callers
<1>2. Live(u) \/ uploads[u].pc = "Idle"
    BY DEF UploadArrives, UploadRefused, UploadStarted, UploadAccepted, UploadReads, UploadAborts,
           Live, Awaiting
<1>3. /\ \A v \in Uploads \ {u} : uploads'[v] = uploads[v]
    BY <1>1 DEF UploadArrives, UploadRefused, UploadStarted, UploadAccepted, UploadReads,
                UploadAborts, UploadEnds
<1>4. /\ \A v \in Uploads \ {u} : answers'[v] = answers[v]
      /\ answers'[u] \in {answers[u], NoAnswer}
    BY <1>1 DEF UploadArrives, UploadRefused, UploadStarted, UploadAccepted, UploadReads,
                UploadAborts, ReadAnswer, vars
<1> DEFINE Goes == /\ ~Live(u)'
                   /\ \E m \in Messages :
                         Post(m) /\ m.cmd = "UploaderDisconnected" /\ m.from = u
           Reads == Live(u)' /\ ~Awaiting(u)' /\ mailbox' = mailbox
           Calls == Live(u)' /\ \E m \in Messages : Post(m) /\ IsCall(m) /\ m.from = u
<1>5. ASSUME NEW outcome, UploadEnds(u, outcome)
      PROVE  Goes
    <2>1. uploads'[u].pc = "Done"
        BY <1>1, <1>5 DEF UploadEnds
    <2>2. [cmd |-> "UploaderDisconnected", from |-> u] \in Messages
        BY DEF Messages
    <2> QED
        BY <1>5, <2>1, <2>2 DEF UploadEnds, Live, Awaiting
<1>6. ASSUME NEW p \in Positions, UploadArrives(u, p)
      PROVE  Calls
    <2>1. uploads'[u].pc = "Starting"
        BY <1>1, <1>6 DEF UploadArrives
    <2>2. [cmd |-> "StartUpload", from |-> u, position |-> p] \in Messages
        BY DEF Messages
    <2> QED
        BY <1>6, <2>1, <2>2 DEF UploadArrives, Live, Awaiting, IsCall
<1>7. CASE UploadRefused(u)
    BY <1>2, <1>3, <1>4, <1>5, <1>7 DEF UploadRefused
<1>8. CASE UploadStarted(u)
    <2>1. uploads'[u].pc = "Flushing"
        BY <1>1, <1>8 DEF UploadStarted
    <2>2. [cmd |-> "FlushUpload", from |-> u] \in Messages
        BY DEF Messages
    <2>3. Calls
        BY <1>8, <2>1, <2>2 DEF UploadStarted, Live, Awaiting, IsCall
    <2> QED
        BY <1>2, <1>3, <1>4, <2>3
<1>9. CASE UploadAccepted(u)
    <2>1. CASE UploadEnds(u, Ok)
        BY <1>2, <1>3, <1>4, <1>5, <2>1
    <2>2. CASE uploads' = [uploads EXCEPT ![u].pc = "Reading"] /\ mailbox' = mailbox
        <3>1. uploads'[u].pc = "Reading"
            BY <1>1, <2>2
        <3>2. Reads
            BY <2>2, <3>1 DEF Live, Awaiting
        <3> QED
            BY <1>2, <1>3, <1>4, <3>2
    <2> QED
        BY <1>9, <2>1, <2>2 DEF UploadAccepted
<1>10. CASE UploadReads(u)
    <2>1. PICK chunk \in Chunks :
              /\ uploads'[u].pc = "Sending"
              /\ Post([cmd |-> "UploadData", from |-> u, chunk |-> chunk])
        BY <1>10, ChunkRead DEF CallInv
    <2>2. [cmd |-> "UploadData", from |-> u, chunk |-> chunk] \in Messages
        BY DEF Messages
    <2>3. Calls
        BY <2>1, <2>2 DEF Live, Awaiting, IsCall
    <2> QED
        BY <1>2, <1>3, <1>4, <2>3
<1>11. CASE UploadAborts(u)
    BY <1>2, <1>3, <1>4, <1>5, <1>11 DEF UploadAborts
<1> QED
    BY <1>2, <1>3, <1>4, <1>5, <1>6, <1>7, <1>8, <1>9, <1>10, <1>11 DEF UploadRefused, UploadAborts

\* What the handlers of the other uploads find in the mailbox stays there.
LEMMA MailStays ==
    ASSUME mailbox \in Seq(Messages),
           mailbox' = mailbox \/ \E m \in Messages : Post(m)
    PROVE  \A i \in Mails : i \in Mails' /\ mailbox'[i] = mailbox[i]
BY Posted DEF Mails

\* A handler that is dropped leaves its notice, and no other step takes one away.
LEMMA HandlersKeepGuards ==
    ASSUME CallInv, GuardInv, RelayNext, ~Serve
    PROVE  GuardInv'
<1>1. slots' = slots /\ running' = running
    BY HandlerStepIsAStep
<1>2. mailbox \in Seq(Messages) /\ OneCall /\ StartsOnce
    BY DEF CallInv, HandlersOK
<1>3. Waiter' = Waiter /\ pending' = pending /\ \A u : IsUploader(u)' = IsUploader(u)
    BY <1>1 DEF slots, Waiter, IsUploader
<1>4. \A i \in Mails : mailbox[i] \in Messages
    BY <1>2, ElementOfSeq DEF Mails
<1>5. Waiter \in Uploads \cup {NoOne}
    BY WaiterType DEF CallInv
<1>6. CASE ~running
    <2>1. Mails = {} /\ Mails' = {}
        <3>1. mailbox = <<>>
            BY <1>2, <1>6 DEF StartsOnce
        <3>2. mailbox' = <<>>
            BY <1>1, <1>6, StartsOnceStep DEF StartsOnce
        <3> QED
            BY <3>1, <3>2 DEF Mails
    <2>2. GuardsOK'
        BY <1>1, <1>3, <1>6, <2>1 DEF GuardInv, GuardsOK
    <2> QED
        BY <1>1, <1>6, <2>2
           DEF GuardInv, NoCallIsForgotten, NoLiveWaiterIsDropped, NoGhostUploader
<1>7. ASSUME running, NEW u, 
             \A v \in Uploads \ {u} : uploads'[v] = uploads[v] /\ answers'[v] = answers[v],
             mailbox' = mailbox \/ \E m \in Messages : Post(m),
             \A i \in Mails' : i \notin Mails /\ mailbox'[i].cmd = "StartUpload" => Live(mailbox[i].from)',
             u \in Uploads =>
                 /\ Live(u) \/ uploads[u].pc = "Idle"
                 /\ ~Live(u)' => \A i \in Mails : GoneAfter(u, i)'
                 /\ ~Live(u)' => \E j \in Mails' : mailbox'[j].cmd = "UploaderDisconnected"
                                                   /\ mailbox'[j].from = u
                 /\ Awaiting(u)' => \E j \in Mails' : mailbox'[j].from = u
                 /\ answers'[u] \in {answers[u], NoAnswer}
      PROVE  GuardInv'
    <2>1. \A i \in Mails : i \in Mails' /\ mailbox'[i] = mailbox[i]
        BY <1>2, <1>7, MailStays
    <2>2. \A v \in Uploads \ {u} : Live(v)' = Live(v) /\ Awaiting(v)' = Awaiting(v)
        BY <1>7 DEF Live, Awaiting
    <2>3. ASSUME u \in Uploads
          PROVE  /\ Live(u) \/ (answers[u] = NoAnswer /\ Waiter # u)
                 /\ answers[u] # NotFound
        <3>1. uploads[u].pc \in {"Idle", "Reading"} => answers[u] = NoAnswer /\ Waiter # u
            BY <1>2, <2>3 DEF OneCall, Resting
        <3>2. NoAnswer # NotFound
            BY DEF NoAnswer, NotFound
        <3> QED
            BY <1>7, <2>3, <3>1, <3>2 DEF GuardInv, NoLiveWaiterIsDropped, Live
    <2>4. \A i \in Mails' : (mailbox[i].cmd = "StartUpload" /\ ~Live(mailbox[i].from))'
             => GoneAfter(mailbox[i].from, i)'
        <3>1. SUFFICES ASSUME NEW i \in Mails', mailbox'[i].cmd = "StartUpload",
                              NEW v, v = mailbox'[i].from, ~Live(v)'
                       PROVE  GoneAfter(v, i)'
            BY DEF Live, Awaiting, GoneAfter
        <3>2. i \in Mails /\ mailbox'[i] = mailbox[i]
            BY <1>7, <2>1, <3>1 DEF Live, Awaiting
        <3>3. v \in Uploads
            BY <1>4, <3>1, <3>2, MessageFields
        <3>4. CASE v = u
            BY <1>7, <3>1, <3>2, <3>3, <3>4
        <3>5. CASE v # u
            <4>1. GoneAfter(v, i)
                BY <2>2, <3>1, <3>2, <3>3, <3>5 DEF GuardInv, GuardsOK
            <4> QED
                BY <2>1, <4>1 DEF GoneAfter
        <3> QED
            BY <3>4, <3>5
    <2>5. (running /\ Waiter # NoOne /\ Live(Waiter) => IsUploader(Waiter))'
        <3>1. SUFFICES ASSUME NEW v \in Uploads, Waiter = v, Live(v)'
                       PROVE  IsUploader(v)
            BY <1>3, <1>5 DEF Live, Awaiting, IsUploader
        <3>2. Live(v)
            BY <2>2, <2>3, <3>1
        <3> QED
            BY <1>7, <3>1, <3>2, NoOneIsNoHandler DEF GuardInv, GuardsOK, Callers
    <2>6. GuardsOK'
        BY <1>3, <2>4, <2>5 DEF GuardInv, GuardsOK
    <2>7. ASSUME NEW v \in Uploads
          PROVE  /\ Awaiting(v)' /\ answers'[v] = NoAnswer =>
                       Waiter = v \/ \E i \in Mails' : mailbox'[i].from = v
                 /\ Awaiting(v)' => answers'[v] # NotFound
                 /\ IsUploader(v) /\ ~Live(v)' =>
                       \E j \in Mails' : mailbox'[j].cmd = "UploaderDisconnected"
                                         /\ mailbox'[j].from = v
        <3>1. CASE v = u
            BY <1>7, <2>3, <3>1 DEF NoAnswer, NotFound
        <3>2. CASE v # u
            <4>1. /\ Awaiting(v) /\ answers[v] = NoAnswer =>
                         Waiter = v \/ \E i \in Mails : mailbox[i].from = v
                  /\ Awaiting(v) => answers[v] # NotFound
                  /\ IsUploader(v) /\ ~Live(v) =>
                         \E j \in Mails : mailbox[j].cmd = "UploaderDisconnected"
                                          /\ mailbox[j].from = v
                BY <1>7 DEF GuardInv, NoCallIsForgotten, NoLiveWaiterIsDropped, NoGhostUploader,
                            Mails
            <4> QED
                BY <1>7, <2>1, <2>2, <3>2, <4>1
        <3> QED
            BY <3>1, <3>2
    <2>8. NoCallIsForgotten'
        BY <1>3, <2>7 DEF NoCallIsForgotten, Awaiting, Mails
    <2>9. NoLiveWaiterIsDropped'
        BY <2>7 DEF NoLiveWaiterIsDropped, Awaiting
    <2>10. NoGhostUploader'
        BY <1>3, <2>7 DEF NoGhostUploader, Live, Awaiting, Mails
    <2> QED
        BY <2>6, <2>8, <2>9, <2>10 DEF GuardInv
<1>8. CASE running /\ UploadsMove
    <2>1. PICK u \in Uploads :
              \/ \E p \in Positions : UploadArrives(u, p)
              \/ UploadRefused(u) \/ UploadStarted(u) \/ UploadAccepted(u)
              \/ UploadReads(u) \/ UploadAborts(u)
        BY <1>8 DEF UploadsMove
    <2>2. /\ Live(u) \/ uploads[u].pc = "Idle"
          /\ \A v \in Uploads \ {u} : uploads'[v] = uploads[v] /\ answers'[v] = answers[v]
          /\ answers'[u] \in {answers[u], NoAnswer}
        BY <1>8, <2>1, UploadPosts
    <2>3. ASSUME NEW m \in Messages, Post(m), m.cmd = "UploaderDisconnected", m.from = u, ~Live(u)'
          PROVE  GuardInv'
        <3>1. /\ Len(mailbox) + 1 \in Mails' /\ mailbox'[Len(mailbox) + 1] = m
              /\ \A i \in Mails' : i \in Mails \/ i = Len(mailbox) + 1
            BY <1>2, <1>8, <2>3, Posted
        <3>2. \A i \in Mails : GoneAfter(u, i)'
            BY <1>2, <2>3, <3>1, LenProperties DEF GoneAfter, Mails
        <3>3. \A i \in Mails' : i \notin Mails => mailbox'[i].cmd # "StartUpload"
            BY <2>3, <3>1
        <3>4. ~Awaiting(u)'
            BY <2>3 DEF Live
        <3> QED
            BY <1>7, <1>8, <2>2, <2>3, <3>1, <3>2, <3>3, <3>4
    <2>4. CASE Live(u)' /\ ~Awaiting(u)' /\ mailbox' = mailbox
        <3>1. Mails' = Mails
            BY <2>4 DEF Mails
        <3> QED
            BY <1>7, <1>8, <2>2, <2>4, <3>1
    <2>5. ASSUME NEW m \in Messages, Post(m), m.from = u, Live(u)'
          PROVE  GuardInv'
        <3>1. /\ Len(mailbox) + 1 \in Mails' /\ mailbox'[Len(mailbox) + 1] = m
              /\ \A i \in Mails' : i \in Mails \/ i = Len(mailbox) + 1
            BY <1>2, <1>8, <2>5, Posted
        <3>2. \A i \in Mails' : i \notin Mails => Live(mailbox[i].from)'
            BY <2>5, <3>1 DEF Live, Awaiting
        <3> QED
            BY <1>7, <1>8, <2>2, <2>5, <3>1, <3>2
    <2> QED
        BY <1>8, <2>1, <2>3, <2>4, <2>5, UploadPosts
<1>9. CASE running /\ ~UploadsMove
    <2>1. OthersMove
        BY <1>9, OthersLeaveUploads
    <2>2. \A i \in Mails' : i \notin Mails => mailbox'[i].cmd # "StartUpload"
        <3>1. CASE mailbox' = mailbox
            BY <3>1 DEF Mails
        <3>2. ASSUME NEW m \in Messages, Post(m), m.cmd \notin UploadCommands
              PROVE  \A i \in Mails' : i \notin Mails => mailbox'[i].cmd # "StartUpload"
            BY <1>2, <1>9, <3>2, Posted DEF UploadCommands
        <3> QED
            BY <2>1, <3>1, <3>2 DEF OthersMove
    <2>3. PICK h : h \notin Uploads
        BY <2>1 DEF OthersMove
    <2> QED
        BY <1>7, <1>9, <2>1, <2>2, <2>3 DEF OthersMove
<1> QED
    BY <1>6, <1>8, <1>9

\* Every step keeps the invariant of guards.
LEMMA GuardInvStep ==
    ASSUME CallInv, GuardInv, [RelayNext]_relayVars
    PROVE  GuardInv'
<1>1. CASE UNCHANGED relayVars
    <2>1. UNCHANGED <<running, pending, uploader, answers, mailbox, uploads>>
        BY <1>1 DEF relayVars, vars, handlers
    <2> QED
        BY <2>1 DEF GuardInv, GuardsOK, GoneAfter, NoCallIsForgotten, NoLiveWaiterIsDropped,
                    NoGhostUploader, Live, Awaiting, Waiter, IsUploader, Mails
<1> QED
    BY <1>1, ServeKeepsGuards, HandlersKeepGuards

\* Calls are answered or wait for the queued chunk, live requests are not
\* dropped, and an uploader whose request is gone is about to be disconnected.
LEMMA GuardInvariance == RelaySpec => []GuardInv
<1>1. RelayInit => GuardInv
    <2>1. ASSUME RelayInit
          PROVE  GuardInv
        <3>1. /\ mailbox = <<>> /\ Mails = {} /\ pending = NoPending /\ uploader = NoUploader
              /\ Waiter = NoOne
              /\ \A u \in Uploads : ~Live(u) /\ ~Awaiting(u)
            BY <2>1 DEF RelayInit, Init, Mails, Waiter, NoPending, Live, Awaiting
        <3> QED
            BY <3>1 DEF GuardInv, GuardsOK, NoCallIsForgotten, NoLiveWaiterIsDropped,
                        NoGhostUploader, IsUploader, NoUploader, NoPending
    <2> QED
        BY <2>1
<1>2. CallInv /\ GuardInv /\ [RelayNext]_relayVars => GuardInv'
    BY GuardInvStep
<1> QED
    BY <1>1, <1>2, CallInvariance, PTL DEF RelaySpec

\* The session forgets no call of an upload: as long as it runs, a handler that
\* waits has its command in the mailbox, its answer, or the queued chunk.
THEOREM EveryCallIsKept == RelaySpec => []NoCallIsForgotten
<1>1. GuardInv => NoCallIsForgotten
    BY DEF GuardInv
<1> QED
    BY <1>1, GuardInvariance, PTL

\* flush_upload only ever overwrites the waiter of a request that is gone: no
\* live upload is told NotFound by a session that runs.
THEOREM LiveWaitersAreKept == RelaySpec => []NoLiveWaiterIsDropped
<1>1. GuardInv => NoLiveWaiterIsDropped
    BY DEF GuardInv
<1> QED
    BY <1>1, GuardInvariance, PTL

\* The Upload guard of api.rs works, wherever the request breaks off: the
\* session's uploader is live, or its UploaderDisconnected is on its way.
THEOREM GuardsAreServed == RelaySpec => []NoGhostUploader
<1>1. GuardInv => NoGhostUploader
    BY DEF GuardInv
<1> QED
    BY <1>1, GuardInvariance, PTL
=============================================================================
