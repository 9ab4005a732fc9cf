------------------------------ MODULE Session ------------------------------
(***************************************************************************)
(* The session actor of the relay (glopfile-relay/src/session.rs).         *)
(*                                                                         *)
(* A session is one task that owns all of its state and serves commands    *)
(* one at a time from an unbounded mailbox, so serving a command is one    *)
(* atomic step.  There is one action per command; its parameters are the   *)
(* fields of the command.  What a command sends out is recorded in         *)
(*                                                                         *)
(*   answers[h]  the oneshot reply of the call that handler h waits on,    *)
(*   events[d]   the DownloadEvent channel of download d,                  *)
(*   inbox[w]    the WebsocketCommand channel of websocket connection w.   *)
(*                                                                         *)
(* A handler stands for one HTTP request or one websocket connection.  It  *)
(* is also its own Token: Token::new never returns a value twice.          *)
(*                                                                         *)
(* Next is the session in an open environment that may issue any command   *)
(* in any order: whatever is proved of Spec holds however the HTTP         *)
(* handlers behave.  Module Relay closes the system with the handlers of   *)
(* api.rs and websocket.rs.                                                *)
(***************************************************************************)
EXTENDS Naturals, Sequences

CONSTANTS
    Uploads,     \* POST /upload/{id} requests, each with its token
    Downloads,   \* GET /download/{id}/content requests, each with its token
    Checks,      \* POST /upload/{id}/start requests
    Finishes,    \* GET /download/{id}/content requests with `bytes=-0`
    UpPeers,     \* websocket connections to /upload/{id}/ws
    DownPeers,   \* websocket connections to /download/{id}/ws
    Frames,      \* the frames the clients may send over their websockets
    Chunks,      \* the chunks of a body an uploader may send
    FileSize,    \* every position is at most the size of the file
    MaxHeld,     \* MAX_HELD_FRAMES
    NoOne        \* Option::None where the option holds a handler

Peers == UpPeers \cup DownPeers
Callers == Uploads \cup Downloads \cup Checks \cup Finishes \cup Peers

ASSUME SizesAreNatural == FileSize \in Nat /\ MaxHeld \in Nat
\* Chunk: `at` is where in the file the sender took the bytes from (the session
\* never looks at it), `final` tells Chunk::Final from Chunk::More.
ASSUME ChunksAreTyped == Chunks \subseteq [at : Nat, size : Nat, final : BOOLEAN]
ASSUME NoOneIsNoHandler == NoOne \notin Callers
ASSUME DirectionsAreDisjoint == UpPeers \cap DownPeers = {}

VARIABLES
    running,     \* the task has neither returned nor been dropped
    downloader,  \* State::downloader
    uploader,    \* State::uploader
    pending,     \* State::pending
    socket,      \* State::uploader_ws and State::downloader_ws
    held,        \* State::uploader_ws_held and State::downloader_ws_held
    answers, events, inbox,
    started      \* the tokens a Start* command was served for

slots == <<downloader, uploader, pending>>
signaling == <<socket, held>>
vars == <<running, downloader, uploader, pending, socket, held,
          answers, events, inbox, started>>

-----------------------------------------------------------------------------
(* Data. *)

Positions == 0..FileSize

\* Result<(), UploadError>, with None for a reply that has not been sent.
NoAnswer == [tag |-> "None"]
Ok == [tag |-> "Ok"]
NotFound == [tag |-> "NotFound"]
ConnectionReplaced == [tag |-> "ConnectionReplaced"]
Finished == [tag |-> "Finished"]
DataPending == [tag |-> "DataPending"]
AtPosition(p) == [tag |-> "Position", position |-> p]

UploadErrors == {NotFound, ConnectionReplaced, Finished, DataPending}
                    \cup [tag : {"Position"}, position : Nat]
Answers == {NoAnswer, Ok} \cup UploadErrors

\* DownloaderSlot.
Absent == [tag |-> "Disconnected"]
Complete == [tag |-> "Finished"]
Connected(d, p) == [tag |-> "Connected", token |-> d, position |-> p]
DownloaderSlots == {Absent, Complete} \cup
    [tag : {"Connected"}, token : Downloads, position : Nat]

\* Option<Uploader>.
NoUploader == [tag |-> "None"]
Uploader(u, p) == [tag |-> "Some", token |-> u, position |-> p]
UploaderSlots == {NoUploader} \cup [tag : {"Some"}, token : Uploads, position : Nat]

\* Pending; the size of the queued chunk is that of the chunk.
NoPending == [tag |-> "None"]
DataAfterIncrement(chunk, waiter, p) ==  \* mutant: records where the chunk ends
    [tag |-> "Data", chunk |-> chunk, waiter |-> waiter, position |-> p + chunk.size]
Data(chunk, waiter, p) ==
    [tag |-> "Data", chunk |-> chunk, waiter |-> waiter, position |-> p]
Error(e) == [tag |-> "Error", error |-> e]
Pendings == {NoPending}
    \cup [tag : {"Data"}, chunk : Chunks, waiter : Uploads \cup {NoOne}, position : Nat]
    \cup [tag : {"Error"}, error : UploadErrors]

\* DownloadEvent.
Bytes(chunk) == [tag |-> "Bytes", chunk |-> chunk]
Replaced == [tag |-> "ConnectionReplaced"]
Events == {Replaced} \cup [tag : {"Bytes"}, chunk : Chunks]

\* WebsocketCommand: a relayed frame, an UploadDataAck frame, or SessionError.
Send(f) == [tag |-> "Send", frame |-> f]
Ack(p) == [tag |-> "Ack", offset |-> p]
SessionError == [tag |-> "SessionError"]
Commands == {SessionError} \cup [tag : {"Send"}, frame : Frames]
                \cup [tag : {"Ack"}, offset : Nat]

Directions == {"Upload", "Download"}
Opposite(dir) == IF dir = "Upload" THEN "Download" ELSE "Upload"
DirectionOf(w) == IF w \in UpPeers THEN "Upload" ELSE "Download"

Init ==
    /\ running = TRUE
    /\ downloader = Absent
    /\ uploader = NoUploader
    /\ pending = NoPending
    /\ socket = [dir \in Directions |-> NoOne]
    /\ held = [dir \in Directions |-> <<>>]
    /\ answers = [h \in Callers |-> NoAnswer]
    /\ events = [d \in Downloads |-> <<>>]
    /\ inbox = [w \in Peers |-> <<>>]
    /\ started = {}

-----------------------------------------------------------------------------
(* Helpers of the command handlers. *)

IsConnected(d) == downloader.tag = "Connected" /\ downloader.token = d
IsAnyUploader(u) == uploader.tag = "Some" /\ u \in Uploads  \* mutant: ignores the token
IsUploader(u) == uploader.tag = "Some" /\ uploader.token = u
Waiter == IF pending.tag = "Data" THEN pending.waiter ELSE NoOne

\* reply_to(waiter, result) and then the reply of the command itself.
AnswersWith(h, result, waiter, waiterResult) ==
    [x \in Callers |-> CASE x = h -> result
                         [] x # h /\ x = waiter -> waiterResult
                         [] OTHER -> answers[x]]

\* The connected download is told that it was replaced.
EventsAfterBroadcast ==  \* mutant: tells every download there has been
    [d \in Downloads |-> IF d \in started THEN Append(events[d], Replaced)
                                           ELSE events[d]]
EventsAfterReplacing ==
    [d \in Downloads |-> IF IsConnected(d) THEN Append(events[d], Replaced)
                                           ELSE events[d]]

\* send_upload_progress: only a websocket that is registered now is told.
InboxAfterProgress(p) ==
    [w \in Peers |-> IF w = socket["Upload"] THEN Append(inbox[w], Ack(p))
                                             ELSE inbox[w]]

\* terminate_uploader, when there is an uploader: the error answers the call
\* waiting on the queued chunk, or waits for the uploader's next call.
NoTerminatedWaiter == NoOne  \* mutant: removes the uploader without an answer
TerminatedWaiter == IF uploader.tag = "Some" THEN Waiter ELSE NoOne
PendingAfterTermination(error) ==
    IF pending.tag = "Data" THEN [pending EXCEPT !.waiter = NoOne] ELSE Error(error)

\* A download that starts at p is fed the queued chunk if it starts there.
Meets(p) == pending.tag = "Data" /\ pending.position = p

PositionBefore(p) == IF Meets(p) THEN p - pending.chunk.size ELSE p  \* mutant: wrong sign
PositionAfterQueued(p) == IF Meets(p) THEN p + pending.chunk.size ELSE p

WaiterIsAlwaysOk(p) == IF p \in Nat THEN Ok ELSE NoAnswer  \* mutant: ignores the mismatch
WaiterResult(p) == IF Meets(p) THEN Ok ELSE AtPosition(p)

\* Whether the uploader has to resume from where the download now is.
NeverBehind(at) == at \notin Nat  \* mutant: lets it go on
Behind(at) == uploader.tag = "Some" /\ uploader.position # at

\* The queued chunk or error is taken, whether or not it was of use.
PendingAfterDownload(at) == IF Behind(at) THEN Error(AtPosition(at)) ELSE NoPending

\* check_start_position.
AnyStartPosition(p) ==  \* mutant: looks at the queued chunk only
    IF pending.tag = "Data" /\ p # pending.position + pending.chunk.size
      THEN AtPosition(pending.position + pending.chunk.size) ELSE Ok
DownloadStartPosition(p) ==  \* mutant: looks at the download only
    IF downloader.tag = "Connected" /\ p # downloader.position
      THEN AtPosition(downloader.position) ELSE Ok
StartPositionError(p) ==
    IF downloader.tag = "Connected" /\ p # downloader.position
      THEN AtPosition(downloader.position)
    ELSE IF pending.tag = "Data" /\ p # pending.position + pending.chunk.size
      THEN AtPosition(pending.position + pending.chunk.size)
    ELSE Ok

\* What is held for a direction once its websocket has been sent it.
HeldKept(dir) == [held EXCEPT ![dir] = @]  \* mutant: copies instead of taking
HeldTaken(dir) == [held EXCEPT ![dir] = <<>>]

\* hold_frame: the newest frame is dropped when there is no room.
NotHeld(to, frame) == [held EXCEPT ![to] = IF frame = <<>> THEN <<>> ELSE @]  \* mutant: drops it
HeldReversed(to, frame) ==  \* mutant: the newest frame is sent first
    IF Len(held[to]) = MaxHeld THEN held ELSE [held EXCEPT ![to] = <<frame>> \o @]
HeldWith(to, frame) ==
    IF Len(held[to]) = MaxHeld THEN held ELSE [held EXCEPT ![to] = Append(@, frame)]

-----------------------------------------------------------------------------
(* The commands. *)

StartDownload(d, p) ==
    LET at == PositionAfterQueued(p)
    IN  /\ running
        /\ started' = started \cup {d}
        /\ events' = [EventsAfterReplacing EXCEPT
                        ![d] = IF Meets(p) THEN Append(@, Bytes(pending.chunk)) ELSE @]
        /\ answers' = AnswersWith(d, Ok, Waiter, WaiterResult(p))
        /\ inbox' = IF Meets(p) THEN InboxAfterProgress(at) ELSE inbox
        /\ pending' = PendingAfterDownload(at)
        /\ downloader' = Connected(d, at)
        /\ UNCHANGED <<running, uploader, signaling>>

FinishDownload(f) ==
    /\ running
    /\ downloader' = Complete
    /\ events' = EventsAfterReplacing
    /\ answers' = AnswersWith(f, Ok, TerminatedWaiter, Finished)
    /\ IF uploader.tag = "Some"
         THEN /\ pending' = PendingAfterTermination(Finished)
              /\ uploader' = IF pending.tag = "Data" THEN NoUploader ELSE uploader
         ELSE UNCHANGED <<uploader, pending>>
    /\ running' = (uploader'.tag = "Some")
    /\ UNCHANGED <<signaling, inbox, started>>

CheckStartUpload(c, p) ==
    /\ running
    /\ answers' = AnswersWith(c, StartPositionError(p), NoOne, Ok)
    /\ UNCHANGED <<running, slots, signaling, events, inbox, started>>

StartUpload(u, p) ==
    LET left == IF uploader.tag = "Some"
                  THEN PendingAfterTermination(ConnectionReplaced) ELSE pending
        result == StartPositionError(p)
    IN  /\ running
        /\ started' = started \cup {u}
        /\ answers' = AnswersWith(u, result, TerminatedWaiter, ConnectionReplaced)
        /\ IF result = Ok
             THEN /\ uploader' = Uploader(u, p)
                  /\ pending' = IF left.tag = "Error" THEN NoPending ELSE left
                  /\ inbox' = InboxAfterProgress(p)
             ELSE /\ uploader' = NoUploader
                  /\ pending' = left
                  /\ UNCHANGED inbox
        /\ UNCHANGED <<running, downloader, signaling, events>>

\* An uploader's call that the session answers without taking it any further.
Refused(u) ==
    \/ ~IsUploader(u) /\ answers' = AnswersWith(u, ConnectionReplaced, NoOne, Ok)
    \/ /\ IsUploader(u) /\ pending.tag = "Error"
       /\ answers' = AnswersWith(u, pending.error, NoOne, Ok)

UploadData(u, chunk) ==
    /\ running
    /\ \/ Refused(u) /\ UNCHANGED <<slots, events, inbox>>
       \/ /\ IsUploader(u) /\ pending.tag = "Data"
          /\ answers' = AnswersWith(u, DataPending, NoOne, Ok)
          /\ UNCHANGED <<slots, events, inbox>>
       \/ /\ IsUploader(u) /\ pending.tag = "None"
          /\ uploader' = [uploader EXCEPT !.position = @ + chunk.size]
          /\ IF downloader.tag = "Connected"
               THEN LET at == uploader.position + chunk.size IN
                    /\ downloader' = [downloader EXCEPT !.position = at]
                    /\ events' = [events EXCEPT
                                    ![downloader.token] = Append(@, Bytes(chunk))]
                    /\ inbox' = InboxAfterProgress(at)
                    /\ answers' = AnswersWith(u, Ok, NoOne, Ok)
                    /\ UNCHANGED pending
               ELSE /\ pending' = Data(chunk, u, uploader.position)
                    /\ UNCHANGED <<downloader, events, inbox, answers>>
    /\ UNCHANGED <<running, signaling, started>>

\* A waiter that is overwritten is dropped: its call returns NotFound.
FlushUpload(u) ==
    /\ running
    /\ \/ Refused(u) /\ UNCHANGED pending
       \/ /\ IsUploader(u) /\ pending.tag = "Data"
          /\ pending' = [pending EXCEPT !.waiter = u]
          /\ answers' = AnswersWith(NoOne, Ok, Waiter, NotFound)
       \/ /\ IsUploader(u) /\ pending.tag = "None"
          /\ answers' = AnswersWith(u, Ok, NoOne, Ok)
          /\ UNCHANGED pending
    /\ UNCHANGED <<running, downloader, uploader, signaling, events, inbox, started>>

StartWebsocket(w) ==
    LET dir == DirectionOf(w)
        queued == [i \in 1..Len(held[dir]) |-> Send(held[dir][i])]
        fed == [inbox EXCEPT ![w] = @ \o queued]
    IN  /\ running
        /\ started' = started \cup {w}
        /\ inbox' = [x \in Peers |-> IF x = socket[dir] THEN Append(fed[x], SessionError)
                                                        ELSE fed[x]]
        /\ socket' = [socket EXCEPT ![dir] = w]
        /\ held' = HeldTaken(dir)
        /\ answers' = AnswersWith(w, Ok, NoOne, Ok)
        /\ UNCHANGED <<running, slots, events>>

\* WebsocketData: a frame for an absent peer is held.
RelayFrame(from, frame) ==
    LET to == Opposite(from)
    IN  /\ running
        /\ IF socket[to] # NoOne
             THEN /\ inbox' = [inbox EXCEPT ![socket[to]] = Append(@, Send(frame))]
                  /\ UNCHANGED held
             ELSE /\ held' = HeldWith(to, frame)
                  /\ UNCHANGED inbox
        /\ UNCHANGED <<running, slots, socket, answers, events, started>>

\* Mutants: ends the session though the response broke off; goes on though it
\* was complete; lets a replaced download disconnect its successor.
DownloaderDisconnectedAlwaysEnds(d, completed) ==
    /\ running
    /\ downloader' = IF IsConnected(d) THEN Complete ELSE downloader
    /\ running' = (~IsConnected(d) \/ completed \notin BOOLEAN)
    /\ UNCHANGED <<uploader, pending, signaling, answers, events, inbox, started>>
DownloaderDisconnectedGoesOn(d, completed) ==
    /\ running
    /\ downloader' = CASE ~IsConnected(d) -> downloader
                       [] IsConnected(d) /\ completed -> Complete
                       [] IsConnected(d) /\ ~completed -> Absent
    /\ UNCHANGED <<running, uploader, pending, signaling, answers, events, inbox, started>>
AnyDownloaderDisconnected(d, completed) ==
    /\ running
    /\ downloader' = IF downloader.tag = "Connected" /\ ~completed THEN Absent ELSE downloader
    /\ running' = ~(IsConnected(d) /\ completed)
    /\ UNCHANGED <<uploader, pending, signaling, answers, events, inbox, started>>
DownloaderDisconnected(d, completed) ==
    /\ running
    /\ downloader' = CASE ~IsConnected(d) -> downloader
                       [] IsConnected(d) /\ completed -> Complete
                       [] IsConnected(d) /\ ~completed -> Absent
    /\ running' = ~(IsConnected(d) /\ completed)
    /\ UNCHANGED <<uploader, pending, signaling, answers, events, inbox, started>>

\* Mutants: leaves the error to the next uploader; does not end a session
\* whose download is finished.
UploaderDisconnectedKeepsError(u) ==
    /\ running
    /\ IF IsUploader(u)
         THEN uploader' = NoUploader /\ running' = (downloader.tag # "Finished")
         ELSE UNCHANGED <<uploader, running>>
    /\ UNCHANGED <<downloader, pending, signaling, answers, events, inbox, started>>
UploaderDisconnectedGoesOn(u) ==
    /\ running
    /\ uploader' = IF IsUploader(u) THEN NoUploader ELSE uploader
    /\ pending' = IF IsUploader(u) /\ pending.tag = "Error" THEN NoPending ELSE pending
    /\ UNCHANGED <<running, downloader, signaling, answers, events, inbox, started>>
UploaderDisconnected(u) ==
    /\ running
    /\ IF IsUploader(u)
         THEN /\ uploader' = NoUploader
              /\ running' = (downloader.tag # "Finished")
              /\ pending' = IF running' /\ pending.tag = "Error" THEN NoPending ELSE pending
         ELSE UNCHANGED <<uploader, running, pending>>
    /\ UNCHANGED <<downloader, signaling, answers, events, inbox, started>>

WebsocketDisconnected(w) ==
    /\ running
    /\ socket' = [dir \in Directions |->
                    IF dir = DirectionOf(w) /\ socket[dir] = w THEN NoOne ELSE socket[dir]]
    /\ UNCHANGED <<running, slots, held, answers, events, inbox, started>>

-----------------------------------------------------------------------------
(* The open environment: a handler has at most one call outstanding, starts *)
(* once, and reads what the session sends it whenever it likes.             *)

Free(h) == answers[h] = NoAnswer /\ Waiter # h

\* Chunks that do not take the uploader past the end of the file.
ChunksFor(u) ==
    {c \in Chunks : IsUploader(u) => uploader.position + c.size <= FileSize}

TakeAnswer(h) ==
    /\ answers[h] # NoAnswer
    /\ answers' = [answers EXCEPT ![h] = NoAnswer]
    /\ UNCHANGED <<running, slots, signaling, events, inbox, started>>

TakeEvent(d) ==
    /\ events[d] # <<>>
    /\ events' = [events EXCEPT ![d] = Tail(@)]
    /\ UNCHANGED <<running, slots, signaling, answers, inbox, started>>

TakeCommand(w) ==
    /\ inbox[w] # <<>>
    /\ inbox' = [inbox EXCEPT ![w] = Tail(@)]
    /\ UNCHANGED <<running, slots, signaling, answers, events, started>>

Next ==
    \/ \E d \in Downloads, p \in Positions :
          d \notin started /\ Free(d) /\ StartDownload(d, p)
    \/ \E f \in Finishes : Free(f) /\ FinishDownload(f)
    \/ \E c \in Checks, p \in Positions : Free(c) /\ CheckStartUpload(c, p)
    \/ \E u \in Uploads, p \in Positions :
          u \notin started /\ Free(u) /\ StartUpload(u, p)
    \/ \E u \in Uploads : \E chunk \in ChunksFor(u) : Free(u) /\ UploadData(u, chunk)
    \/ \E u \in Uploads : Free(u) /\ FlushUpload(u)
    \/ \E w \in Peers : w \notin started /\ Free(w) /\ StartWebsocket(w)
    \/ \E dir \in Directions, frame \in Frames : RelayFrame(dir, frame)
    \/ \E d \in Downloads, completed \in BOOLEAN : DownloaderDisconnected(d, completed)
    \/ \E u \in Uploads : UploaderDisconnected(u)
    \/ \E w \in Peers : WebsocketDisconnected(w)
    \/ \E h \in Callers : TakeAnswer(h)
    \/ \E d \in Downloads : TakeEvent(d)
    \/ \E w \in Peers : TakeCommand(w)

Spec == Init /\ [][Next]_vars

-----------------------------------------------------------------------------
(* Properties. *)

\* Every variable of the session holds what State and its channels may hold.
TypeOK ==
    /\ running \in BOOLEAN
    /\ downloader \in DownloaderSlots
    /\ uploader \in UploaderSlots
    /\ pending \in Pendings
    /\ socket \in [Directions -> Peers \cup {NoOne}]
    /\ held \in [Directions -> Seq(Frames)]
    /\ answers \in [Callers -> Answers]
    /\ events \in [Downloads -> Seq(Events)]
    /\ inbox \in [Peers -> Seq(Commands)]
    /\ started \subseteq Uploads \cup Downloads \cup Peers

\* A chunk is queued only while no download is connected, so a download never
\* waits for content the session already holds (start_download, upload_data).
QueuedOnlyWhenAbsent == pending.tag = "Data" => downloader.tag # "Connected"

\* The debug_assert of upload_data, as an invariant: whenever the uploader's
\* next chunk would go straight to the download, both are at the same offset.
PositionsAgree ==
    uploader.tag = "Some" /\ downloader.tag = "Connected" /\ pending.tag = "None"
        => uploader.position = downloader.position

\* An uploader that is behind a queued chunk continues exactly where it ends,
\* even when the chunk is another uploader's (start_upload, start_download).
QueueIsContinued ==
    uploader.tag = "Some" /\ pending.tag = "Data"
        => uploader.position = pending.position + pending.chunk.size

\* A queued error is for the uploader that is connected, or says that it was
\* replaced by one that could not start (terminate_uploader, disconnected).
QueuedErrorHasAReader ==
    running /\ pending.tag = "Error" =>
        uploader.tag = "Some" \/ pending.error = ConnectionReplaced

\* Frames are held for a direction only while it has no websocket, at most
\* MaxHeld of them: a registered peer never overtakes what was held for it.
HeldOnlyForAbsentPeers ==
    \A dir \in Directions :
        /\ Len(held[dir]) <= MaxHeld
        /\ socket[dir] # NoOne => held[dir] = <<>>

\* Once a download was told it is replaced, it is never fed again: nothing
\* follows ConnectionReplaced on its channel (start_download, finish_download).
ReplacedIsLast ==
    \A d \in Downloads : \A i \in 1..Len(events[d]) :
        events[d][i] = Replaced => i = Len(events[d]) /\ ~IsConnected(d)

=============================================================================
