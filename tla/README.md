# Glopfile: a verification development

Glopfile sends a file from one client to another, end-to-end encrypted, either
through a relay (HTTP) or directly between the peers (WebRTC, signalled over the
relay's websockets). The relay stores nothing: content passes through it from an
upload request to a download request, and whenever either side breaks off, the
other resumes from where the download is.

This directory holds TLA+ models of that system, TLC runs that check them on
small instances, and theorems with proofs TLAPS checks for every instance.
Paths below are relative to the repository (`src/` in `PROJECT.json`).

## 1. The system

### Relay (`glopfile-relay/src`)

| part | state | operations | interacts with |
|---|---|---|---|
| **Session actor** (`session.rs`) | download slot (absent, connected at a position, finished), uploader and its position, one pending chunk or error, one websocket and a queue of held frames per direction | start/finish download, check/start upload, upload data, flush upload, start websocket, relay a frame, disconnected (download, upload, websocket) | one task per session; an unbounded mailbox in; oneshot replies, a `DownloadEvent` channel per download and a `WebsocketCommand` channel per websocket out |
| **HTTP handlers** (`api.rs`) | the local state of a future: token, one chunk of read-ahead, `completed`; drop guards `Upload` and `Download` | `POST /upload/{id}`, `POST /upload/{id}/start`, `GET /download/{id}/content` (also `bytes=-0`), `POST /files`, `GET /download/{id}` | call the session and await; are dropped at any await when the client goes away |
| **Websocket task** (`websocket.rs`) | timers, split socket; guard `Disconnect` | relays frames both ways until closed, silent, replaced or without session | the session |
| **Registry, tokens, ids** (`registry.rs`, `token.rs`, `id.rs`) | map of running sessions; a counter | create, get, remove; a token is never used twice | handlers look sessions up; a session removes itself |
| **Ranges** (`range.rs`) | none | parse `Range` and `Content-Range` | handlers |

What makes the relay correct: every download is fed the file from the position it
asked for, byte after byte, whichever uploads the bytes come from; an upload is
answered ok only once its end was handed over; nobody waits for ever for
something that is over; news of a connection that was replaced has no effect on
its successor; frames between the peers arrive in order, including those sent
before the other side was there; a session ends when, and only when, the transfer
is over.

What is hard there: any number of requests of either kind may be under way at
once, each takes over from the last, each may be dropped between any two of its
steps, and what they left in the mailbox, in the pending slot or in a channel is
served after they are gone. The code handles this with tokens, guards, and the
single pending slot, and the tests run a few of the orders.

### Clients (`rust-client/glopfile/src`)

| part | what it does | what is hard |
|---|---|---|
| `ApiClient` (`api_client.rs`) | upload loop with `/start` and 409; relay download into a `DecryptedFile` | the state may change between the two requests; write states with a poisoned one |
| `UploaderClient` (`uploader_client.rs`) | serves p2p requests and uploads to the relay at the same time; a relay request times out unless its start is acknowledged | acknowledgement against timeout, two nested retries |
| `DownloaderClient` (`downloader_client.rs`) | tries p2p, requests chunks in a window, falls back to the relay | the window across reconnections |
| `PeerToPeerClient` (`p2p.rs`, `p2p/*`) | offer, answer and candidates over the websocket; one queue of events | repeated offers, events of connections given up, lost or early signaling |
| `WebSocketClient` (`websocket.rs`, `websocket/*`) | a shared connection that reconnects | the swap of the shared oneshot; what is left to take from a connection that ended |
| `cipher.rs`, `cipher/*` | buffers with nonce, tag and padding; a key per usage | sizes counted alike at both ends, edges of block and varint |
| `util/*`, `error.rs` | retry with backoff, deadlines, which errors are retried | what becomes of an error between two retries |

What makes a client correct: the file that is reported complete is the file that was
sent; a transfer that can go on goes on, over whichever transport is there; nobody is
told that it is over before it is; a task that waits is answered; what belongs to a
connection, attempt or request that was given up has no effect on its successor.

The command line client, the FFI bindings, the iOS application and the web
front-end present the client library and keep only interface state.

`PROJECT.json` lists every component with its status, and every hazard of this
code at its line with the properties that would catch it.

## 2. Modules

| module | what it is |
|---|---|
| `Session` | the session actor in an **open environment** that may issue any command in any order |
| `MCSession` | `Session` for TLC, with bounded channels |
| `SessionProofs` | theorems about `Session` |
| `Relay` | one session with its mailbox, HTTP handlers and websocket tasks; EXTENDS `Session` |
| `MCRelay` | `Relay` for TLC |
| `RelayProofs` | theorems about `Relay`: it implements `Session`, its calls and guards |
| `RelayStreamProofs` | theorems about `Relay`: streams, ends, connections and frames; EXTENDS `RelayProofs` |
| `Downloader` | one download by the client: p2p window, fallback, race with the relay, file |
| `DownloaderProofs` | theorems about `Downloader` |
| `Uploader` | one upload by the client: nested retries, 409, relay request timeout, relay and p2p at once |
| `UploaderProofs` | theorems about `Uploader` |
| `PeerToPeer` | both ends of the peer-to-peer handshake, up to the opening of the channel |
| `PeerToPeerProofs` | theorems about `PeerToPeer` |
| `SignalingLine` | what the sender of signaling messages may count on: the **abstract specification** |
| `WebSocketClient` | the websocket that reconnects, and the queue sent over it; implements `SignalingLine` |
| `WebSocketClientProofs` | theorems about `WebSocketClient`, the refinement among them |
| `Content` | the bytes: encryption, range headers, decryption, sealed signaling messages |
| `ContentProofs` | theorems about `Content` |

### `Session`

One action per command, one step each: the actor serves a command to its end
without awaiting. `running`, `downloader`, `uploader`, `pending`, `socket`
(`uploader_ws`, `downloader_ws`) and `held` (`*_ws_held`) are the fields of
`State`; `answers[h]`, `events[d]` and `inbox[w]` are the reply, event and
websocket channels the session writes to; `started` remembers which tokens were
used. A handler is its own token, as `Token::new` never repeats a value.
`running` stands for the task and its registry entry together: a lookup that
fails and a send to a session that has ended both answer 404.

A chunk is a record of where in the file its sender took it (`at`), its size and
whether it is the last (`Chunk::Final`). The session never reads `at`; the
properties use it to tell what was delivered. `Metadata` only reads and is left out.

Conversions: `upload_error` turns `Finished` into ok (`Response`);
`request(..).await` turns a dropped reply into NotFound (`Result`).

### `Relay`

A handler runs from one await to the next in one step: what it shares is only the
mailbox, to which it appends, and its own channels. Program counters are the
awaits: an upload is `Starting`, `Flushing`, `Reading` (awaiting its body) or
`Sending`; a download is `Starting` or `Streaming`. `Post` appends to the mailbox
if the session runs; `Serve` is one turn of the session task, and it drops the
mailbox when the session ends.

`UploadAborts` and `DownloadDropped` are the server dropping a future when its
client goes away, at every await, with what the drop guards send as part of the
step. The `Upload` guard exists before the first await, the `Download` guard only
once `start_download` has returned, and the model keeps that difference. Websocket
tasks are spawned and end only by themselves. Ping and idle timers are a close that
may come at any time (`PeerCloses`).

The uploading clients hold the same file, send it from the position they name to
its end, cut in any way, and may name any position (`Content-Range` requires the
range to reach the end). A chunk has at least one byte, except the only chunk of
an empty body. A downloader may ask for any position.

### `Downloader`

The downloading client is one thread of futures, so it is interrupted at its awaits
only. `pc` is the await of `download_async`: `Connecting` and `Transferring` are
`connect_p2p` and `transfer_p2p` the first time, `Racing` the `select!` of the loop,
`Retrying` the `transfer_p2p` that follows it, `Finishing` is `finish_download`,
`Postponed` its pause after a `Retry-After`, and `Relaying` a relayed transfer that nothing
races. `relayed` is the future of `download_relayed` (`Starting`, `Requesting`, `Streaming`,
`Flushing` within one turn of `retry`), and `flushing` says that the p2p handler awaits the flush of the file.
`file` is `DecryptedFile`: one of its four states and the bytes written so far. A byte
is the offset it has in the file, so that a repetition, a gap and a swap all show.
`requested` is `requested_offset`, which belongs to the download and not to a transfer.

`RequestDataOrFinish` is the whole of `request_data_or_finish` with what its caller
does with the result: all requests of `next_data_request` go out in one step, its
`expect` is the outcome `WindowPanic`, an offset or poll of a `Poisoned` file the outcome
`PoisonedPanic`. `Connects` is the connect handler that returns; `P2PFails` is what
`download_p2p` does with an error, which depends on where it is. Dropping a future is
part of the step that ends the scope (`Returns`, `Connects`).

`retry` makes a request again in two ways, and the model has both. After a transient error
it does so while its schedule lasts (`RelayFails`, with `MaxRetries` for the quarter of an
hour). After an answer with `Retry-After` it does so whatever the schedule says
(`retry.rs:32-35`): `RelayPostpones` and `FinishDownloadPostponed` have no bound.

External: the RTC channel (opens once, in order, may stall or break at any time, losing
what has not arrived, and telling the client or not), and the relay, which answers from
the position asked for, and may fail, refuse or end early. The bytes of the relay and
of the peer are those of the file: what `Relay` shows of the relay, and `UploadState` and
the cipher of the peer. A second offer does not open the channel again: the client keeps
one connection, and the peer that resets its own has a new channel, for this client
the same as a broken one.

### `Uploader`

`pc` is where `relay_task` is: `Starting` and `Sending` are the two requests of
`upload_file`, `Backoff` a pause of the inner `retry` (within the timeout of the attempt),
`Waiting` one of the outer `retry`. `position` is `position_shared`: it outlives the tries
of the inner retry and is new in every attempt. `timer` is the `abortable_timeout` of the
attempt, `handle` says whether `RelayRequestTimeoutHandle` still holds the latest abort
handle; `acked` and `quiet` are history. `outcome` is what
`upload_provisioned_file_async` returned; `p2p` the other future of its `select!`.

`RequestFails(error, classified)` is a request that failed with an error the inner retry
treats as `error`; when it gives up, the outer retry classifies the bare error again
(`Error::from(RetryError)` drops the override): the 409 without progress, transient
within, is permanent without. Errors are two classes, `Error::retriability`; a
`Retry-After` is a transient error. `RelayAcks` is `send_upload_progress` of the relay,
`AckArrives` the websocket handler, `AckIsLost` a relay without websocket of this client
or a connection that ended. The relay is the position it wants, which moves as downloads
come and go (`RelayMoves`), until it settles.

### `PeerToPeer`

The state of a side is its `Connection` (`id`, `local` and `stable` for its descriptions,
`remote` for whose description it took, `gathered`, `open`), its queue `rx`, and the
messages that `SignalingWebSocket` has yet to send (`pending`); `heard` says what its
handler was told. Every match arm of `transfer` and of `handle_incoming_signaling_message`
is an action, taken from the head of `rx`; the arms that only log are their first branches.
`HearsOffer` is the whole of the arm: a connection that has answered is replaced
(`IdAfterOffer`; its gathering and channel start anew), the remote description is set and
the answer comes back as an event with the id its handler was made with (`HandlerId`).
`Signals` is `send` with its `flush`: the queue goes out up to where the websocket cannot be
connected, and the rest waits for the next message. `line` is the signaling on its way, one
`SignalingLine` each way; `lost` remembers that a message was lost there, or refused.

`stage` is where `download_p2p` is, as far as the handshake can tell: about to make an
offer, in `connect_p2p`, in `transfer_p2p`, or over. An error ends the call of `transfer`
that met it, not the client: after one in the first attempt, or in a later `transfer_p2p`
that had made progress, the downloading client offers again with the same connection, queue
and unsent messages (`AfterError`), and hears what had come in the meantime. An error of
`connect_p2p` in the race is the last (`Over`), and so is any error of the uploading client.
`AfterError` leaves open whether there was progress: the bytes are in `Downloader`.

External: descriptions and candidates come as events after `set_local_description`, in
order; a channel opens once both ends have each other's latest description (`Connected`);
a native connection ignores an offer while one waits for its answer, a web connection
describes itself again; a second answer is refused; a candidate of another connection than
the one described is refused or ignored.

On the web an offer that is repeated before its answer has two answers. The second one is
refused, which is an error; the client may offer once more, and then hears the candidates
that came with the refused answer while it has the description of the first. This takes no
lost message, only an answer that is slower than `p2p_timeout`. `doubled` remembers it, and
both `CandidatesFit` and `HandshakeCompletes` make it their exception, for the client that
downloads. On native the repeated offer is ignored, so that no answer is refused; but an
offer that could not be sent stays in `pending` until another message is signaled, and
the repeated offer is none: `faults` remembers a websocket that could not be connected,
and that a side has ended, and exempts both from `HandshakeCompletes`.

### `SignalingLine` and `WebSocketClient`

A line takes messages, carries each at most once over some connection, never over an
older one than its predecessor's, and on each connection in order; what is carried may be
lost. That is what `PeerToPeer` assumes of `line`, and `FramesInOrder` of `Relay` says what
becomes of it at the relay.

`task` is `websocket_task`: `Connecting`, `Joined`, `Waiting` between attempts, `Dead`.
Attempt k sends to `oneshot[k]`, whose receiver is `shared` from the loss of the connection
before it; it makes `connection[k]`. `user` is `SignalingWebSocket`: `flush` with its loop
over `pending` (`submitted`, `popped`), its call of `connect()` (`waiting`) and the
connection it keeps (`websocket`). A connection that ended holds a result that is taken
once: a native thread is joined by `join` or by a `send` that fails, whichever comes first,
and the second finds `AlreadyClosed`; the error of a web connection is taken from its
cell, which the close event may fill again. A native `send` that joins a thread which
ended Ok panics (`WritePanics`). The timeout of `connect()` may come whenever no answer is
there.

### `Content`

A byte of the file is its position in it, a byte of a ciphertext knows the key, the buffer
and its place in it, so that whatever is cut, repeated, swapped or sealed for another
usage fails to open: AES-GCM and HKDF are taken as ideal. Sizes are those of the code with
smaller numbers for `NONCE_SIZE`, `TAG_SIZE`, the block and the varint; `PositionBase`
stands for 2^64. `EncryptFile` reads a file that may have become longer or shorter since it
was provisioned. `Conflict`, `Breaks` and `Ends` are one turn of `upload_file` and
`download_content` together, through headers that are built and parsed
(`ContentRange`, `UploadPositions`); `Relay` and `Uploader` have those turns in full.

## 3. Runs

Passing runs:

| run | instance | shows |
|---|---|---|
| `SessionOpen` | 2 uploads, 2 downloads, 1 check, 1 finish, 1 websocket a side, file of 1, 1 held frame | the session's own invariants, whatever the handlers do |
| `RelayTakeover` | 2 uploads, 1 download, 1 finish, file of 2 | contiguous streams, true positions, no forgotten call, no ghost uploader, ok means handed over |
| `RelayResume` | 1 upload, 2 downloads, 1 finish, file of 2 | complete means to the end; a session ends only when done; replaced downloads are harmless; **`Relay` implements `Session`** |
| `RelaySignaling` | 2 uploader websockets, 1 downloader websocket, 2 frames each | frames in order, none lost |
| `RelayLiveness` | 2 uploads, 1 download, 1 finish, empty file | replaced uploads return, calls return, a complete response ends its session, finished sessions end |
| `Download` | file of 5, chunks of 2, window of 3, 1 retry, all three transports, with and without timeout | bytes in order through every change between peer and relay, over means written, the window is full, a download with timeouts returns |
| `WebSocket` | native and web, 3 attempts, 3 messages | no call waits in vain, each returns; **`WebSocketClient` implements `SignalingLine`** |
| `Peers` | native and web, 2 offers, 2 candidates a connection | a handler hears only of its own channel, candidates fit their description, the channel opens, while attempts fail and are repeated |
| `Upload` | file of 2, 2 acknowledgements, all three transports | no slice beyond the file, the outcome is the relay's, unacknowledged attempts end, a relay that settles is served |
| `Content` | files up to 3 (4 when they grow), 2 breaks, messages up to 12, nonce and tag of 2, blocks of 4, varint base 4, 16 for 2^64 | what is complete is the file, an unchanged file arrives, messages come through |

`Spec` as a property of `RelayResume` is the refinement: every step of the relay
with its mailbox and handlers is a step of the session in its open environment
(or leaves it alone), so what is proved of `Session` for all environments holds
in `Relay`. What it checks of the handlers is the environment's discipline: one
call outstanding at a time and one start per token.

Why the bounds are enough. A takeover needs two requests of a kind, and a third adds
only a longer chain of what two do: the session keeps one uploader, one download
and one pending slot, and forgets everything of those it replaced but their
tokens. A file of 2 has a beginning, a middle and an end, and can be sent in one
chunk or two. The liveness runs use an empty file: an empty body still sends one
(final) chunk through every state of upload and download; positions, and with
them 409 answers, are covered by the safety runs. `MaxHeld` is 1 in
`SessionOpen`, so that the queue overflows, and holds every frame in
`RelaySignaling`, as `FramesAreKept` says nothing of overflow. `MaxQueue` bounds the
events a download has not read in `SessionOpen`; there, answers and websocket
commands are read before the next command is served (`Prompt`), which loses no
session state because no command looks at them. In `Relay` nothing but the
instance is bounded: each handler is one request. `CHECK_DEADLOCK FALSE` is given
because each instance has finitely many requests and stops when they are done.
Handlers are symmetric in safety runs; symmetry is not used with liveness.

In `Download` the file is longer than the window and the window longer than a chunk,
neither a multiple of the other: there are short requests at the end of the window and
at the end of the file, several in flight, and windows that only partly refill. A
retry more repeats what the first does; what the relay delivers is cut in every way.

In `WebSocket` a third attempt follows one that followed another, so that an attempt has
both a predecessor whose oneshot is spent and a successor whose oneshot is not yet shared;
three messages make a flush that is resumed in its middle. In `Peers` a second offer finds
its predecessor in every stage, after a first attempt that failed as after a transfer of the
loop; safety with any number of offers is proved. A connection gathers one candidate that is
sent and the empty one. In `Upload` one acknowledgement may be that of the attempt before; `Size + 1` is
the position beyond the file, and the retries are not bounded. In `Content` the messages
cover every remainder of the block, both lengths of the varint and the step between them;
2 breaks make three parts of the file, the middle one of any length. `PositionBase` is
above every position a client sends, as 2^64 is.

Fairness of `Relay` (`Scheduled`): a task that is ready is scheduled, that is the session
serves its mailbox, a handler whose answer has come runs on, and a response
stream that is over is ended. Nothing is assumed of clients: they may never send
the next byte of a body, never read a response and never close. Hence the
exceptions in `FinishedSessionEnds`.

Fairness of `Downloader` (`Scheduled`): the clocks of the client and its writes. A p2p
transfer with a `p2p_timeout` times out if nothing is heard (`Timeout` of `transfer`); a
relayed transfer goes on, is postponed, or fails by `REQUEST_TIMEOUT` or `CONTENT_TIMEOUT`
and, after transient errors, by the end of the schedule of `retry`; a flush ends, and so does
each request of `finish_download`. The channel and the peer owe nothing. Without a timeout a
stalled channel keeps a download for ever, so `DownloadReturns` speaks of downloads with a
timeout or without p2p. Nothing bounds how often a request is postponed: that requests are
not answered with `Retry-After` for ever (`Postpones`) is a hypothesis of `DownloadReturns`,
no fairness, and the property is false without it.

Fairness of the others (`FairSpec`). `WebSocketClient`: an attempt to connect ends one way
or the other, the pause of `retry` passes, and a call whose oneshot was answered is polled;
the network owes nothing, and neither does a connection that is up. `PeerToPeer`: a client
that is about to offer does or fails, a client
handles its events, a message on the line that is not lost arrives, and two ends that can
connect do; candidates and failures may never come. `Uploader`: the timers of the
client, and `/start` is answered once the relay is quiet (that request has no timeout
but the attempt's); content may be accepted at any time or never. `Content`: both clients
try again after a break.

Runs that find what a comment or an assertion says to be untrue of the code:

| run | says | the code |
|---|---|---|
| `FinishedHangs` | `finish_download` ends "the session once the uploader disconnects" (`session.rs:145`) | not if another upload started in between, which then waits for ever |
| `RequestsOutrun` | `requested_offset` is never behind what was received (`downloader_client.rs:433`) | it is when the relay took the file further; the peer's next message panics the client |

Other places where the code does less than its comments or messages say have no run of
their own and are listed with the hazards:

* Nothing is retried "for more than a quarter of an hour" nor after "more than a minute at
  once" (`retry.rs:11-12`), but `adjust` (`retry.rs:32-35`) returns the delay of a
  `Retry-After` also when the schedule is exhausted: a relay or proxy that keeps answering
  with it is asked for ever, by transfers and by `finish_download`. Without its hypothesis,
  `DownloadReturns` is violated by `RelayStarts` and `RelayPostpones` in turn.
* `Download` "tells its session when the response ends" (`api.rs:141`), but not when the
  request is dropped while it starts (`DownloadDropped` in `Starting`): the session then
  takes uploads for nobody.
* When p2p fails in the race, "finish with relayed transfer" (`downloader_client.rs:182`):
  p2p may have written before it failed, and the relay writes the same bytes again.
  `ContentIsInOrder` does not catch this: it says nothing of the file once the channel is
  broken and the relay was left alone, or the download is over. (That such a file is not
  taken for complete is `OverMeansWritten`.)
* The relay is told that all was downloaded (`api_client.rs:329`), and the uploader waits for
  it (`uploader_client.rs:191`), but not when the connect handler receives the last bytes
  (`downloader_client.rs:180`).
* An uploader's websocket is acknowledged the end of a chunk that is still queued
  (`session.rs:409`); an upload that was done may be told 404 and not Finished
  (`session.rs:536`, `571`), which the client takes for permanent.
* After an attempt to reconnect has failed, `connect()` says "websocket thread died"
  although the task lives, until a later attempt has connected and been lost
  (`websocket.rs:193` swaps the oneshot only then).
* A write that fails makes the fallback of a download panic (`api_client.rs:550`,
  `PoisonedPanic`); a websocket that ends in order makes a native `send` panic
  (`websocket/native.rs:111`, `WritePanics`).

Every property of a passing run has a mutant in `PROJECT.json`: a plausible bug
(a definition marked `mutant` beside the one it replaces) that makes TLC find the
property violated.

## 4. Proofs

`SessionProofs` proves, for every number of handlers, file size, set of chunks
and capacity, in an environment that may send any command at any time:

* `TypeCorrect`: the session is typed. One lemma per command, on lemmas about
  what the helpers return.
* `PositionsCorrect`: `QueuedOnlyWhenAbsent /\ PositionsAgree /\
  QueueIsContinued` (the first is proved here only, no run checks it). No conjunct is inductive alone. When an upload starts behind
  a queued chunk, only `QueuedOnlyWhenAbsent` says that no download is connected
  elsewhere; when a chunk goes straight through, only `PositionsAgree` says that
  the download moves on from the same offset; when the download breaks off and
  the next one takes the queued chunk, `QueueIsContinued` says the uploader is
  right behind it. Together with the types they are inductive. This is the
  `debug_assert_eq!` of `upload_data`, which release builds do not evaluate.
* `HeldCorrect`: frames are held only for an absent side, at most
  `MAX_HELD_FRAMES`. It needs the direction to be typed, nothing else.
* `ReplacedCorrect`: nothing follows `ConnectionReplaced` on a download's channel.
  Inductive with `DownloadsStartFresh`: a download that has not started has no
  events and is not connected, so no token is connected twice.

* `QueueContinues`: `QueueIsContinued`, which the invariant of `PositionsCorrect` contains.
* `QueuedErrorCorrect`: a queued error belongs to the uploader that is connected,
  or is the `ConnectionReplaced` of a takeover that failed; it needs no more than
  the types, and that a session that ends may leave anything behind.

`RelayProofs` proves of `RelaySpec`, for every number of requests and websockets and every
file size and set of chunks:

* `RelayImplementsSession`: `RelaySpec => Spec`. The mapping is the identity; what has to be
  shown is that the handlers are an environment `Session` allows, which is an invariant of
  theirs (`CallInv`): a handler has one call at a time, in the mailbox, with the queued chunk
  or answered (`OneCall`); a token starts once (`StartsOnce`); and what an upload has in the
  mailbox is at the position the session will have for it when it serves it (`UploadsOK`),
  because `mpsc` keeps the order and each `UploadData` is sent after the answer to the one
  before. Everything proved of `Session` is used of `Relay` through this theorem.
* `EveryCallIsKept` (`NoCallIsForgotten`), `LiveWaitersAreKept` (`NoLiveWaiterIsDropped`) and
  `GuardsAreServed` (`NoGhostUploader`). They are inductive together (`GuardInv`), and with
  `GuardsOK`: a start whose request is gone is followed in the mailbox by the news of that,
  since the guard exists before the command is sent; whoever waits for the queued chunk is the
  uploader, or gone; and a queued error is none that a dropped call would return.

`RelayStreamProofs` proves, likewise of `RelaySpec`:

* `StreamsAreContiguous`, `CompleteIsToTheEnd`, `PositionsStayTrue` and `RelayTypeCorrect`. In
  the handler a download is where its next read begins, in the session where the next chunk
  goes; `StreamOf` says that the chunks on the channel between them lead from the one to the
  other. It takes the session's own invariants (a chunk goes straight through only from an
  uploader that is at the download's position, a queued one is continued), and that the
  position of a queued chunk and that of a start still in the mailbox are true.
* `SessionsEndWhenDone` (`EndsOnlyWhenDone`) and `OkIsHandedOver` (`OkMeansHandedOver`). A
  session that has ended, a download it holds for complete, an answer or a queued error that
  says `Finished` and an `ok` are each traced back to a last chunk that is on a download's
  channel or has been read, or to a declared finish (`EndInv`); in between, the news of the
  end may be in the mailbox (`EndsAreTrue`).
* `OpenConnectionsStay` (`OpenConnectionsAreRegistered`). A connection that was started and has
  not ended is the session's own or was told that it is not (`KnownInv`).
* `FramesStayInOrder` (`FramesInOrder`): a sender's frames go from the mailbox over `held` to
  the websockets; each stage is ordered and is younger than the next (`FrameInv`).
* `FramesStay`: `RelaySpec /\ []~Overflows => []FramesAreKept`. `hold_frame` drops a frame
  that comes when `MAX_HELD_FRAMES` are held, so the property is false without a hypothesis;
  `Overflows` is precisely that: the next command is a frame that must be held, and there is no
  room. `RelaySignaling` has room for all its frames, so it checks the property as it stands.

`DownloaderProofs` proves, for every size of file, chunk and window, every bound on
retries and every choice of transports:

* `DownloadTypeCorrect`: the download is typed, in particular no request leaves the
  file, where the uploader would panic. `RequestsTyped` is the arithmetic of the window.
* `ContentArrivesInOrder`: `ContentIsInOrder`. It is not inductive: when the relay's next
  bytes arrive, one has to know that they go where the file ends (`FollowsTheFile`).
  That is so because p2p writes only when it is about to take the transfer over, which
  drops the relayed future (`RelayRunsAlone`), or to flush, after which nothing is
  written (`FlushIsDue`); the one exception is a request on a broken channel. The states
  that `ContentIsInOrder` exempts (`Garbled` in the proof) are never left, and
  `NothingBeforeOpening` excludes a channel that has yet to open.
* `OverOnlyWhenWritten`: `OverMeansWritten`, with `FinishedIsComplete` (while
  `finish_download` runs or is postponed, the file is complete) and `CompleteIsAuthentic`; a complete file
  stays as it is (`CompleteStays`), and every step that tells somebody finds or makes it
  complete (`TellsWhenComplete`).

* `WindowStaysFull`: `WindowIsFull`. The requests on their way to the peer and the responses on
  their way back form a chain of pieces (`InChain`) from the end of the file to `requested`,
  which is a window ahead (`InWindow`). A step takes the first piece to the file, turns a
  request into its response, or adds the last piece. What the chain starts from has to be known
  before the transfer: until the peer says hello one message at most is on its way and nothing
  has been requested (`Opening`).

`WebSocketClientProofs` proves, for every number of attempts and messages and either
platform:

* `NoWaitInVain`: `NobodyWaitsInVain`. It needs to know of every oneshot what the task
  makes of it (`OneshotsOK`): those before the attempt are answered, that of the attempt is
  open only while it connects, no later one has been sent, and a task that has ended leaves
  none open; and that the shared oneshot is never ahead of the attempt that comes next.
* `ImplementsTheLine`: `Spec => Line!Spec`, the refinement of `SignalingLine`. The mapping
  is the identity on `submitted`, `carried` and `arrived`; the connection counts as the age
  of the line. That a message is not carried twice needs that all carried ones are popped
  (`popped` bounds `carried`), that connections do not grow older needs that the one in use
  is no older than the last one used and no newer than the shared one (`CarriedOK`).

`PeerToPeerProofs` proves, for any number of offers and candidates, `HeardChannelsAreOpen`:
`HeardIsOpen`. What is inductive is a fact about the queue (`QueuesAreTrue`): no event in it
is of a later connection than the present one, and one that says the present channel has
opened is true. When a connection is replaced, every event in the queue is older than the
new id; that is all the comparison at `p2p.rs:232` needs.

`CandidatesBelong` is the action property `CandidatesFit`. A candidate that is added was, some
steps earlier, in the queue of the peer, unsent, on the line or in the queue of the side itself;
the invariant (`FitInv`) follows it back: on the way to a side, each candidate comes after the
description of its connection, and connections come in their turn (`OnTheWay`). This holds
whatever attempts fail, as an error leaves the way as it is. A connection
that is replaced leaves its candidates behind in the peer's own queue, where the comparison of
ids drops them. `Roles` says that the downloader, whose offers the uploader answers, has one
connection throughout. What is left is an answer that comes to a connection which is stable:
it would be refused, and its candidates heard all the same. `Single` excludes it: as long as no
offer was doubled, an offer or its answer is on its way only while the offer waits, and then
in one place only.

`UploaderProofs` proves, for every file size: `NoSlicePanics` (`SlicesFit`; the conflict
beyond the file is the last of its attempt, and a new attempt starts at 0) and
`EndsAsTheRelaySays` (`OutcomeIsTheRelays`, which needs that a transport has just the
tasks it names, `TasksOK`).

`ContentProofs` proves, for every size of file, nonce, tag and block and every number of
breaks:

* `CompleteFilesAreTrue`: `WrittenIsTheFile`. The parts that have arrived are the beginning of
  the one encryption (`PartsFit`): the header the uploader builds from the downloader's position
  is parsed to that position (`AgreedPosition`), which is where `PositionBase` and the length
  have to be far apart. What is the beginning of an encryption opens only when it is all of it
  (`OnlyWholeOpens`), and then to what was encrypted.
* `MessagesArriveWhole`: `MessagesComeThrough`, from lemmas about division with a symbolic block
  (`Remainders`, `Padding`) and about what sealing, decoding and joining of buffers return.

Assumptions, all about the models' constants; TLC evaluates them in every run:

| module | assumptions |
|---|---|
| `Session` | `SizesAreNatural`, `ChunksAreTyped`, `NoOneIsNoHandler`, `DirectionsAreDisjoint` |
| `Relay` | those of `Session`; `HandlersAreDistinct`: a request or connection is of one kind |
| `Downloader` | `SizesArePositive`, `RetriesAreNatural`, `TransportsAreKnown` |
| `Uploader` | `SizeIsPositive`, `AcksAreNatural`, `TransportsAreKnown` |
| `WebSocketClient` | `PlatformsAreKnown`, `AttemptsArePositive`, `MessagesAreNatural` |
| `PeerToPeer` | `PlatformsAreKnown`, `BoundsAreNatural` |
| `Content` | `SizesAssumption`: sizes are natural, those of the cipher positive; the length of a message fits two bytes of varint, and positions in a file are far from `PositionBase` |

Every invariant and every safety action property that a passing run checks is proved, and so
are both refinements. The inductive invariants were first checked by TLC. Only model-checked:
liveness, which is out of the prover's reach (`ReplacedUploadReturns`, `FinishedSessionEnds`,
`CompletionEndsSession`, `CallsReturn`, `DownloadReturns`, `ConnectReturns`,
`HandshakeCompletes`, `UnacknowledgedEnds`, `QuietRelayIsServed`, `UnchangedFileArrives`).

## 5. Not modelled

* The clients with the relay, all in one module: `Relay` lets clients do anything the relay
  accepts, `Uploader` and `Downloader` let the relay do anything that HTTP allows, and
  `PeerToPeer` and `WebSocketClient` meet in `SignalingLine`.
* The progress channels, the command line client and its progress thread: display only.
* Cryptography itself, the RTC libraries and the encoding of protobuf and JSON. Malformed
  headers, which are answered 400. The wrap of positions near 2^64 in `session.rs`, which no
  client of this repository can reach.
* The ids of p2p connections do not overflow (`p2p.rs:447` panics after 2^32 offers).
* Several sessions: they share only the registry, and their ids are random.
* The health check, logging, HTTP formatting, user interfaces; `Metadata` of the session, which only reads.
* Sockets: that the server notices a client going away is the client's step; a
  chunk that a response yields counts as received.

## 6. Plan

1. (done) `Session`, `MCSession`, `SessionProofs`: the actor and its invariants.
2. (done) `Relay`, `MCRelay`: handlers, mailbox, liveness, refinement.
3. (done) `Downloader`, `DownloaderProofs`: p2p window, fallback, `DecryptedFile`.
4. (done) `Uploader`, `UploaderProofs`: `upload_file` with `/start` and 409, nested
   retries, the relay request timeout, both transports.
5. (done) `SignalingLine`, `WebSocketClient`, `PeerToPeer` and their proofs.
6. (done) `Content`: header values, sizes of encrypted content, padding.
7. (done) Proofs of every safety property of the runs, and of `RelaySpec => Spec`.
8. `Transfer`: what the relay promises end to end (a download receives a growing
   prefix of the file from its position, until it is complete), with `Relay`
   shown to implement it, and with it the composition of `Uploader` and `Relay`. The
   invariants `StreamInv` and `EndInv` are what that refinement needs.
