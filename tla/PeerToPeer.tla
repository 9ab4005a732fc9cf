----------------------------- MODULE PeerToPeer -----------------------------
(***************************************************************************)
(* The two ends of the peer-to-peer connection, up to the opening of its   *)
(* channel: PeerToPeerClient (p2p.rs) over its RTC connection              *)
(* (p2p/native.rs, p2p/web.rs), in the client that downloads, which offers,*)
(* and in the one that uploads, which answers.                             *)
(*                                                                         *)
(* All that happens reaches a client through one queue, rx: what the other *)
(* side signaled, and the events of its own RTC connections, each with the *)
(* id of the connection it is of.  A client that has answered and gets     *)
(* another offer starts over with a new connection.  The downloading       *)
(* client, when its first attempt or a later transfer fails, goes on with  *)
(* the same connection, queue and unsent messages, and makes another offer *)
(* (download_p2p).                                                         *)
(*                                                                         *)
(* External: the RTC library, which describes, gathers and connects on     *)
(* threads of its own; and the signaling, a SignalingLine each way, which  *)
(* may lose what it carries.                                               *)
(***************************************************************************)
EXTENDS Integers, Sequences

CONSTANTS
    Platforms,       \* the RTC implementations of the downloading client
    MaxOffers,       \* bound: how often create_offer is called
    MaxCandidates    \* bound: candidates gathered by a connection, the last one empty

ASSUME PlatformsAreKnown == Platforms \subseteq {"native", "web"}
ASSUME BoundsAreNatural == MaxOffers \in Nat \ {0} /\ MaxCandidates \in Nat

VARIABLES
    platform,     \* DefaultRtc of the downloading client
    called,       \* how often it has called create_offer
    stage,        \* what download_p2p is at; in the other client, whether transfer has returned
    id,           \* Connection::id
    local,        \* local_description_type of the connection
    stable,       \* whether the connection has both its descriptions
    remote,       \* the connection that the remote description is of
    gathered,     \* how many candidates the connection has gathered
    open,         \* whether the data channel of the connection has opened
    heard,        \* whether the handler was told that it has
    rx,           \* PeerToPeerClient::rx
    pending,      \* SignalingWebSocket::pending
    line,         \* the signaling on its way to each side
    lost,         \* whether a signaling message got lost, or was not applied
    doubled,      \* whether an offer was made while another waited for its answer
    faults        \* whether a side has ended, or could not connect its websocket

connections == <<id, local, stable, remote, gathered, open, heard>>
progress == <<called, stage, faults>>
signaling == <<pending, line, lost>>
vars == <<platform, doubled, progress, connections, rx, signaling>>

Sides == {"Downloader", "Uploader"}
Other(side) == IF side = "Downloader" THEN "Uploader" ELSE "Downloader"

\* The ids of the connections: the uploading client makes one for each offer.
Ids == Nat
NoRemote == -1

\* rtc_signaling_message::Inner, with the sender's connection for its content.
Description(type, connection) == [tag |-> type, connection |-> connection, empty |-> FALSE]
Candidate(connection, empty) == [tag |-> "Candidate", connection |-> connection, empty |-> empty]
Messages == [tag : {"Offer", "Answer", "Candidate"}, connection : Ids, empty : BOOLEAN]

\* Event.
Incoming(message) == [tag |-> "Incoming", id |-> 0, message |-> message]
Outgoing(connection, message) == [tag |-> "Outgoing", id |-> connection, message |-> message]
Opened(connection) == [tag |-> "Opened", id |-> connection, message |-> Description("Offer", 0)]
Events == [tag : {"Incoming", "Outgoing", "Opened"}, id : Ids, message : Messages]

Set(f, side, value) == [f EXCEPT ![side] = value]
Both(value) == [side \in Sides |-> value]

\* download_p2p is about to make an offer, or in connect_p2p, or in transfer_p2p.
Stages == {"Offering", "Connecting", "Transferring", "Over"}
Active(side) == stage[side] \in {"Connecting", "Transferring"}

Init ==
    /\ platform \in Platforms
    /\ called = 0
    /\ stage = [side \in Sides |-> IF side = "Downloader" THEN "Offering" ELSE "Transferring"]
    /\ id = Both(0) /\ local = Both("None") /\ stable = Both(FALSE)
    /\ remote = Both(NoRemote) /\ gathered = Both(0)
    /\ open = Both(FALSE) /\ heard = Both(FALSE)
    /\ rx = Both(<< >>) /\ pending = Both(<< >>) /\ line = Both(<< >>)
    /\ lost = FALSE /\ doubled = FALSE /\ faults = FALSE

-----------------------------------------------------------------------------
(* download_p2p: the downloading client's offers and what follows them.      *)

\* While an offer waits for its answer, a native connection ignores another
\* one; a web connection describes itself again.
Waits == local["Downloader"] = "Offer" /\ ~stable["Downloader"]
IsIgnored == platform = "native" /\ Waits

\* connect_p2p calls create_offer; the description comes back as an event.
CreateOffer ==
    /\ stage["Downloader"] = "Offering"
    /\ called' = called + 1
    /\ stage' = Set(stage, "Downloader", "Connecting")
    /\ local' = Set(local, "Downloader", "Offer")
    /\ stable' = Set(stable, "Downloader", FALSE)
    /\ doubled' = (doubled \/ (Waits /\ ~IsIgnored))
    /\ rx' = IF IsIgnored THEN rx
             ELSE Set(rx, "Downloader",
                      Append(rx["Downloader"], Outgoing(0, Description("Offer", 0))))
    /\ UNCHANGED <<platform, faults, id, remote, gathered, open, heard, signaling>>

\* The data channel delivers a message of the peer: connect_p2p returns.
ConnectReturns ==
    /\ stage["Downloader"] = "Connecting" /\ heard["Downloader"]
    /\ stage' = Set(stage, "Downloader", "Transferring")
    /\ UNCHANGED <<platform, doubled, called, faults, connections, rx, signaling>>

\* After an error in the first attempt, or in a transfer that got on, the client may
\* offer again, nothing else having changed; any other error is the last.
AfterError(side) ==
    {"Over"} \cup
    (IF /\ side = "Downloader" /\ called < MaxOffers
        /\ stage[side] = "Transferring" \/ called <= 1
       THEN {"Offering"} ELSE {})
Errs(side) ==
    \E next \in AfterError(side) :
        /\ stage' = Set(stage, side, next)
        /\ faults' = (faults \/ next = "Over")

CreateOfferFails ==
    /\ stage["Downloader"] = "Offering"
    /\ called' = called + 1
    /\ \/ called = 0 /\ called' < MaxOffers /\ UNCHANGED <<stage, faults>>
       \/ stage' = Set(stage, "Downloader", "Over") /\ faults' = TRUE
    /\ UNCHANGED <<platform, doubled, connections, rx, signaling>>

\* transfer times out, meets an error of the channel or of its handler, or ends; or
\* the relay was faster.
Interrupted(side) ==
    /\ Active(side)
    /\ Errs(side)
    /\ UNCHANGED <<platform, doubled, called, connections, rx, signaling>>

-----------------------------------------------------------------------------
(* The RTC connection. *)

\* on_candidate, onicecandidate: gathering begins with the local description.
Gathers(side) ==
    /\ local[side] # "None" /\ gathered[side] < MaxCandidates
    /\ gathered' = [gathered EXCEPT ![side] = @ + 1]
    /\ rx' = Set(rx, side, Append(rx[side],
                 Outgoing(id[side], Candidate(id[side], gathered[side] + 1 = MaxCandidates))))
    /\ UNCHANGED <<platform, doubled, progress, id, local, stable, remote, open, heard, signaling>>

Connected == \A side \in Sides : stable[side] /\ remote[side] = id[Other(side)]

\* on_open, onopen: once each end has the description of the other.
Opens(side) ==
    /\ Connected /\ ~open[side]
    /\ open' = Set(open, side, TRUE)
    /\ rx' = Set(rx, side, Append(rx[side], Opened(id[side])))
    /\ UNCHANGED <<platform, doubled, progress, id, local, stable, remote, gathered,
                   heard, signaling>>

-----------------------------------------------------------------------------
(* PeerToPeerClient::transfer. *)

Hears(side, tag) == Active(side) /\ rx[side] # << >> /\ Head(rx[side]).tag = tag
\* mutant: the events of all connections are heard
NeverOld(side) == FALSE
IsOld(side) == Head(rx[side]).tag # "Incoming" /\ Head(rx[side]).id # id[side]
Dequeued(side) == Set(rx, side, Tail(rx[side]))

DropsOldEvent(side) ==
    /\ Active(side) /\ rx[side] # << >> /\ IsOld(side)
    /\ rx' = Dequeued(side)
    /\ UNCHANGED <<platform, doubled, progress, connections, signaling>>

\* handle_outgoing_signaling_message drops empty candidates.
DropsEmpty(side) ==
    /\ Hears(side, "Outgoing") /\ ~IsOld(side) /\ Head(rx[side]).message.empty
    /\ rx' = Dequeued(side)
    /\ UNCHANGED <<platform, doubled, progress, connections, signaling>>

\* mutant: push_front for push_back
PushedFront(queue, message) == <<message>> \o queue
\* SignalingWebSocket::send.
Pushed(queue, message) == Append(queue, message)

\* send and flush: the message goes behind those that wait, and all of them are
\* sent, up to where the websocket cannot be connected; the rest waits for the next
\* message.  (A message whose own send fails is one that Loses takes off the line.)
Signals(side) ==
    LET queue == Pushed(pending[side], Head(rx[side]).message) IN
    /\ Hears(side, "Outgoing") /\ ~IsOld(side) /\ ~Head(rx[side]).message.empty
    /\ rx' = Dequeued(side)
    /\ \E sent \in 0..Len(queue) :
        /\ line' = Set(line, Other(side), line[Other(side)] \o SubSeq(queue, 1, sent))
        /\ pending' = Set(pending, side, SubSeq(queue, sent + 1, Len(queue)))
        /\ IF sent = Len(queue) THEN UNCHANGED <<stage, faults>>
           ELSE /\ stage' \in {Set(stage, side, next) : next \in AfterError(side)}
                /\ faults' = TRUE
    /\ UNCHANGED <<platform, doubled, called, connections, lost>>

HearsOpened(side) ==
    /\ Hears(side, "Opened") /\ ~IsOld(side)
    /\ rx' = Dequeued(side)
    /\ heard' = Set(heard, side, TRUE)
    /\ UNCHANGED <<platform, doubled, progress, id, local, stable, remote, gathered,
                   open, signaling>>

HearsMessage(side, tag) == Hears(side, "Incoming") /\ Head(rx[side]).message.tag = tag
Sender(side) == Head(rx[side]).message.connection

IdAfterOffer(side) == IF local[side] = "None" THEN id[side] ELSE id[side] + 1

\* mutant: the handler of a new connection reports with the id of the old one
OldHandlerId(side) == id[side]
\* PeerConnectionEventHandler::connection_id of the connection that answers.
HandlerId(side) == IdAfterOffer(side)

\* An offer is answered, by a new connection if one was answered before; one
\* that meets an offer of our own is ignored.
HearsOffer(side) ==
    LET connection == IdAfterOffer(side)
        fresh == connection # id[side] IN
    /\ HearsMessage(side, "Offer")
    /\ IF local[side] = "Offer"
         THEN rx' = Dequeued(side) /\ UNCHANGED connections
         ELSE /\ id' = Set(id, side, connection)
              /\ local' = Set(local, side, "Answer")
              /\ stable' = Set(stable, side, TRUE)
              /\ remote' = Set(remote, side, Sender(side))
              /\ gathered' = IF fresh THEN Set(gathered, side, 0) ELSE gathered
              /\ open' = IF fresh THEN Set(open, side, FALSE) ELSE open
              /\ heard' = IF fresh THEN Set(heard, side, FALSE) ELSE heard
              /\ rx' = Set(rx, side, Append(Tail(rx[side]),
                           Outgoing(HandlerId(side), Description("Answer", connection))))
    /\ UNCHANGED <<platform, doubled, progress, signaling>>

\* An answer completes our offer.  A second one finds the connection stable and
\* is refused, which is an error; one that we did not ask for is ignored.
HearsAnswer(side) ==
    /\ HearsMessage(side, "Answer")
    /\ rx' = Dequeued(side)
    /\ IF local[side] # "Offer"
         THEN UNCHANGED <<stable, remote, stage, faults>>
       ELSE IF stable[side]
         THEN Errs(side) /\ UNCHANGED <<stable, remote>>
         ELSE /\ stable' = Set(stable, side, TRUE)
              /\ remote' = Set(remote, side, Sender(side))
              /\ UNCHANGED <<stage, faults>>
    /\ UNCHANGED <<platform, doubled, called, id, local, gathered, open, heard, signaling>>

\* A candidate is refused without a description; that of another connection
\* than the one described is refused or ignored.
HearsCandidate(side) ==
    /\ HearsMessage(side, "Candidate")
    /\ rx' = Dequeued(side)
    /\ \/ remote[side] # Sender(side) /\ Errs(side)
       \/ remote[side] # NoRemote /\ UNCHANGED <<stage, faults>>
    /\ UNCHANGED <<platform, doubled, called, connections, signaling>>

\* A message cannot be decrypted or parsed, or the RTC connection refuses it.
Refuses(side) ==
    /\ Hears(side, "Incoming")
    /\ rx' = Dequeued(side)
    /\ Errs(side) /\ lost' = TRUE
    /\ UNCHANGED <<platform, doubled, called, connections, pending, line>>

-----------------------------------------------------------------------------
(* The signaling. *)

\* SignalingMessageHandler::handle.
Delivers(side) ==
    /\ line[side] # << >>
    /\ line' = Set(line, side, Tail(line[side]))
    /\ rx' = Set(rx, side, Append(rx[side], Incoming(Head(line[side]))))
    /\ UNCHANGED <<platform, doubled, progress, connections, pending, lost>>

Loses(side) ==
    /\ line[side] # << >>
    /\ line' = Set(line, side, Tail(line[side]))
    /\ lost' = TRUE
    /\ UNCHANGED <<platform, doubled, progress, connections, rx, pending>>

-----------------------------------------------------------------------------

Handles(side) ==
    DropsOldEvent(side) \/ DropsEmpty(side) \/ Signals(side) \/ HearsOpened(side)
        \/ HearsOffer(side) \/ HearsAnswer(side) \/ HearsCandidate(side) \/ Refuses(side)

Next ==
    \/ CreateOffer \/ CreateOfferFails \/ ConnectReturns
    \/ \E side \in Sides :
        Gathers(side) \/ Opens(side) \/ Handles(side) \/ Interrupted(side)
            \/ Delivers(side) \/ Loses(side)

Spec == Init /\ [][Next]_vars

\* The clients make their offers and handle their events, the relay passes on what
\* it gets, and two ends that can connect do.
FairSpec ==
    /\ Spec
    /\ WF_vars(CreateOffer \/ CreateOfferFails)
    /\ \A side \in Sides :
        WF_vars(Handles(side)) /\ WF_vars(Delivers(side)) /\ WF_vars(Opens(side))

-----------------------------------------------------------------------------

TypeOK ==
    /\ platform \in {"native", "web"}
    /\ called \in 0..MaxOffers
    /\ stage \in [Sides -> Stages]
    /\ id \in [Sides -> Ids]
    /\ local \in [Sides -> {"None", "Offer", "Answer"}]
    /\ remote \in [Sides -> Ids \cup {NoRemote}]
    /\ gathered \in [Sides -> 0..MaxCandidates]
    /\ {stable, open, heard} \subseteq [Sides -> BOOLEAN]
    /\ rx \in [Sides -> Seq(Events)]
    /\ {pending, line} \subseteq [Sides -> Seq(Messages)]
    /\ {lost, doubled, faults} \subseteq BOOLEAN

\* The handler is told that a channel has opened only if it is the channel it
\* would send on: the event of a connection that was given up in the meantime is
\* in the queue before the offer that replaced it is heard.  (p2p.rs:232)
HeardIsOpen == \A side \in Sides : heard[side] => open[side]

\* Unless signaling was lost, a candidate that is added belongs to the connection
\* whose answer or offer was taken, across any number of new offers, of connections
\* given up for them, and of attempts that failed with messages in the queue or not
\* yet sent.  (add_remote_candidate, p2p.rs:378.  Excepted is the web client that has
\* sent an offer again before its answer: after the second answer is refused, it hears
\* that answer's candidates with the description of the first.)
CandidatesFit ==
    [][\A side \in Sides :
        HearsCandidate(side) /\ ~lost /\ ~(side = "Downloader" /\ doubled)
            => remote[side] = Sender(side)]_vars

\* An offer leads to an open channel on the side that made it, however often its
\* attempt is given up and repeated, unless signaling was lost, a side has ended or its
\* websocket could not be connected, with the same exception.
HandshakeCompletes == called > 0 ~> lost \/ faults \/ heard["Downloader"] \/ doubled
=============================================================================
