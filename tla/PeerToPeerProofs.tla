-------------------------- MODULE PeerToPeerProofs --------------------------
(***************************************************************************)
(* Theorems about PeerToPeer, for any number of offers and candidates.     *)
(***************************************************************************)
EXTENDS PeerToPeer, TLAPS, SequenceTheorems

\* An event names a connection there is or was, and says that the channel of the
\* one there is has opened only if it has.
EventIsTrue(event, connection, opened) ==
    event.tag # "Incoming" =>
        /\ event.id <= connection
        /\ event.tag = "Opened" /\ event.id = connection => opened

QueueIsTrue(queue, connection, opened) ==
    \A i \in 1..Len(queue) : EventIsTrue(queue[i], connection, opened)
QueuesAreTrue == \A side \in Sides : QueueIsTrue(rx[side], id[side], open[side])

\* An offer is only about to be made when there is one left to make.
OffersAreLeft == stage["Downloader"] = "Offering" => called < MaxOffers

IInv == TypeOK /\ QueuesAreTrue /\ HeardIsOpen /\ OffersAreLeft

-----------------------------------------------------------------------------

\* A queue with an event behind it.
LEMMA AppendTyped ==
  ASSUME NEW S, NEW queue \in Seq(S), NEW event \in S
  PROVE  /\ Append(queue, event) \in Seq(S)
         /\ Len(Append(queue, event)) = Len(queue) + 1
         /\ \A i \in 1..Len(queue) : Append(queue, event)[i] = queue[i]
         /\ Append(queue, event)[Len(queue) + 1] = event
OBVIOUS

\* A queue without its first event.
LEMMA TailTyped ==
  ASSUME NEW S, NEW queue \in Seq(S), queue # << >>
  PROVE  /\ Tail(queue) \in Seq(S) /\ Head(queue) \in S
         /\ Len(queue) \in Nat \ {0} /\ Len(Tail(queue)) = Len(queue) - 1
         /\ Head(queue) = queue[1]
         /\ \A i \in 1..Len(Tail(queue)) : Tail(queue)[i] = queue[i + 1] /\ i + 1 \in 1..Len(queue)
OBVIOUS

\* Where the connection stays and its channel does not close, what was true of a
\* queue is true of the rest of it, and with a true event behind it.
LEMMA QueueStaysTrue ==
  ASSUME NEW queue \in Seq(Events), NEW connection, NEW opened, NEW still,
         QueueIsTrue(queue, connection, opened), opened => still
  PROVE  /\ QueueIsTrue(queue, connection, still)
         /\ queue # << >> => QueueIsTrue(Tail(queue), connection, still)
         /\ \A event \in Events :
               EventIsTrue(event, connection, still)
                   => QueueIsTrue(Append(queue, event), connection, still)
<1>1. \A i \in 1..Len(queue) : EventIsTrue(queue[i], connection, still)
  BY DEF QueueIsTrue, EventIsTrue
<1>2. ASSUME queue # << >> PROVE QueueIsTrue(Tail(queue), connection, still)
  <2> SUFFICES ASSUME NEW i \in 1..Len(Tail(queue))
               PROVE  EventIsTrue(Tail(queue)[i], connection, still)
    BY DEF QueueIsTrue
  <2>1. Tail(queue)[i] = queue[i + 1] /\ i + 1 \in 1..Len(queue)
    BY <1>2, TailTyped
  <2> QED BY <1>1, <2>1
<1>3. ASSUME NEW event \in Events, EventIsTrue(event, connection, still)
      PROVE  QueueIsTrue(Append(queue, event), connection, still)
  <2> SUFFICES ASSUME NEW i \in 1..Len(Append(queue, event))
               PROVE  EventIsTrue(Append(queue, event)[i], connection, still)
    BY DEF QueueIsTrue
  <2>1. \/ i \in 1..Len(queue) /\ Append(queue, event)[i] = queue[i]
        \/ Append(queue, event)[i] = event
    BY AppendTyped
  <2> QED BY <1>1, <1>3, <2>1
<1> QED BY <1>1, <1>2, <1>3 DEF QueueIsTrue

\* A true event may be put behind a true queue.
LEMMA AppendedIsTrue ==
  ASSUME NEW queue \in Seq(Events), NEW event \in Events, NEW connection, NEW opened,
         QueueIsTrue(queue, connection, opened), EventIsTrue(event, connection, opened)
  PROVE  QueueIsTrue(Append(queue, event), connection, opened)
BY QueueStaysTrue

\* What the constructors of messages and events make.
LEMMA MessagesTyped ==
  /\ \A type \in {"Offer", "Answer"}, connection \in Nat : Description(type, connection) \in Messages
  /\ \A connection \in Nat, empty \in BOOLEAN : Candidate(connection, empty) \in Messages
  /\ \A message \in Messages : Incoming(message) \in Events
  /\ \A connection \in Nat, message \in Messages : Outgoing(connection, message) \in Events
  /\ \A connection \in Nat : Opened(connection) \in Events
<1>1. \A type \in {"Offer", "Answer"}, connection \in Nat : Description(type, connection) \in Messages
  BY DEF Description, Messages, Ids
<1>2. \A connection \in Nat, empty \in BOOLEAN : Candidate(connection, empty) \in Messages
  BY DEF Candidate, Messages, Ids
<1>3. \A message \in Messages : Incoming(message) \in Events
  BY DEF Incoming, Events, Ids
<1>4. \A connection \in Nat, message \in Messages : Outgoing(connection, message) \in Events
  BY DEF Outgoing, Events, Ids
<1>5. \A connection \in Nat : Opened(connection) \in Events
  BY <1>1 DEF Opened, Events, Ids
<1> QED BY <1>1, <1>2, <1>3, <1>4, <1>5

\* Nothing is queued and nothing is open at first.
LEMMA InitInvariant == Init => IInv
<1> SUFFICES ASSUME Init PROVE IInv
  OBVIOUS
<1>1. /\ \A S, value : value \in S => Both(value) \in [Sides -> S]
      /\ << >> \in Seq(Events) /\ << >> \in Seq(Messages)
  BY DEF Both
<1>2. platform \in {"native", "web"} /\ called \in 0..MaxOffers
  BY PlatformsAreKnown, BoundsAreNatural DEF Init
<1>3. /\ id \in [Sides -> Ids] /\ local \in [Sides -> {"None", "Offer", "Answer"}]
      /\ remote \in [Sides -> Ids \cup {NoRemote}] /\ gathered \in [Sides -> 0..MaxCandidates]
  <2>1. id \in [Sides -> Ids] /\ gathered \in [Sides -> 0..MaxCandidates]
    BY BoundsAreNatural DEF Init, Both, Ids
  <2>2. local \in [Sides -> {"None", "Offer", "Answer"}]
    BY DEF Init, Both
  <2>3. remote \in [Sides -> Ids \cup {NoRemote}]
    BY DEF Init, Both
  <2> QED BY <2>1, <2>2, <2>3
<1>4. stable \in [Sides -> BOOLEAN] /\ open \in [Sides -> BOOLEAN]
      /\ heard \in [Sides -> BOOLEAN]
  BY <1>1 DEF Init
<1>5. /\ rx \in [Sides -> Seq(Events)] /\ line \in [Sides -> Seq(Messages)]
      /\ pending \in [Sides -> Seq(Messages)]
  BY <1>1, Zenon DEF Init
<1>6. stage \in [Sides -> Stages] /\ OffersAreLeft
  BY BoundsAreNatural DEF Init, Stages, OffersAreLeft
<1>7. TypeOK
  BY <1>2, <1>3, <1>4, <1>5, <1>6 DEF Init, TypeOK
<1>8. QueuesAreTrue /\ HeardIsOpen
  BY DEF Init, QueuesAreTrue, QueueIsTrue, HeardIsOpen, Both
<1> QED BY <1>6, <1>7, <1>8 DEF IInv

-----------------------------------------------------------------------------
(* The actions. *)

\* An event is put in the queue of a side, and no connection is replaced or closed.
LEMMA AppendedKeeps ==
  ASSUME NEW side \in Sides, NEW event \in Events, IInv,
         rx' = [rx EXCEPT ![side] = Append(rx[side], event)], id' = id,
         open' \in [Sides -> BOOLEAN], \A s \in Sides : open[s] => open'[s],
         EventIsTrue(event, id[side], open'[side])
  PROVE  rx' \in [Sides -> Seq(Events)] /\ QueuesAreTrue'
<1>1. rx \in [Sides -> Seq(Events)]
  BY DEF IInv, TypeOK
<1>2. rx' \in [Sides -> Seq(Events)]
  BY <1>1, AppendTyped
<1>3. ASSUME NEW s \in Sides PROVE QueueIsTrue(rx'[s], id'[s], open'[s])
  <2>1. rx[s] \in Seq(Events) /\ QueueIsTrue(rx[s], id[s], open[s]) /\ (open[s] => open'[s])
    BY <1>1 DEF IInv, QueuesAreTrue
  <2>2. /\ QueueIsTrue(rx[s], id[s], open'[s])
        /\ EventIsTrue(event, id[s], open'[s])
             => QueueIsTrue(Append(rx[s], event), id[s], open'[s])
    BY <2>1, QueueStaysTrue
  <2> QED BY <1>1, <2>2
<1> QED BY <1>2, <1>3 DEF QueuesAreTrue

\* An error ends a side, or leaves it an offer to make.
LEMMA AfterErrors ==
  ASSUME NEW side \in Sides, NEW next \in AfterError(side), IInv, called' = called,
         stage' = Set(stage, side, next)
  PROVE  stage' \in [Sides -> Stages] /\ OffersAreLeft'
<1>1. stage \in [Sides -> Stages] /\ next \in Stages
  BY DEF AfterError, Stages, IInv, TypeOK
<1>2. stage' \in [Sides -> Stages]
  BY <1>1 DEF Set
<1>3. stage'["Downloader"] = IF side = "Downloader" THEN next ELSE stage["Downloader"]
  BY <1>1 DEF Set, Sides
<1>4. next = "Offering" => called < MaxOffers
  BY DEF AfterError
<1> QED BY <1>2, <1>3, <1>4 DEF OffersAreLeft, IInv

\* The same of an error that is counted.
LEMMA ErrsKeeps ==
  ASSUME NEW side \in Sides, IInv, called' = called, Errs(side)
  PROVE  stage' \in [Sides -> Stages] /\ faults' \in BOOLEAN /\ OffersAreLeft'
<1>1. PICK next \in AfterError(side) :
        stage' = Set(stage, side, next) /\ faults' = (faults \/ next = "Over")
  BY DEF Errs
<1> QED BY <1>1, AfterErrors

\* A step that leaves the progress of the client alone leaves it its offers.
LEMMA ProgressKeeps == ASSUME IInv, UNCHANGED progress PROVE OffersAreLeft'
BY DEF IInv, progress, OffersAreLeft

\* create_offer puts an offer of the one connection in the queue.
LEMMA CreateOfferKeeps == IInv /\ CreateOffer => IInv'
<1> SUFFICES ASSUME IInv, CreateOffer PROVE IInv'
  OBVIOUS
<1> DEFINE event == Outgoing(0, Description("Offer", 0))
<1>1. event \in Events
  BY MessagesTyped
<1>2. called' \in 0..MaxOffers /\ stage' \in [Sides -> Stages] /\ OffersAreLeft'
  <2>1. called < MaxOffers /\ called' = called + 1 /\ called \in 0..MaxOffers
    BY DEF CreateOffer, IInv, OffersAreLeft, TypeOK
  <2>2. called' \in 0..MaxOffers
    BY <2>1, BoundsAreNatural, SMT
  <2>3. stage' \in [Sides -> Stages] /\ stage'["Downloader"] = "Connecting"
    BY DEF CreateOffer, Set, IInv, TypeOK, Stages, Sides
  <2> QED BY <2>2, <2>3 DEF OffersAreLeft
<1>3. doubled' \in BOOLEAN /\ local' \in [Sides -> {"None", "Offer", "Answer"}] /\ stable' \in [Sides -> BOOLEAN]
  <2>1. doubled' \in BOOLEAN
    BY Zenon DEF CreateOffer
  <2> QED BY <2>1 DEF CreateOffer, IInv, TypeOK, Set
<1>4. "Downloader" \in Sides /\ open' = open /\ id' = id /\ open \in [Sides -> BOOLEAN]
  BY DEF CreateOffer, IInv, TypeOK, Sides
<1>5. EventIsTrue(event, id["Downloader"], open'["Downloader"])
  BY <1>4 DEF IInv, TypeOK, EventIsTrue, Outgoing, Ids
<1>6. ASSUME rx' = rx PROVE rx' \in [Sides -> Seq(Events)] /\ QueuesAreTrue'
  BY <1>4, <1>6 DEF IInv, TypeOK, QueuesAreTrue
<1>7. ASSUME rx' = [rx EXCEPT !["Downloader"] = Append(rx["Downloader"], event)]
      PROVE  rx' \in [Sides -> Seq(Events)] /\ QueuesAreTrue'
  BY <1>1, <1>4, <1>5, <1>7, AppendedKeeps
<1>8. rx' \in [Sides -> Seq(Events)] /\ QueuesAreTrue'
  BY <1>4, <1>6, <1>7 DEF CreateOffer, Set, IInv, TypeOK
<1>9. TypeOK' /\ HeardIsOpen'
  BY ZenonT(60), <1>2, <1>3, <1>8 DEF CreateOffer, signaling, IInv, TypeOK, HeardIsOpen
<1> QED BY <1>2, <1>8, <1>9 DEF IInv

\* An offer that cannot be made counts as one of those that may be.
LEMMA CreateOfferFailsKeeps == IInv /\ CreateOfferFails => IInv'
<1> SUFFICES ASSUME IInv, CreateOfferFails PROVE IInv'
  OBVIOUS
<1>1. called < MaxOffers /\ called' = called + 1 /\ called \in 0..MaxOffers
  BY DEF CreateOfferFails, IInv, OffersAreLeft, TypeOK
<1>2. called' \in 0..MaxOffers
  BY <1>1, BoundsAreNatural, SMT
<1>3. stage' \in [Sides -> Stages] /\ faults' \in BOOLEAN /\ OffersAreLeft'
  <2>1. CASE called' < MaxOffers /\ UNCHANGED <<stage, faults>>
    BY <2>1 DEF IInv, TypeOK, OffersAreLeft
  <2>2. CASE stage' = Set(stage, "Downloader", "Over") /\ faults' = TRUE
    <3>1. stage' \in [Sides -> Stages] /\ stage'["Downloader"] = "Over"
      BY <2>2 DEF Set, IInv, TypeOK, Stages, Sides
    <3> QED BY <2>2, <3>1 DEF OffersAreLeft
  <2> QED BY <2>1, <2>2 DEF CreateOfferFails
<1>4. TypeOK' /\ HeardIsOpen' /\ QueuesAreTrue'
  BY <1>2, <1>3 DEF CreateOfferFails, connections, signaling, IInv, TypeOK, HeardIsOpen, QueuesAreTrue
<1> QED BY <1>3, <1>4 DEF IInv

\* connect_p2p returns.
LEMMA ConnectReturnsKeeps == IInv /\ ConnectReturns => IInv'
<1> SUFFICES ASSUME IInv, ConnectReturns PROVE IInv'
  OBVIOUS
<1>1. stage' \in [Sides -> Stages] /\ stage'["Downloader"] = "Transferring"
  BY DEF ConnectReturns, Set, IInv, TypeOK, Stages, Sides
<1>2. TypeOK' /\ HeardIsOpen' /\ QueuesAreTrue' /\ OffersAreLeft'
  BY <1>1 DEF ConnectReturns, connections, signaling, IInv, TypeOK, HeardIsOpen, QueuesAreTrue,
     OffersAreLeft
<1> QED BY <1>2 DEF IInv

\* An attempt ends without an event.
LEMMA InterruptedKeeps == ASSUME NEW side \in Sides PROVE IInv /\ Interrupted(side) => IInv'
<1> SUFFICES ASSUME IInv, Interrupted(side) PROVE IInv'
  OBVIOUS
<1>1. stage' \in [Sides -> Stages] /\ faults' \in BOOLEAN /\ OffersAreLeft'
  BY ErrsKeeps DEF Interrupted
<1>2. TypeOK' /\ HeardIsOpen' /\ QueuesAreTrue'
  BY <1>1 DEF Interrupted, connections, signaling, IInv, TypeOK, HeardIsOpen, QueuesAreTrue
<1> QED BY <1>1, <1>2 DEF IInv

\* A candidate is an event of the connection that there is.
LEMMA GathersKeeps == ASSUME NEW side \in Sides PROVE IInv /\ Gathers(side) => IInv'
<1> SUFFICES ASSUME IInv, Gathers(side) PROVE IInv'
  OBVIOUS
<1> DEFINE event == Outgoing(id[side], Candidate(id[side], gathered[side] + 1 = MaxCandidates))
<1>1. event \in Events
  BY MessagesTyped DEF IInv, TypeOK, Ids
<1>2. gathered' \in [Sides -> 0..MaxCandidates]
  BY BoundsAreNatural DEF Gathers, IInv, TypeOK
<1>3. rx' = [rx EXCEPT ![side] = Append(rx[side], event)]
  BY DEF Gathers, Set
<1>4. EventIsTrue(event, id[side], open[side])
  BY DEF IInv, TypeOK, EventIsTrue, Outgoing, Ids
<1>5. id' = id /\ open' = open /\ open \in [Sides -> BOOLEAN]
  BY DEF Gathers, IInv, TypeOK
<1>6. rx' \in [Sides -> Seq(Events)] /\ QueuesAreTrue'
  BY <1>1, <1>3, <1>4, <1>5, AppendedKeeps
<1>7. TypeOK' /\ HeardIsOpen'
  BY <1>2, <1>6 DEF Gathers, progress, signaling, IInv, TypeOK, HeardIsOpen
<1> QED BY <1>6, <1>7, ProgressKeeps DEF IInv, Gathers

\* A channel that opens is open when its event is queued.
LEMMA OpensKeeps == ASSUME NEW side \in Sides PROVE IInv /\ Opens(side) => IInv'
<1> SUFFICES ASSUME IInv, Opens(side) PROVE IInv'
  OBVIOUS
<1> DEFINE event == Opened(id[side])
<1>1. event \in Events
  BY MessagesTyped DEF IInv, TypeOK, Ids
<1>2. open' = [open EXCEPT ![side] = TRUE] /\ open' \in [Sides -> BOOLEAN]
  BY DEF Opens, IInv, TypeOK, Set
<1>3. rx' = [rx EXCEPT ![side] = Append(rx[side], event)]
  BY DEF Opens, Set
<1>4. \A s \in Sides : open[s] => open'[s]
  BY <1>2 DEF IInv, TypeOK
<1>5. EventIsTrue(event, id[side], open'[side])
  <2>1. open'[side]
    BY <1>2 DEF IInv, TypeOK
  <2>2. event.id = id[side] /\ id[side] \in Nat
    BY DEF Opened, IInv, TypeOK, Ids
  <2> QED BY <2>1, <2>2 DEF EventIsTrue
<1>6. rx' \in [Sides -> Seq(Events)] /\ QueuesAreTrue'
  BY <1>1, <1>2, <1>3, <1>4, <1>5, AppendedKeeps DEF Opens
<1>7. TypeOK'
  BY ZenonT(60), <1>2, <1>6 DEF Opens, progress, signaling, IInv, TypeOK
<1>8. HeardIsOpen'
  BY <1>4 DEF Opens, IInv, HeardIsOpen
<1> QED BY <1>6, <1>7, <1>8, ProgressKeeps DEF IInv, Opens

\* An event is taken from the queue of a side that keeps its connection.
LEMMA DequeuedKeeps ==
  ASSUME NEW side \in Sides, IInv, rx[side] # << >>, rx' = Dequeued(side),
         UNCHANGED <<id, open>>
  PROVE  rx' \in [Sides -> Seq(Events)] /\ QueuesAreTrue'
<1>1. rx' = [rx EXCEPT ![side] = Tail(rx[side])]
  BY DEF Dequeued, Set
<1>2. rx' \in [Sides -> Seq(Events)]
  BY <1>1, TailTyped DEF IInv, TypeOK
<1>3. QueuesAreTrue'
  BY <1>1, QueueStaysTrue DEF IInv, TypeOK, QueuesAreTrue
<1> QED BY <1>2, <1>3

\* The event that a side handles is an event, and what it carries a message.
LEMMA HeardTyped ==
  ASSUME NEW side \in Sides, IInv, rx[side] # << >>
  PROVE  /\ Head(rx[side]) \in Events /\ Head(rx[side]).message \in Messages
         /\ Sender(side) \in Nat
         /\ EventIsTrue(Head(rx[side]), id[side], open[side])
<1>1. rx[side] \in Seq(Events)
  BY DEF IInv, TypeOK
<1>2. Head(rx[side]) \in Events /\ Head(rx[side]) = rx[side][1] /\ 1 \in 1..Len(rx[side])
  BY <1>1, TailTyped
<1>3. EventIsTrue(Head(rx[side]), id[side], open[side])
  BY <1>2 DEF IInv, QueuesAreTrue, QueueIsTrue
<1>4. Head(rx[side]).message \in Messages /\ Sender(side) \in Nat
  BY <1>2 DEF Events, Messages, Sender, Ids
<1> QED BY <1>2, <1>3, <1>4

\* An event of a connection that was given up is dropped, and so is an empty candidate.
LEMMA DropsKeeps ==
  ASSUME NEW side \in Sides PROVE IInv /\ (DropsOldEvent(side) \/ DropsEmpty(side)) => IInv'
<1> SUFFICES ASSUME IInv, DropsOldEvent(side) \/ DropsEmpty(side) PROVE IInv'
  OBVIOUS
<1>1. /\ rx[side] # << >> /\ rx' = Dequeued(side)
      /\ UNCHANGED <<platform, doubled, progress, connections, signaling>>
  BY DEF DropsOldEvent, DropsEmpty, Hears
<1>2. rx' \in [Sides -> Seq(Events)] /\ QueuesAreTrue'
  BY <1>1, DequeuedKeeps DEF connections
<1>3. TypeOK' /\ HeardIsOpen'
  BY <1>1, <1>2 DEF connections, progress, signaling, IInv, TypeOK, HeardIsOpen
<1> QED BY <1>1, <1>2, <1>3, ProgressKeeps DEF IInv

\* A message that is sent leaves the queue for the line, or waits with others before it.
LEMMA SignalsKeeps == ASSUME NEW side \in Sides PROVE IInv /\ Signals(side) => IInv'
<1> SUFFICES ASSUME IInv, Signals(side) PROVE IInv'
  OBVIOUS
<1> DEFINE queue == Append(pending[side], Head(rx[side]).message)
<1>1. /\ rx[side] # << >> /\ rx' = Dequeued(side)
      /\ UNCHANGED <<platform, doubled, called, connections, lost>>
  BY DEF Signals, Hears
<1>2. rx' \in [Sides -> Seq(Events)] /\ QueuesAreTrue'
  BY <1>1, DequeuedKeeps DEF connections
<1>3. PICK sent \in 0..Len(queue) :
        /\ line' = Set(line, Other(side), line[Other(side)] \o SubSeq(queue, 1, sent))
        /\ pending' = Set(pending, side, SubSeq(queue, sent + 1, Len(queue)))
        /\ IF sent = Len(queue) THEN UNCHANGED <<stage, faults>>
           ELSE /\ stage' \in {Set(stage, side, next) : next \in AfterError(side)}
                /\ faults' = TRUE
  BY DEF Signals, Pushed
<1>4. line' \in [Sides -> Seq(Messages)] /\ pending' \in [Sides -> Seq(Messages)]
  <2>1. Head(rx[side]).message \in Messages /\ Other(side) \in Sides
    BY <1>1, HeardTyped DEF Other, Sides
  <2>2. line \in [Sides -> Seq(Messages)] /\ pending \in [Sides -> Seq(Messages)]
    BY DEF IInv, TypeOK
  <2>3. queue \in Seq(Messages)
    BY <2>1, <2>2, AppendTyped
  <2> HIDE DEF queue
  <2>4. SubSeq(queue, 1, sent) \in Seq(Messages) /\ SubSeq(queue, sent + 1, Len(queue)) \in Seq(Messages)
    <3>1. Len(queue) \in Nat /\ \A i \in 1..Len(queue) : queue[i] \in Messages
      BY <2>3, LenProperties
    <3>2. /\ \A i \in 1..sent : i \in 1..Len(queue)
          /\ \A i \in (sent + 1)..Len(queue) : i \in 1..Len(queue)
      BY <3>1, SMT
    <3> QED BY <2>3, <3>1, <3>2, SubSeqProperties
  <2>5. line[Other(side)] \o SubSeq(queue, 1, sent) \in Seq(Messages)
    BY <2>1, <2>2, <2>4, ConcatProperties
  <2> QED BY <1>3, <2>2, <2>4, <2>5 DEF Set
<1>5. stage' \in [Sides -> Stages] /\ faults' \in BOOLEAN /\ OffersAreLeft'
  <2>1. CASE UNCHANGED <<stage, faults>>
    BY <1>1, <2>1 DEF IInv, TypeOK, OffersAreLeft
  <2>2. CASE stage' \in {Set(stage, side, next) : next \in AfterError(side)} /\ faults' = TRUE
    <3>1. PICK next \in AfterError(side) : stage' = Set(stage, side, next)
      BY <2>2
    <3> QED BY <1>1, <2>2, <3>1, AfterErrors
  <2> HIDE DEF queue
  <2> QED BY <1>3, <2>1, <2>2
<1>6. TypeOK' /\ HeardIsOpen'
  BY <1>1, <1>2, <1>4, <1>5 DEF connections, IInv, TypeOK, HeardIsOpen
<1> QED BY <1>2, <1>5, <1>6 DEF IInv

\* The event that is heard is of the connection that there is, so its channel is open.
LEMMA HearsOpenedKeeps == ASSUME NEW side \in Sides PROVE IInv /\ HearsOpened(side) => IInv'
<1> SUFFICES ASSUME IInv, HearsOpened(side) PROVE IInv'
  OBVIOUS
<1>1. rx[side] # << >> /\ rx' = Dequeued(side) /\ heard' = [heard EXCEPT ![side] = TRUE]
  BY DEF HearsOpened, Hears, Set
<1>2. rx' \in [Sides -> Seq(Events)] /\ QueuesAreTrue'
  BY <1>1, DequeuedKeeps DEF HearsOpened
<1>3. open[side]
  BY <1>1, HeardTyped DEF HearsOpened, Hears, IsOld, EventIsTrue
<1>4. TypeOK'
  BY ZenonT(60), <1>1, <1>2 DEF HearsOpened, progress, signaling, IInv, TypeOK
<1>5. HeardIsOpen'
  BY <1>1, <1>3 DEF HearsOpened, IInv, TypeOK, HeardIsOpen
<1> QED BY <1>2, <1>4, <1>5, ProgressKeeps DEF IInv, HearsOpened

\* What is left of the queue is true of the connection that answers: a new one has no
\* event there yet.
LEMMA HearsOfferKeeps == ASSUME NEW side \in Sides PROVE IInv /\ HearsOffer(side) => IInv'
<1> SUFFICES ASSUME IInv, HearsOffer(side) PROVE IInv'
  OBVIOUS
<1> DEFINE connection == IdAfterOffer(side)
           fresh == connection # id[side]
           answer == Outgoing(HandlerId(side), Description("Answer", connection))
<1>1. rx[side] # << >>
  BY DEF HearsOffer, HearsMessage, Hears
<1>2. CASE local[side] = "Offer"
  <2>1. rx' = Dequeued(side) /\ UNCHANGED <<platform, doubled, progress, connections, signaling>>
    BY <1>2 DEF HearsOffer
  <2>2. rx' \in [Sides -> Seq(Events)] /\ QueuesAreTrue'
    BY <1>1, <2>1, DequeuedKeeps DEF connections
  <2> QED BY <2>1, <2>2, ProgressKeeps
          DEF connections, progress, signaling, IInv, TypeOK, HeardIsOpen
<1>3. CASE local[side] # "Offer"
  <2>1. connection \in Nat /\ connection >= id[side]
    BY DEF IdAfterOffer, IInv, TypeOK, Ids
  <2>2. answer \in Events /\ answer.tag = "Outgoing" /\ answer.id = connection
    BY <2>1, MessagesTyped DEF HandlerId, Outgoing
  <2>3. Sender(side) \in Nat
    BY <1>1, HeardTyped
  <2>4. /\ id' = [id EXCEPT ![side] = connection]
        /\ local' = [local EXCEPT ![side] = "Answer"]
        /\ stable' = [stable EXCEPT ![side] = TRUE]
        /\ remote' = [remote EXCEPT ![side] = Sender(side)]
        /\ gathered' = IF fresh THEN [gathered EXCEPT ![side] = 0] ELSE gathered
        /\ open' = IF fresh THEN [open EXCEPT ![side] = FALSE] ELSE open
        /\ heard' = IF fresh THEN [heard EXCEPT ![side] = FALSE] ELSE heard
        /\ rx' = [rx EXCEPT ![side] = Append(Tail(rx[side]), answer)]
        /\ UNCHANGED <<platform, doubled, progress, signaling>>
    BY <1>3, Zenon DEF HearsOffer, Set
  <2>5. Tail(rx[side]) \in Seq(Events)
    BY <1>1, TailTyped DEF IInv, TypeOK
  <2>6. rx' \in [Sides -> Seq(Events)]
    BY <2>2, <2>4, <2>5, AppendTyped DEF IInv, TypeOK
  <2>7. /\ id' \in [Sides -> Ids] /\ local' \in [Sides -> {"None", "Offer", "Answer"}]
        /\ remote' \in [Sides -> Ids \cup {NoRemote}]
        /\ gathered' \in [Sides -> 0..MaxCandidates]
    BY <2>1, <2>3, <2>4, BoundsAreNatural DEF IInv, TypeOK, Ids
  <2>8. {stable', open', heard'} \subseteq [Sides -> BOOLEAN]
    BY <2>4 DEF IInv, TypeOK
  <2>9. TypeOK'
    BY <2>4, <2>6, <2>7, <2>8 DEF progress, signaling, IInv, TypeOK
  <2>10. HeardIsOpen'
    BY <2>4 DEF IInv, TypeOK, HeardIsOpen
  <2>11. QueueIsTrue(rx[side], id'[side], open'[side])
    <3>1. /\ id \in [Sides -> Nat] /\ id'[side] = connection
          /\ ~fresh => open' = open
          /\ QueueIsTrue(rx[side], id[side], open[side]) /\ rx[side] \in Seq(Events)
      BY <2>4 DEF IInv, TypeOK, QueuesAreTrue, Ids
    <3>2. CASE ~fresh
      BY <3>1, <3>2
    <3>3. CASE fresh
      <4>1. connection > id[side]
        BY <2>1, <3>1, <3>3
      <4>2. \A i \in 1..Len(rx[side]) : rx[side][i].id \in Nat
        <5>1. \A event \in Events : event.id \in Nat
          BY DEF Events, Ids
        <5>2. \A i \in 1..Len(rx[side]) : rx[side][i] \in Events
          BY <3>1
        <5> QED BY <5>1, <5>2
      <4>3. \A i \in 1..Len(rx[side]) : EventIsTrue(rx[side][i], connection, open'[side])
        BY <2>1, <3>1, <4>1, <4>2 DEF QueueIsTrue, EventIsTrue
      <4> QED BY <3>1, <4>3 DEF QueueIsTrue
    <3> QED BY <3>2, <3>3
  <2>12. EventIsTrue(answer, id'[side], open'[side])
    BY <2>1, <2>2, <2>4 DEF EventIsTrue, IInv, TypeOK
  <2>13. QueueIsTrue(rx'[side], id'[side], open'[side])
    <3>1. rx[side] \in Seq(Events) /\ rx'[side] = Append(Tail(rx[side]), answer)
      BY <2>4 DEF IInv, TypeOK
    <3>2. QueueIsTrue(Tail(rx[side]), id'[side], open'[side])
      BY <1>1, <2>11, <3>1, QueueStaysTrue
    <3>3. answer \in Events
      BY <2>2
    <3> HIDE DEF answer
    <3>4. QueueIsTrue(Append(Tail(rx[side]), answer), id'[side], open'[side])
      BY <2>5, <2>12, <3>2, <3>3, AppendedIsTrue
    <3> QED BY <3>1, <3>4
  <2>14. ASSUME NEW s \in Sides \ {side} PROVE QueueIsTrue(rx'[s], id'[s], open'[s])
    <3>1. rx'[s] = rx[s] /\ id'[s] = id[s] /\ open'[s] = open[s]
      BY <2>4 DEF IInv, TypeOK
    <3> QED BY <3>1 DEF IInv, QueuesAreTrue
  <2> QED BY <2>4, <2>9, <2>10, <2>13, <2>14, ProgressKeeps DEF IInv, QueuesAreTrue
<1> QED BY <1>2, <1>3

\* An answer leaves ids and channels alone.
LEMMA HearsAnswerKeeps == ASSUME NEW side \in Sides PROVE IInv /\ HearsAnswer(side) => IInv'
<1> SUFFICES ASSUME IInv, HearsAnswer(side) PROVE IInv'
  OBVIOUS
<1>1. /\ rx[side] # << >> /\ rx' = Dequeued(side)
      /\ UNCHANGED <<platform, doubled, called, id, local, gathered, open, heard, signaling>>
  BY DEF HearsAnswer, HearsMessage, Hears
<1>2. rx' \in [Sides -> Seq(Events)] /\ QueuesAreTrue'
  BY <1>1, DequeuedKeeps
<1>3. stable' \in [Sides -> BOOLEAN] /\ remote' \in [Sides -> Ids \cup {NoRemote}]
  <2>1. Sender(side) \in Ids
    BY <1>1, HeardTyped DEF Ids
  <2>2. /\ stable' = stable \/ stable' = [stable EXCEPT ![side] = TRUE]
        /\ remote' = remote \/ remote' = [remote EXCEPT ![side] = Sender(side)]
    BY DEF HearsAnswer, Set
  <2>3. stable' \in [Sides -> BOOLEAN]
    BY <2>2 DEF IInv, TypeOK
  <2>4. remote' \in [Sides -> Ids \cup {NoRemote}]
    BY ZenonT(60), <2>1, <2>2 DEF IInv, TypeOK
  <2> QED BY <2>3, <2>4
<1>4. stage' \in [Sides -> Stages] /\ faults' \in BOOLEAN /\ OffersAreLeft'
  <2>1. Errs(side) \/ UNCHANGED <<stage, faults>>
    BY Zenon DEF HearsAnswer
  <2>2. CASE UNCHANGED <<stage, faults>>
    BY <1>1, <2>2 DEF IInv, TypeOK, OffersAreLeft
  <2> QED BY <1>1, <2>1, <2>2, ErrsKeeps
<1>5. TypeOK' /\ HeardIsOpen'
  BY <1>1, <1>2, <1>3, <1>4 DEF signaling, IInv, TypeOK, HeardIsOpen
<1> QED BY <1>2, <1>4, <1>5 DEF IInv

\* A candidate leaves ids and channels alone, and so does a message that is refused.
LEMMA HearsCandidateKeeps ==
  ASSUME NEW side \in Sides PROVE IInv /\ (HearsCandidate(side) \/ Refuses(side)) => IInv'
<1> SUFFICES ASSUME IInv, HearsCandidate(side) \/ Refuses(side) PROVE IInv'
  OBVIOUS
<1>1. /\ rx[side] # << >> /\ rx' = Dequeued(side) /\ lost' \in {lost, TRUE}
      /\ UNCHANGED <<platform, doubled, called, connections, pending, line>>
  BY DEF HearsCandidate, Refuses, HearsMessage, Hears, signaling
<1>2. rx' \in [Sides -> Seq(Events)] /\ QueuesAreTrue'
  BY <1>1, DequeuedKeeps DEF connections
<1>3. stage' \in [Sides -> Stages] /\ faults' \in BOOLEAN /\ OffersAreLeft'
  <2>1. Errs(side) \/ UNCHANGED <<stage, faults>>
    BY Zenon DEF HearsCandidate, Refuses
  <2>2. CASE UNCHANGED <<stage, faults>>
    BY <1>1, <2>2 DEF IInv, TypeOK, OffersAreLeft
  <2> QED BY <1>1, <2>1, <2>2, ErrsKeeps
<1>4. TypeOK' /\ HeardIsOpen'
  BY <1>1, <1>2, <1>3 DEF connections, IInv, TypeOK, HeardIsOpen
<1> QED BY <1>2, <1>3, <1>4 DEF IInv

\* A message that is delivered is of no connection of the side that gets it.
LEMMA DeliversKeeps == ASSUME NEW side \in Sides PROVE IInv /\ Delivers(side) => IInv'
<1> SUFFICES ASSUME IInv, Delivers(side) PROVE IInv'
  OBVIOUS
<1> DEFINE event == Incoming(Head(line[side]))
<1>1. line[side] \in Seq(Messages) /\ line[side] # << >>
  BY DEF Delivers, IInv, TypeOK
<1>2. event \in Events /\ Tail(line[side]) \in Seq(Messages)
  BY <1>1, TailTyped, MessagesTyped
<1>3. rx' = [rx EXCEPT ![side] = Append(rx[side], event)]
  BY DEF Delivers, Set
<1>4. EventIsTrue(event, id[side], open[side])
  BY DEF EventIsTrue, Incoming
<1>5. id' = id /\ open' = open /\ open \in [Sides -> BOOLEAN]
  BY DEF Delivers, connections, IInv, TypeOK
<1>6. rx' \in [Sides -> Seq(Events)] /\ QueuesAreTrue'
  BY <1>2, <1>3, <1>4, <1>5, AppendedKeeps
<1>7. line' \in [Sides -> Seq(Messages)]
  BY <1>2 DEF Delivers, Set, IInv, TypeOK
<1>8. TypeOK' /\ HeardIsOpen'
  BY <1>6, <1>7 DEF Delivers, connections, progress, IInv, TypeOK, HeardIsOpen
<1> QED BY <1>6, <1>8, ProgressKeeps DEF IInv, Delivers

\* A message that is lost is in no queue.
LEMMA LosesKeeps == ASSUME NEW side \in Sides PROVE IInv /\ Loses(side) => IInv'
<1> SUFFICES ASSUME IInv, Loses(side) PROVE IInv'
  OBVIOUS
<1>1. line[side] \in Seq(Messages) /\ line[side] # << >>
  BY DEF Loses, IInv, TypeOK
<1>2. line' \in [Sides -> Seq(Messages)]
  BY <1>1, TailTyped DEF Loses, Set, IInv, TypeOK
<1>3. TypeOK' /\ HeardIsOpen'
  BY <1>2 DEF Loses, connections, progress, IInv, TypeOK, HeardIsOpen
<1>4. QueuesAreTrue'
  BY DEF Loses, connections, IInv, QueuesAreTrue
<1> QED BY <1>3, <1>4, ProgressKeeps DEF IInv, Loses

\* Nothing changes when nothing happens.
LEMMA StutterKeeps == IInv /\ UNCHANGED vars => IInv'
<1> SUFFICES ASSUME IInv, UNCHANGED vars PROVE IInv'
  OBVIOUS
<1>1. QueuesAreTrue'
  BY DEF vars, connections, IInv, QueuesAreTrue
<1> QED BY <1>1, ProgressKeeps
        DEF vars, connections, progress, signaling, IInv, TypeOK, HeardIsOpen

\* Every step keeps the invariant.
LEMMA NextInvariant == IInv /\ [Next]_vars => IInv'
BY CreateOfferKeeps, CreateOfferFailsKeeps, ConnectReturnsKeeps, GathersKeeps, OpensKeeps,
   DropsKeeps, SignalsKeeps, HearsOpenedKeeps, HearsOfferKeeps, HearsAnswerKeeps,
   HearsCandidateKeeps, InterruptedKeeps, DeliversKeeps, LosesKeeps, StutterKeeps DEF Next, Handles

\* The invariant of channels that were heard to open.
LEMMA Invariance == Spec => []IInv
BY InitInvariant, NextInvariant, PTL DEF Spec

\* The clients and everything on its way between them are typed: a candidate and an
\* event name a connection that was made.
THEOREM TypeCorrect == Spec => []TypeOK
<1>1. IInv => TypeOK
  BY DEF IInv
<1> QED BY <1>1, Invariance, PTL

\* The handler is never told of the opening of a channel that was given up, however
\* many offers come and however late the events of their connections are
\* (p2p.rs:232, which compares the ids).
THEOREM HeardChannelsAreOpen == Spec => []HeardIsOpen
<1>1. IInv => HeardIsOpen
  BY DEF IInv
<1> QED BY <1>1, Invariance, PTL

-----------------------------------------------------------------------------
(* Candidates and descriptions on their way. *)

\* The messages that have reached a side, and those that leave connection n.
In == {event \in Events : event.tag = "Incoming"}
Out(n) == {event \in Events : event.tag = "Outgoing" /\ event.id = n}
Wrapped(queue) == [i \in 1..Len(queue) |-> Incoming(queue[i])]

Describes(event) == event.message.tag # "Candidate"
Of(event) == event.message.connection

\* Of the events of a set S in a queue: the connections that they are of, and those
\* that the first n of them describe.
Connections(queue, S) == {Of(queue[i]) : i \in {j \in 1..Len(queue) : queue[j] \in S}}
Described(queue, S, n) ==
    {Of(queue[i]) : i \in {j \in 1..n : queue[j] \in S /\ Describes(queue[j])}}
AllDescribed(queue, S) == Described(queue, S, Len(queue))

\* Each candidate comes after the description of its connection, if that is not known already.
ComesAfter(queue, S, known) ==
    \A i \in 1..Len(queue) :
        queue[i] \in S /\ ~Describes(queue[i]) => Of(queue[i]) \in known \cup Described(queue, S, i)

InTurn(queue, S) ==
    \A i, j \in 1..Len(queue) :
        i <= j /\ queue[i] \in S /\ queue[j] \in S => Of(queue[i]) <= Of(queue[j])

\* What is on its way to a side that has the remote description of r: the messages in
\* its queue, those on the line, and those in the queue of its peer, whose connection
\* is n and which is silent until it has a description of its own.
OnTheWay(r, arrived, online, leaving, n, silent) ==
    LET known == {r} \cup AllDescribed(arrived, In)
        knownBehind == known \cup AllDescribed(online, In)
    IN  /\ ComesAfter(arrived, In, {r})
        /\ ComesAfter(online, In, known)
        /\ ComesAfter(leaving, Out(n), knownBehind)
        /\ silent \/ n \in knownBehind \cup AllDescribed(leaving, Out(n))
        /\ InTurn(arrived, In) /\ InTurn(online, In)
        /\ r <= n
        /\ \A x \in Connections(arrived, In) \cup Connections(online, In) : r <= x /\ x <= n
        /\ \A x \in Connections(arrived, In), y \in Connections(online, In) : x <= y
        /\ \A x \in Connections(leaving, Out(n)) : x = n

\* What is sent to a side, and what the other side has not sent yet.
OnLine(side) == line[side] \o pending[Other(side)]

Fits(side) ==
    OnTheWay(remote[side], rx[side], Wrapped(OnLine(side)), rx[Other(side)],
             id[Other(side)], local[Other(side)] = "None")
Exempt(side) == lost \/ (side = "Downloader" /\ doubled)
Fitting == \A side \in Sides : ~Exempt(side) => Fits(side)

\* What a side says: the one that downloads offers, the other one answers.
IsFrom(side, event) ==
    /\ event.message.tag \in {"Candidate", IF side = "Downloader" THEN "Offer" ELSE "Answer"}
    /\ event.message.empty => ~Describes(event)

\* A message in the queue of a side is its own or the other side's, and whoever has sent
\* one has a description.
Belongs(event, side, locals) ==
    /\ event.tag = "Incoming" => IsFrom(Other(side), event) /\ locals[Other(side)] # "None"
    /\ event.tag = "Outgoing" => IsFrom(side, event) /\ locals[side] # "None"
AllBelong(queue, side, locals) == \A i \in 1..Len(queue) : Belongs(queue[i], side, locals)

\* The side that downloads has one connection, and offers first.
Roles ==
    /\ id["Downloader"] = 0
    /\ local["Downloader"] \in {"None", "Offer"} /\ local["Uploader"] \in {"None", "Answer"}
    /\ local["Uploader"] # "None" => local["Downloader"] # "None"
    /\ \A side \in Sides :
        AllBelong(rx[side], side, local) /\ AllBelong(Wrapped(OnLine(side)), side, local)

\* The queues that a description passes on its way: there and back.
Places == {"rx", "line"} \X Sides
Way == [p \in Places |-> IF p[1] = "rx" THEN rx[p[2]] ELSE Wrapped(OnLine(p[2]))]

Asks(event) == event.tag # "Opened" /\ Describes(event)
Quiet(queue) == \A i \in 1..Len(queue) : ~Asks(queue[i])
Once(queue) == \A i, j \in 1..Len(queue) : Asks(queue[i]) /\ Asks(queue[j]) => i = j

\* While an offer waits, it or its answer is on its way, once; and neither at other times.
AllQuiet(way) == \A p \in Places : Quiet(way[p])
OneAtMost(way, waits) ==
    \/ AllQuiet(way)
    \/ waits /\ \E p \in Places : Once(way[p]) /\ \A q \in Places \ {p} : Quiet(way[q])
Single == ~doubled => OneAtMost(Way, Waits)

FitInv == IInv /\ Roles /\ Single /\ Fitting

\* What the set S of events says at an event of its connection.
News(event, S) == IF event \in S /\ Describes(event) THEN {Of(event)} ELSE {}
Names(event, S) == IF event \in S THEN {Of(event)} ELSE {}

\* An event is put behind a queue.
LEMMA PutBehind ==
  ASSUME NEW q \in Seq(Events), NEW e \in Events, NEW S, NEW known
  PROVE  /\ AllDescribed(Append(q, e), S) = AllDescribed(q, S) \cup News(e, S)
         /\ Connections(Append(q, e), S) = Connections(q, S) \cup Names(e, S)
         /\ /\ ComesAfter(q, S, known)
            /\ e \in S /\ ~Describes(e) => Of(e) \in known \cup AllDescribed(q, S)
            => ComesAfter(Append(q, e), S, known)
         /\ /\ InTurn(q, S)
            /\ e \in S => \A x \in Connections(q, S) : x <= Of(e)
            => InTurn(Append(q, e), S)
<1> DEFINE r == Append(q, e)
           n == Len(q)
<1>1. /\ n \in Nat /\ Len(r) = n + 1
      /\ \A i \in 1..n : r[i] = q[i]
      /\ r[n + 1] = e
  BY AppendTyped
<1>2. 1..(n + 1) = (1..n) \cup {n + 1} /\ n + 1 \notin 1..n
  BY <1>1, SMT
<1>3. \A i \in 1..n : 1..i \subseteq 1..n
  BY <1>1, SMT
<1> HIDE DEF r, n
<1>4. \A i \in 1..n : Described(r, S, i) = Described(q, S, i)
  <2> SUFFICES ASSUME NEW i \in 1..n PROVE Described(r, S, i) = Described(q, S, i)
    OBVIOUS
  <2>1. \A j \in 1..i : r[j] = q[j]
    BY <1>1, <1>3
  <2> QED BY <2>1 DEF Described
<1>5. AllDescribed(r, S) = AllDescribed(q, S) \cup News(e, S)
  BY <1>1, <1>2 DEF AllDescribed, Described, News, n
<1>6. Connections(r, S) = Connections(q, S) \cup Names(e, S)
  BY <1>1, <1>2 DEF Connections, Names, n
<1>7. ASSUME ComesAfter(q, S, known),
             e \in S /\ ~Describes(e) => Of(e) \in known \cup AllDescribed(q, S)
      PROVE  ComesAfter(r, S, known)
  <2> SUFFICES ASSUME NEW i \in 1..(n + 1), r[i] \in S, ~Describes(r[i])
               PROVE  Of(r[i]) \in known \cup Described(r, S, i)
    BY <1>1 DEF ComesAfter
  <2>1. CASE i \in 1..n
    BY <1>1, <1>4, <1>7, <2>1 DEF ComesAfter, n
  <2>2. CASE i = n + 1
    <3>1. AllDescribed(q, S) \subseteq Described(r, S, i)
      BY <1>5, <1>1, <2>2 DEF AllDescribed
    <3> QED BY <1>1, <1>7, <2>2, <3>1
  <2> QED BY <1>2, <2>1, <2>2
<1>8. ASSUME InTurn(q, S), e \in S => \A x \in Connections(q, S) : x <= Of(e)
      PROVE  InTurn(r, S)
  <2> SUFFICES ASSUME NEW i \in 1..(n + 1), NEW j \in 1..(n + 1), i <= j, r[i] \in S, r[j] \in S
               PROVE  Of(r[i]) <= Of(r[j])
    BY <1>1 DEF InTurn
  <2>1. CASE j \in 1..n
    <3>1. i \in 1..n
      BY <1>1, <2>1, SMT
    <3> QED BY <1>1, <1>8, <2>1, <3>1 DEF InTurn, n
  <2>2. CASE j = n + 1 /\ i \in 1..n
    <3>1. Of(r[i]) \in Connections(q, S)
      BY <1>1, <2>2 DEF Connections, n
    <3> QED BY <1>1, <1>8, <2>2, <3>1
  <2>3. CASE j = n + 1 /\ i = n + 1
    <3>1. r[i] = e /\ r[j] = e
      BY <1>1, <2>3
    <3>2. Of(e) \in Nat
      BY DEF Of, Events, Messages, Ids
    <3> QED BY <3>1, <3>2
  <2> QED BY <1>2, <2>1, <2>2, <2>3
<1> QED BY <1>5, <1>6, <1>7, <1>8 DEF r

\* The first event is taken from a queue.
LEMMA TakenFirst ==
  ASSUME NEW q \in Seq(Events), q # << >>, NEW S, NEW known
  PROVE  /\ AllDescribed(q, S) = AllDescribed(Tail(q), S) \cup News(Head(q), S)
         /\ Connections(q, S) = Connections(Tail(q), S) \cup Names(Head(q), S)
         /\ ComesAfter(q, S, known) =>
              /\ ComesAfter(Tail(q), S, known \cup News(Head(q), S))
              /\ Head(q) \in S /\ ~Describes(Head(q)) => Of(Head(q)) \in known
         /\ InTurn(q, S) =>
              /\ InTurn(Tail(q), S)
              /\ Head(q) \in S => \A x \in Connections(Tail(q), S) : Of(Head(q)) <= x
<1> DEFINE t == Tail(q)
           h == Head(q)
           n == Len(t)
<1>1. /\ n \in Nat /\ Len(q) = n + 1 /\ h = q[1]
      /\ \A i \in 1..n : t[i] = q[i + 1]
  BY TailTyped
<1>2. /\ \A i \in 1..(n + 1) : i = 1 \/ \E j \in 1..n : i = j + 1
      /\ \A j \in 1..n : j + 1 \in 1..(n + 1)
      /\ 1 \in 1..(n + 1)
  <2>1. \A i \in 1..(n + 1) : i = 1 \/ (i - 1 \in 1..n /\ i = (i - 1) + 1)
    BY <1>1, SMT
  <2> QED BY <1>1, <2>1, SMT
<1> HIDE DEF t, h, n
<1>3. \A i \in 0..n : Described(q, S, i + 1) = Described(t, S, i) \cup News(h, S)
  <2> SUFFICES ASSUME NEW i \in 0..n, NEW x
               PROVE  x \in Described(q, S, i + 1) <=> x \in Described(t, S, i) \cup News(h, S)
    BY Zenon
  <2>1. /\ \A j \in 1..(i + 1) : j = 1 \/ \E k \in 1..i : j = k + 1
        /\ \A k \in 1..i : k + 1 \in 1..(i + 1) /\ k \in 1..n
        /\ 1 \in 1..(i + 1)
    <3>1. \A j \in 1..(i + 1) : j = 1 \/ (j - 1 \in 1..i /\ j = (j - 1) + 1)
      BY <1>1, SMT
    <3> QED BY <1>1, <3>1, SMT
  <2>2. \A k \in 1..i : t[k] = q[k + 1]
    BY <1>1, <2>1
  <2>3. ASSUME x \in Described(q, S, i + 1) PROVE x \in Described(t, S, i) \cup News(h, S)
    <3>1. PICK j \in 1..(i + 1) : q[j] \in S /\ Describes(q[j]) /\ x = Of(q[j])
      BY <2>3 DEF Described
    <3>2. CASE j = 1
      BY <1>1, <3>1, <3>2 DEF News
    <3>3. ASSUME NEW k \in 1..i, j = k + 1 PROVE x \in Described(t, S, i)
      BY <2>2, <3>1, <3>3 DEF Described
    <3> QED BY <2>1, <3>2, <3>3
  <2>4. ASSUME x \in Described(t, S, i) \cup News(h, S) PROVE x \in Described(q, S, i + 1)
    <3>1. CASE x \in News(h, S)
      BY <1>1, <2>1, <3>1 DEF Described, News
    <3>2. CASE x \in Described(t, S, i)
      <4>1. PICK k \in 1..i : t[k] \in S /\ Describes(t[k]) /\ x = Of(t[k])
        BY <3>2 DEF Described
      <4> QED BY <2>1, <2>2, <4>1 DEF Described
    <3> QED BY <2>4, <3>1, <3>2
  <2> QED BY <2>3, <2>4
<1>4. AllDescribed(q, S) = AllDescribed(t, S) \cup News(h, S)
  BY <1>1, <1>3 DEF AllDescribed, n
<1>5. Connections(q, S) = Connections(t, S) \cup Names(h, S)
  BY <1>1, <1>2 DEF Connections, Names, n
<1>6. ASSUME ComesAfter(q, S, known)
      PROVE  /\ ComesAfter(t, S, known \cup News(h, S))
             /\ h \in S /\ ~Describes(h) => Of(h) \in known
  <2>1. ASSUME NEW i \in 1..n, t[i] \in S, ~Describes(t[i])
        PROVE  Of(t[i]) \in (known \cup News(h, S)) \cup Described(t, S, i)
    <3>1. Of(q[i + 1]) \in known \cup Described(q, S, i + 1)
      BY <1>1, <1>2, <1>6, <2>1 DEF ComesAfter
    <3>2. i \in 0..n
      BY <1>1, SMT
    <3> QED BY <1>1, <1>3, <3>1, <3>2
  <2>2. ASSUME h \in S, ~Describes(h) PROVE Of(h) \in known
    <3>1. Of(h) \in known \cup Described(q, S, 1)
      BY <1>1, <1>2, <1>6, <2>2 DEF ComesAfter
    <3>2. 1..1 = {1}
      BY SMT
    <3>3. Described(q, S, 1) = {}
      BY <1>1, <2>2, <3>2 DEF Described
    <3> QED BY <3>1, <3>3
  <2> QED BY <2>1, <2>2 DEF ComesAfter, n
<1>7. ASSUME InTurn(q, S)
      PROVE  InTurn(t, S) /\ (h \in S => \A x \in Connections(t, S) : Of(h) <= x)
  <2>1. \A i, j \in 1..n : i <= j => i + 1 <= j + 1
    BY <1>1, SMT
  <2>2. \A i \in 1..n : 1 <= i + 1
    BY <1>1, SMT
  <2>3. InTurn(t, S)
    BY <1>1, <1>2, <1>7, <2>1 DEF InTurn, n
  <2>4. ASSUME h \in S, NEW x \in Connections(t, S) PROVE Of(h) <= x
    <3>1. PICK i \in 1..n : t[i] \in S /\ x = Of(t[i])
      BY DEF Connections, n
    <3> QED BY <1>1, <1>2, <1>7, <2>2, <2>4, <3>1 DEF InTurn
  <2> QED BY <2>3, <2>4
<1> QED BY <1>4, <1>5, <1>6, <1>7 DEF t, h

\* What is known of other connections is of no use to a queue.
LEMMA KnownEnough ==
  ASSUME NEW q, NEW S, NEW known, NEW instead, ComesAfter(q, S, known),
         \A x \in Connections(q, S) : x \in known => x \in instead
  PROVE  ComesAfter(q, S, instead)
<1> SUFFICES ASSUME NEW i \in 1..Len(q), q[i] \in S, ~Describes(q[i])
             PROVE  Of(q[i]) \in instead \cup Described(q, S, i)
  BY DEF ComesAfter
<1>1. Of(q[i]) \in Connections(q, S)
  BY DEF Connections
<1> QED BY <1>1 DEF ComesAfter

-----------------------------------------------------------------------------
(* How the way to a side changes: r, a, b, c, n and silent are its remote description, *)
(* what has arrived, what is on the line, what leaves, the peer's connection, and      *)
(* whether the peer is silent.                                                         *)

\* What such an event changes in the sets: nothing.
LEMMA NothingNew ==
  ASSUME NEW q \in Seq(Events), NEW e \in Events, NEW S, e \notin S
  PROVE  /\ AllDescribed(Append(q, e), S) = AllDescribed(q, S)
         /\ Connections(Append(q, e), S) = Connections(q, S)
         /\ \A known : ComesAfter(q, S, known) => ComesAfter(Append(q, e), S, known)
         /\ InTurn(q, S) => InTurn(Append(q, e), S)
<1>1. News(e, S) = {} /\ Names(e, S) = {}
  BY DEF News, Names
<1>2. /\ AllDescribed(Append(q, e), S) = AllDescribed(q, S) \cup News(e, S)
      /\ Connections(Append(q, e), S) = Connections(q, S) \cup Names(e, S)
      /\ \A known : ComesAfter(q, S, known) => ComesAfter(Append(q, e), S, known)
      /\ InTurn(q, S) => InTurn(Append(q, e), S)
  BY PutBehind
<1> QED BY <1>1, <1>2

\* An event that describes nothing of S is taken, and what is known stays what it is.
LEMMA NothingTaken ==
  ASSUME NEW q \in Seq(Events), q # << >>, NEW S, Head(q) \notin S \/ ~Describes(Head(q))
  PROVE  /\ AllDescribed(Tail(q), S) = AllDescribed(q, S)
         /\ Connections(Tail(q), S) \subseteq Connections(q, S)
         /\ Head(q) \notin S => Connections(Tail(q), S) = Connections(q, S)
         /\ \A known : ComesAfter(q, S, known) => ComesAfter(Tail(q), S, known)
         /\ InTurn(q, S) => InTurn(Tail(q), S)
<1>1. News(Head(q), S) = {} /\ (Head(q) \notin S => Names(Head(q), S) = {})
  BY DEF News, Names
<1>2. /\ AllDescribed(q, S) = AllDescribed(Tail(q), S) \cup News(Head(q), S)
      /\ Connections(q, S) = Connections(Tail(q), S) \cup Names(Head(q), S)
      /\ \A known : ComesAfter(q, S, known) =>
            ComesAfter(Tail(q), S, known \cup News(Head(q), S))
      /\ InTurn(q, S) => InTurn(Tail(q), S)
  BY TakenFirst
<1>3. \A known : known \cup News(Head(q), S) = known
  BY <1>1
<1>4. \A known : ComesAfter(q, S, known) => ComesAfter(Tail(q), S, known)
  BY <1>2, <1>3
<1>5. AllDescribed(Tail(q), S) = AllDescribed(q, S)
  BY <1>1, <1>2
<1>6. /\ Connections(Tail(q), S) \subseteq Connections(q, S)
      /\ Head(q) \notin S => Connections(Tail(q), S) = Connections(q, S)
  BY <1>1, <1>2
<1> QED BY <1>2, <1>4, <1>5, <1>6

\* An event that is no message puts nothing on the way.
LEMMA ElsePutBehind ==
  ASSUME NEW r, NEW a \in Seq(Events), NEW b, NEW c \in Seq(Events), NEW n, NEW silent,
         NEW e \in Events, OnTheWay(r, a, b, c, n, silent)
  PROVE  /\ e \notin In => OnTheWay(r, Append(a, e), b, c, n, silent)
         /\ e \notin Out(n) => OnTheWay(r, a, b, Append(c, e), n, silent)
<1>1. ASSUME e \notin In PROVE OnTheWay(r, Append(a, e), b, c, n, silent)
  <2>1. /\ AllDescribed(Append(a, e), In) = AllDescribed(a, In)
        /\ Connections(Append(a, e), In) = Connections(a, In)
        /\ ComesAfter(a, In, {r}) => ComesAfter(Append(a, e), In, {r})
        /\ InTurn(a, In) => InTurn(Append(a, e), In)
    BY <1>1, NothingNew
  <2> QED BY <2>1 DEF OnTheWay
<1>2. ASSUME e \notin Out(n) PROVE OnTheWay(r, a, b, Append(c, e), n, silent)
  <2>1. /\ AllDescribed(Append(c, e), Out(n)) = AllDescribed(c, Out(n))
        /\ Connections(Append(c, e), Out(n)) = Connections(c, Out(n))
        /\ \A known : ComesAfter(c, Out(n), known) => ComesAfter(Append(c, e), Out(n), known)
    BY <1>2, NothingNew
  <2> QED BY <2>1 DEF OnTheWay
<1> QED BY <1>1, <1>2

\* The peer describes its connection, or gathers a candidate of one that it has described.
LEMMA MessageLeaves ==
  ASSUME NEW r, NEW a, NEW b, NEW c \in Seq(Events), NEW n, NEW silent,
         NEW e \in Events, OnTheWay(r, a, b, c, n, silent),
         e \in Out(n), Of(e) = n, Describes(e) \/ ~silent
  PROVE  OnTheWay(r, a, b, Append(c, e), n, FALSE)
<1> DEFINE d == Append(c, e)
           known == ({r} \cup AllDescribed(a, In)) \cup AllDescribed(b, In)
<1>1. /\ AllDescribed(d, Out(n)) = AllDescribed(c, Out(n)) \cup News(e, Out(n))
      /\ Connections(d, Out(n)) = Connections(c, Out(n)) \cup {n}
      /\ /\ ComesAfter(c, Out(n), known)
         /\ ~Describes(e) => n \in known \cup AllDescribed(c, Out(n))
         => ComesAfter(d, Out(n), known)
  BY PutBehind DEF Names
<1>2. Describes(e) => n \in News(e, Out(n))
  BY DEF News
<1>3. ~Describes(e) => n \in known \cup AllDescribed(c, Out(n))
  BY DEF OnTheWay
<1>4. ComesAfter(d, Out(n), known)
  BY <1>1, <1>3 DEF OnTheWay
<1>5. n \in known \cup AllDescribed(d, Out(n))
  BY <1>1, <1>2, <1>3
<1>6. \A x \in Connections(d, Out(n)) : x = n
  BY <1>1 DEF OnTheWay
<1> QED BY <1>4, <1>5, <1>6 DEF OnTheWay

\* The peer answers with a connection that has not sent anything.
LEMMA ConnectionBegins ==
  ASSUME NEW r, NEW a, NEW b, NEW c \in Seq(Events), NEW n \in Nat, NEW silent,
         NEW m \in Nat, NEW e \in Events, OnTheWay(r, a, b, c, n, silent),
         r \in Int, Connections(a, In) \cup Connections(b, In) \subseteq Int,
         n <= m, \A i \in 1..Len(c) : c[i] \notin Out(m),
         e \in Out(m), Of(e) = m, Describes(e)
  PROVE  OnTheWay(r, a, b, Append(c, e), m, FALSE)
<1> DEFINE known == ({r} \cup AllDescribed(a, In)) \cup AllDescribed(b, In)
<1>1. Connections(c, Out(m)) = {} /\ ComesAfter(c, Out(m), known)
  BY DEF Connections, ComesAfter
<1>2. r <= m /\ \A x \in Connections(a, In) \cup Connections(b, In) : r <= x /\ x <= m
  <2>1. r <= n /\ \A x \in Connections(a, In) \cup Connections(b, In) : r <= x /\ x <= n
    BY DEF OnTheWay
  <2> QED BY <2>1, SMT
<1>3. OnTheWay(r, a, b, c, m, TRUE)
  BY <1>1, <1>2 DEF OnTheWay
<1> QED BY <1>3, MessageLeaves

\* The event that a side handles is no message of its connection.
LEMMA ElseTaken ==
  ASSUME NEW r, NEW a \in Seq(Events), NEW b, NEW c \in Seq(Events), NEW n, NEW silent,
         OnTheWay(r, a, b, c, n, silent)
  PROVE  /\ a # << >> /\ Head(a) \notin In => OnTheWay(r, Tail(a), b, c, n, silent)
         /\ c # << >> /\ (Head(c) \notin Out(n) \/ ~Describes(Head(c)))
              => OnTheWay(r, a, b, Tail(c), n, silent)
<1>1. ASSUME a # << >>, Head(a) \notin In PROVE OnTheWay(r, Tail(a), b, c, n, silent)
  <2>1. /\ AllDescribed(Tail(a), In) = AllDescribed(a, In)
        /\ Connections(Tail(a), In) = Connections(a, In)
        /\ ComesAfter(a, In, {r}) => ComesAfter(Tail(a), In, {r})
        /\ InTurn(a, In) => InTurn(Tail(a), In)
    BY <1>1, NothingTaken
  <2> QED BY <2>1 DEF OnTheWay
<1>2. ASSUME c # << >>, Head(c) \notin Out(n) \/ ~Describes(Head(c))
      PROVE  OnTheWay(r, a, b, Tail(c), n, silent)
  <2>1. /\ AllDescribed(Tail(c), Out(n)) = AllDescribed(c, Out(n))
        /\ Connections(Tail(c), Out(n)) \subseteq Connections(c, Out(n))
        /\ \A known : ComesAfter(c, Out(n), known) => ComesAfter(Tail(c), Out(n), known)
    BY <1>2, NothingTaken
  <2> QED BY <2>1 DEF OnTheWay
<1> QED BY <1>1, <1>2

\* The peer signals what its connection has to say.
LEMMA MessageSent ==
  ASSUME NEW r, NEW a, NEW b \in Seq(Events), NEW c \in Seq(Events), NEW n \in Nat, NEW silent,
         OnTheWay(r, a, b, c, n, silent), c # << >>, Head(c) \in Out(n),
         NEW e \in Events, e.tag = "Incoming", e.message = Head(c).message
  PROVE  OnTheWay(r, a, Append(b, e), Tail(c), n, silent)
<1> DEFINE h == Head(c)
           d == Append(b, e)
           t == Tail(c)
           known == {r} \cup AllDescribed(a, In)
<1>1. e \in In /\ Of(e) = Of(h) /\ (Describes(e) <=> Describes(h)) /\ News(e, In) = News(h, Out(n))
  BY DEF In, Of, Describes, News
<1>2. /\ AllDescribed(d, In) = AllDescribed(b, In) \cup News(h, Out(n))
      /\ Connections(d, In) = Connections(b, In) \cup {Of(h)}
      /\ /\ ComesAfter(b, In, known)
         /\ ~Describes(h) => Of(h) \in known \cup AllDescribed(b, In)
         => ComesAfter(d, In, known)
      /\ /\ InTurn(b, In)
         /\ \A x \in Connections(b, In) : x <= Of(h)
         => InTurn(d, In)
  BY SMTT(30), <1>1, PutBehind DEF Names
<1>3. /\ AllDescribed(c, Out(n)) = AllDescribed(t, Out(n)) \cup News(h, Out(n))
      /\ Connections(c, Out(n)) = Connections(t, Out(n)) \cup {Of(h)}
      /\ \A k : ComesAfter(c, Out(n), k) =>
           /\ ComesAfter(t, Out(n), k \cup News(h, Out(n)))
           /\ ~Describes(h) => Of(h) \in k
  BY TakenFirst DEF Names
<1> HIDE DEF h, d, t
<1>4. Of(h) = n
  BY <1>3 DEF OnTheWay
<1>5. ComesAfter(d, In, known)
  BY <1>2, <1>3 DEF OnTheWay
<1>6. InTurn(d, In)
  BY <1>2, <1>4 DEF OnTheWay
<1>7. ComesAfter(t, Out(n), known \cup AllDescribed(d, In))
  <2>1. (known \cup AllDescribed(b, In)) \cup News(h, Out(n)) = known \cup AllDescribed(d, In)
    BY <1>2
  <2>2. ComesAfter(t, Out(n), (known \cup AllDescribed(b, In)) \cup News(h, Out(n)))
    BY <1>3 DEF OnTheWay
  <2> QED BY <2>1, <2>2
<1>8. silent \/ n \in (known \cup AllDescribed(d, In)) \cup AllDescribed(t, Out(n))
  BY <1>2, <1>3 DEF OnTheWay
<1>9. /\ \A x \in Connections(a, In) \cup Connections(d, In) : r <= x /\ x <= n
      /\ \A x \in Connections(a, In), y \in Connections(d, In) : x <= y
      /\ \A x \in Connections(t, Out(n)) : x = n
  <2>1. /\ \A x \in Connections(a, In) \cup Connections(b, In) : r <= x /\ x <= n
        /\ r <= n /\ n <= n
        /\ \A x \in Connections(a, In), y \in Connections(b, In) : x <= y
        /\ \A x \in Connections(c, Out(n)) : x = n
    BY DEF OnTheWay
  <2> QED BY <1>2, <1>3, <1>4, <2>1
<1> QED BY <1>5, <1>6, <1>7, <1>8, <1>9 DEF OnTheWay, d, t

\* The next message on the line is put in the queue.
LEMMA MessageDelivered ==
  ASSUME NEW r, NEW a \in Seq(Events), NEW b \in Seq(Events), NEW c, NEW n, NEW silent,
         OnTheWay(r, a, b, c, n, silent), b # << >>, Head(b) \in In
  PROVE  OnTheWay(r, Append(a, Head(b)), Tail(b), c, n, silent)
<1> DEFINE h == Head(b)
           d == Append(a, h)
           t == Tail(b)
           known == {r} \cup AllDescribed(a, In)
<1>1. h \in Events
  BY TailTyped
<1>2. /\ AllDescribed(d, In) = AllDescribed(a, In) \cup News(h, In)
      /\ Connections(d, In) = Connections(a, In) \cup {Of(h)}
      /\ /\ ComesAfter(a, In, {r})
         /\ ~Describes(h) => Of(h) \in known
         => ComesAfter(d, In, {r})
      /\ /\ InTurn(a, In)
         /\ \A x \in Connections(a, In) : x <= Of(h)
         => InTurn(d, In)
  BY <1>1, PutBehind DEF Names
<1>3. /\ AllDescribed(b, In) = AllDescribed(t, In) \cup News(h, In)
      /\ Connections(b, In) = Connections(t, In) \cup {Of(h)}
      /\ ComesAfter(b, In, known) =>
           /\ ComesAfter(t, In, known \cup News(h, In))
           /\ ~Describes(h) => Of(h) \in known
      /\ InTurn(b, In) =>
           /\ InTurn(t, In)
           /\ \A x \in Connections(t, In) : Of(h) <= x
  BY TakenFirst DEF Names
<1> HIDE DEF h, d, t
<1>4. ComesAfter(d, In, {r})
  BY <1>2, <1>3 DEF OnTheWay
<1>5. InTurn(d, In) /\ InTurn(t, In)
  BY <1>2, <1>3 DEF OnTheWay
<1>6. /\ known \cup News(h, In) = {r} \cup AllDescribed(d, In)
      /\ ({r} \cup AllDescribed(d, In)) \cup AllDescribed(t, In) = known \cup AllDescribed(b, In)
  BY <1>2, <1>3
<1>7. ComesAfter(t, In, {r} \cup AllDescribed(d, In))
  BY <1>3, <1>6 DEF OnTheWay
<1>8. /\ \A x \in Connections(d, In) \cup Connections(t, In) : r <= x /\ x <= n
      /\ \A x \in Connections(d, In), y \in Connections(t, In) : x <= y
  <2>1. /\ \A x \in Connections(a, In) \cup Connections(b, In) : r <= x /\ x <= n
        /\ \A x \in Connections(a, In), y \in Connections(b, In) : x <= y
    BY DEF OnTheWay
  <2>2. \A x \in Connections(t, In) : Of(h) <= x
    BY <1>3 DEF OnTheWay
  <2> QED BY <1>2, <1>3, <2>1, <2>2
<1>9. /\ ComesAfter(c, Out(n), ({r} \cup AllDescribed(d, In)) \cup AllDescribed(t, In))
      /\ silent \/ n \in (({r} \cup AllDescribed(d, In)) \cup AllDescribed(t, In))
                            \cup AllDescribed(c, Out(n))
  BY <1>6 DEF OnTheWay
<1>10. r <= n /\ \A x \in Connections(c, Out(n)) : x = n
  BY DEF OnTheWay
<1> QED BY <1>4, <1>5, <1>7, <1>8, <1>9, <1>10 DEF OnTheWay, d, t, h

\* A candidate that is heard is of the connection whose description was taken.
LEMMA CandidateHeard ==
  ASSUME NEW r, NEW a \in Seq(Events), NEW b, NEW c, NEW n, NEW silent,
         OnTheWay(r, a, b, c, n, silent), a # << >>, Head(a) \in In, ~Describes(Head(a))
  PROVE  Of(Head(a)) = r /\ OnTheWay(r, Tail(a), b, c, n, silent)
<1>1. /\ AllDescribed(Tail(a), In) = AllDescribed(a, In)
      /\ Connections(Tail(a), In) \subseteq Connections(a, In)
      /\ ComesAfter(a, In, {r}) => ComesAfter(Tail(a), In, {r})
      /\ InTurn(a, In) => InTurn(Tail(a), In)
  BY NothingTaken
<1>2. ComesAfter(a, In, {r}) => Of(Head(a)) \in {r}
  BY TakenFirst
<1> QED BY <1>1, <1>2 DEF OnTheWay

\* With the description of a connection that is heard, candidates of older ones are over.
LEMMA DescriptionHeard ==
  ASSUME NEW r \in Int, NEW a \in Seq(Events), NEW b, NEW c, NEW n \in Int, NEW silent,
         OnTheWay(r, a, b, c, n, silent), a # << >>, Head(a) \in In, Describes(Head(a)),
         Connections(a, In) \subseteq Int, Connections(b, In) \subseteq Int
  PROVE  OnTheWay(Of(Head(a)), Tail(a), b, c, n, silent)
<1> DEFINE s == Of(Head(a))
           t == Tail(a)
           old == {r} \cup AllDescribed(a, In)
           new == {s} \cup AllDescribed(t, In)
<1>1. /\ AllDescribed(a, In) = AllDescribed(t, In) \cup {s}
      /\ Connections(a, In) = Connections(t, In) \cup {s}
      /\ ComesAfter(a, In, {r}) => ComesAfter(t, In, {r} \cup {s})
      /\ InTurn(a, In) => InTurn(t, In) /\ \A x \in Connections(t, In) : s <= x
  <2>1. News(Head(a), In) = {s} /\ Names(Head(a), In) = {s}
    BY DEF News, Names
  <2>2. /\ AllDescribed(a, In) = AllDescribed(t, In) \cup News(Head(a), In)
        /\ Connections(a, In) = Connections(t, In) \cup Names(Head(a), In)
        /\ ComesAfter(a, In, {r}) => ComesAfter(t, In, {r} \cup News(Head(a), In))
        /\ InTurn(a, In) => InTurn(t, In) /\ \A x \in Connections(t, In) : s <= x
    BY TakenFirst
  <2> HIDE DEF s, t
  <2> QED BY <2>1, <2>2
<1> HIDE DEF s, t
<1>2. /\ s \in Int /\ r <= s /\ s <= n
      /\ \A x \in Connections(t, In) \cup Connections(b, In) : x \in Int /\ s <= x /\ x <= n
      /\ \A x \in Connections(t, In), y \in Connections(b, In) : x <= y
      /\ \A x \in Connections(c, Out(n)) : x = n
  <2>1. s \in Connections(a, In)
    BY <1>1
  <2> QED BY <1>1, <2>1 DEF OnTheWay
<1>3. \A x \in Int : x = r /\ s <= x => x = s
  BY <1>2
<1>4. old \subseteq new \cup {r}
  BY <1>1
<1>5. ComesAfter(t, In, {s})
  <2>1. ComesAfter(t, In, {r} \cup {s})
    BY <1>1 DEF OnTheWay
  <2>2. \A x \in Connections(t, In) : x \in {r} \cup {s} => x \in {s}
    BY <1>2, <1>3
  <2> QED BY <2>1, <2>2, KnownEnough
<1>6. ComesAfter(b, In, new)
  <2>1. ComesAfter(b, In, old)
    BY DEF OnTheWay
  <2>2. \A x \in Connections(b, In) : x \in old => x \in new
    BY <1>2, <1>3, <1>4
  <2> QED BY <2>1, <2>2, KnownEnough
<1>7. n = r => n = s
  BY <1>2
<1>8. ComesAfter(c, Out(n), new \cup AllDescribed(b, In))
  <2>1. ComesAfter(c, Out(n), old \cup AllDescribed(b, In))
    BY DEF OnTheWay
  <2>2. \A x \in Connections(c, Out(n)) :
          x \in old \cup AllDescribed(b, In) => x \in new \cup AllDescribed(b, In)
    BY <1>2, <1>4, <1>7
  <2> QED BY <2>1, <2>2, KnownEnough
<1>9. silent \/ n \in (new \cup AllDescribed(b, In)) \cup AllDescribed(c, Out(n))
  BY <1>4, <1>7 DEF OnTheWay
<1>10. InTurn(t, In) /\ InTurn(b, In)
  BY <1>1 DEF OnTheWay
<1> QED BY <1>2, <1>5, <1>6, <1>8, <1>9, <1>10 DEF OnTheWay, s, t

\* What is on the line, as the events that it becomes.
LEMMA WrappedLine ==
  ASSUME NEW q \in Seq(Messages)
  PROVE  /\ Wrapped(q) \in Seq(Events)
         /\ \A m \in Messages : Wrapped(Append(q, m)) = Append(Wrapped(q), Incoming(m))
         /\ q # << >> => /\ Wrapped(q) # << >> /\ Head(Wrapped(q)) = Incoming(Head(q))
                         /\ Wrapped(Tail(q)) = Tail(Wrapped(q))
<1>1. \A p \in Seq(Messages) :
        /\ Wrapped(p) \in Seq(Events) /\ Len(Wrapped(p)) = Len(p) /\ Len(p) \in Nat
        /\ \A i \in 1..Len(p) : Wrapped(p)[i] = Incoming(p[i])
  <2> SUFFICES ASSUME NEW p \in Seq(Messages)
               PROVE  /\ Wrapped(p) \in Seq(Events) /\ Len(Wrapped(p)) = Len(p) /\ Len(p) \in Nat
                      /\ \A i \in 1..Len(p) : Wrapped(p)[i] = Incoming(p[i])
    OBVIOUS
  <2>1. \A i \in 1..Len(p) : p[i] \in Messages
    OBVIOUS
  <2>2. \A i \in 1..Len(p) : Incoming(p[i]) \in Events
    BY <2>1, MessagesTyped
  <2> QED BY <2>2 DEF Wrapped
<1>2. ASSUME NEW m \in Messages PROVE Wrapped(Append(q, m)) = Append(Wrapped(q), Incoming(m))
  <2> DEFINE p == Append(q, m)
             w == Wrapped(q)
             e == Incoming(m)
             n == Len(q)
  <2>1. /\ p \in Seq(Messages) /\ Len(p) = n + 1 /\ n \in Nat
        /\ \A i \in 1..n : p[i] = q[i]
        /\ p[n + 1] = m
    BY AppendTyped
  <2>2. e \in Events /\ w \in Seq(Events) /\ Len(w) = n
    BY <1>1, MessagesTyped
  <2>3. /\ Append(w, e) \in Seq(Events) /\ Len(Append(w, e)) = n + 1
        /\ \A i \in 1..n : Append(w, e)[i] = w[i]
        /\ Append(w, e)[n + 1] = e
    <3> HIDE DEF w, e
    <3> QED BY <2>2, AppendTyped
  <2>4. /\ Wrapped(p) \in Seq(Events) /\ Len(Wrapped(p)) = n + 1
        /\ \A i \in 1..(n + 1) : Wrapped(p)[i] = Incoming(p[i])
    BY <1>1, <2>1
  <2>5. \A i \in 1..n : w[i] = Incoming(q[i])
    BY <1>1
  <2>6. \A i \in 1..(n + 1) : i \in 1..n \/ i = n + 1
    BY <2>1, SMT
  <2> HIDE DEF w, p, n, e
  <2>7. ASSUME NEW i \in 1..(n + 1) PROVE Wrapped(p)[i] = Append(w, e)[i]
    <3>1. CASE i \in 1..n
      BY <2>1, <2>3, <2>4, <2>5, <3>1
    <3>2. CASE i = n + 1
      <4>1. e = Incoming(m)
        BY DEF e
      <4> QED BY <2>1, <2>3, <2>4, <3>2, <4>1
    <3> QED BY <2>6, <3>1, <3>2
  <2>8. Wrapped(p) = Append(w, e)
    BY <2>3, <2>4, <2>7, SeqEqual
  <2> QED BY <2>8 DEF p, w, e
<1>3. ASSUME q # << >>
      PROVE  /\ Wrapped(q) # << >> /\ Head(Wrapped(q)) = Incoming(Head(q))
             /\ Wrapped(Tail(q)) = Tail(Wrapped(q))
  <2> DEFINE p == Tail(q)
             w == Wrapped(q)
             n == Len(p)
  <2>1. /\ p \in Seq(Messages) /\ Len(q) = n + 1 /\ n \in Nat /\ Head(q) = q[1]
        /\ \A i \in 1..n : p[i] = q[i + 1] /\ i + 1 \in 1..Len(q)
    BY <1>3, TailTyped
  <2>2. w \in Seq(Events) /\ Len(w) = n + 1 /\ \A i \in 1..Len(q) : w[i] = Incoming(q[i])
    BY <1>1, <2>1
  <2>3. w # << >>
    BY <2>1, <2>2
  <2>4. /\ Tail(w) \in Seq(Events) /\ Len(Tail(w)) = n /\ Head(w) = w[1]
        /\ \A i \in 1..n : Tail(w)[i] = w[i + 1]
    <3> HIDE DEF w
    <3>1. /\ Tail(w) \in Seq(Events) /\ Len(Tail(w)) = Len(w) - 1 /\ Head(w) = w[1]
          /\ \A i \in 1..Len(Tail(w)) : Tail(w)[i] = w[i + 1]
      BY <2>2, <2>3, TailTyped
    <3>2. Len(Tail(w)) = n
      BY SMTT(30), <2>1, <2>2, <3>1
    <3> QED BY <3>1, <3>2
  <2>5. Wrapped(p) \in Seq(Events) /\ Len(Wrapped(p)) = n
        /\ \A i \in 1..n : Wrapped(p)[i] = Incoming(p[i])
    BY <1>1, <2>1
  <2>6. 1 \in 1..Len(q)
    BY <2>1
  <2> HIDE DEF w, p, n
  <2>7. Wrapped(p) = Tail(w)
    BY <2>1, <2>2, <2>4, <2>5, SeqEqual
  <2>8. Head(w) = Incoming(Head(q))
    BY <2>1, <2>2, <2>4, <2>6
  <2> QED BY <2>3, <2>7, <2>8 DEF w, p
<1> QED BY <1>1, <1>2, <1>3

-----------------------------------------------------------------------------
(* Who says what. *)

\* The two sides are each other's other side.
LEMMA OtherSides ==
  /\ "Downloader" \in Sides /\ "Uploader" \in Sides
  /\ Other("Downloader") = "Uploader" /\ Other("Uploader") = "Downloader"
  /\ \A s \in Sides : Other(s) \in Sides /\ Other(Other(s)) = s /\ Other(s) # s
  /\ \A s, t \in Sides : t = s \/ t = Other(s)
BY DEF Sides, Other

\* What is on its way, sent or not, stays as it is, as long as nobody touches it.
LEMMA LineKept ==
  ASSUME UNCHANGED <<line, pending>> PROVE \A s \in Sides : OnLine(s)' = OnLine(s)
BY DEF OnLine

\* It consists of messages.
LEMMA LineTyped ==
  ASSUME IInv, NEW s \in Sides
  PROVE  OnLine(s) \in Seq(Messages) /\ Wrapped(OnLine(s)) \in Seq(Events)
<1>1. line[s] \in Seq(Messages) /\ pending[Other(s)] \in Seq(Messages)
  BY OtherSides DEF IInv, TypeOK
<1>2. OnLine(s) \in Seq(Messages)
  BY <1>1, ConcatProperties DEF OnLine
<1> QED BY <1>2, WrappedLine

\* Wherever sending stops, what is sent and what waits are all the messages.
LEMMA SentOrWaiting ==
  ASSUME NEW S, NEW q \in Seq(S), NEW sent \in 0..Len(q)
  PROVE  /\ SubSeq(q, 1, sent) \in Seq(S) /\ SubSeq(q, sent + 1, Len(q)) \in Seq(S)
         /\ SubSeq(q, 1, sent) \o SubSeq(q, sent + 1, Len(q)) = q
<1> DEFINE front == SubSeq(q, 1, sent)
           rest == SubSeq(q, sent + 1, Len(q))
<1>1. Len(q) \in Nat /\ sent \in Nat /\ sent <= Len(q)
  BY LenProperties
<1>2. front \in Seq(S) /\ rest \in Seq(S)
  <2>1. /\ \A i \in 1..sent : i \in 1..Len(q)
        /\ \A i \in (sent + 1)..Len(q) : i \in 1..Len(q)
    BY <1>1, SMT
  <2>2. \A i \in 1..Len(q) : q[i] \in S
    OBVIOUS
  <2>3. /\ \A i \in 1..sent : q[i] \in S
        /\ \A i \in (sent + 1)..Len(q) : q[i] \in S
    BY <2>1, <2>2
  <2>4. front \in Seq(S)
    BY <1>1, <2>3, SubSeqProperties
  <2>5. rest \in Seq(S)
    BY <1>1, <2>3, SubSeqProperties
  <2> QED BY <2>4, <2>5
<1>3. front \o rest = q
  <2>1. 1 \in 1..(Len(q) + 1) /\ sent \in (1 - 1)..Len(q) /\ Len(q) \in sent..Len(q)
    BY <1>1, SMT
  <2>2. front \o rest = SubSeq(q, 1, Len(q))
    BY <1>1, <2>1, ConcatAdjacentSubSeq
  <2>3. SubSeq(q, 1, Len(q)) = q
    BY <1>1, SubSeqFull
  <2> QED BY <2>2, <2>3
<1> QED BY <1>2, <1>3

\* A side that signals puts one message behind the others, wherever sending stops.
LEMMA LineSent ==
  ASSUME IInv, NEW side \in Sides, Signals(side)
  PROVE  \A s \in Sides :
            OnLine(s)' = IF s = Other(side) THEN Append(OnLine(s), Head(rx[side]).message)
                         ELSE OnLine(s)
<1> DEFINE o == Other(side)
           m == Head(rx[side]).message
           q == Append(pending[side], m)
<1>1. PICK sent \in 0..Len(q) :
        /\ line' = [line EXCEPT ![o] = line[o] \o SubSeq(q, 1, sent)]
        /\ pending' = [pending EXCEPT ![side] = SubSeq(q, sent + 1, Len(q))]
  BY DEF Signals, Pushed, Set
<1>2. /\ m \in Messages /\ line[o] \in Seq(Messages) /\ pending[side] \in Seq(Messages)
      /\ o \in Sides /\ Other(o) = side /\ o # side
  <2>1. rx[side] # << >>
    BY DEF Signals, Hears
  <2> QED BY <2>1, HeardTyped, OtherSides DEF IInv, TypeOK
<1>3. q = Append(pending[side], m)
  OBVIOUS
<1> HIDE DEF q, o, m
<1>4. /\ line'[o] = line[o] \o SubSeq(q, 1, sent) /\ pending'[side] = SubSeq(q, sent + 1, Len(q))
      /\ line'[side] = line[side] /\ pending'[o] = pending[o]
  BY <1>1, <1>2 DEF IInv, TypeOK
<1>5. line'[o] \o pending'[side] = Append(line[o] \o pending[side], m)
  <2> DEFINE a == line[o]
             b == pending[side]
             front == SubSeq(q, 1, sent)
             rest == SubSeq(q, sent + 1, Len(q))
  <2>1. a \in Seq(Messages) /\ b \in Seq(Messages) /\ m \in Messages /\ q \in Seq(Messages)
    BY <1>2, <1>3, AppendTyped
  <2>2. front \in Seq(Messages) /\ rest \in Seq(Messages) /\ front \o rest = q
    BY <2>1, SentOrWaiting
  <2>3. line'[o] = a \o front /\ pending'[side] = rest /\ q = Append(b, m)
    BY <1>3, <1>4
  <2> HIDE DEF a, b, front, rest
  <2>4. (a \o front) \o rest = a \o (front \o rest)
    <3>1. a \in Seq(Messages) /\ front \in Seq(Messages) /\ rest \in Seq(Messages)
      BY <2>1, <2>2
    <3> QED BY ONLY <3>1, SMTT(60)
  <2>5. a \o Append(b, m) = Append(a \o b, m)
    BY <2>1, SMTT(30)
  <2> QED BY <2>2, <2>3, <2>4, <2>5 DEF a, b
<1>6. OnLine(o)' = Append(OnLine(o), m) /\ OnLine(side)' = OnLine(side)
  BY <1>2, <1>4, <1>5 DEF OnLine, o
<1> QED BY <1>2, <1>6, OtherSides DEF o, m

\* The next message on the line is delivered or lost.
LEMMA LineTaken ==
  ASSUME IInv, NEW side \in Sides, line[side] # << >>,
         line' = [line EXCEPT ![side] = Tail(line[side])], UNCHANGED pending
  PROVE  /\ OnLine(side) # << >> /\ Head(OnLine(side)) = Head(line[side])
         /\ OnLine(side)' = Tail(OnLine(side)) /\ OnLine(Other(side))' = OnLine(Other(side))
<1> DEFINE a == line[side]
           b == pending[Other(side)]
<1>1. /\ a \in Seq(Messages) /\ b \in Seq(Messages) /\ a # << >>
      /\ line'[side] = Tail(a) /\ line'[Other(side)] = line[Other(side)]
  BY OtherSides DEF IInv, TypeOK
<1> HIDE DEF a, b
<1>2. a \o b # << >> /\ Head(a \o b) = Head(a) /\ Tail(a \o b) = Tail(a) \o b
  <2>1. /\ Len(a) \in Nat \ {0} /\ Len(b) \in Nat /\ Head(a) = a[1]
        /\ Tail(a) \in Seq(Messages) /\ Len(Tail(a)) = Len(a) - 1
        /\ \A i \in 1..Len(Tail(a)) : Tail(a)[i] = a[i + 1]
    BY <1>1, TailTyped, LenProperties
  <2>2. /\ a \o b \in Seq(Messages) /\ Len(a \o b) = Len(a) + Len(b)
        /\ \A i \in 1 .. Len(a) + Len(b) : (a \o b)[i] = IF i <= Len(a) THEN a[i] ELSE b[i - Len(a)]
    BY <1>1, ConcatProperties
  <2>3. /\ Tail(a) \o b \in Seq(Messages) /\ Len(Tail(a) \o b) = Len(Tail(a)) + Len(b)
        /\ \A i \in 1 .. Len(Tail(a)) + Len(b) : (Tail(a) \o b)[i] =
              IF i <= Len(Tail(a)) THEN Tail(a)[i] ELSE b[i - Len(Tail(a))]
    BY <1>1, <2>1, ConcatProperties
  <2>4. a \o b # << >>
    BY <1>1, ConcatEqualIffEmpty
  <2>5. /\ Tail(a \o b) \in Seq(Messages) /\ Head(a \o b) = (a \o b)[1]
        /\ Len(Tail(a \o b)) = Len(a \o b) - 1
        /\ \A i \in 1..Len(Tail(a \o b)) : Tail(a \o b)[i] = (a \o b)[i + 1]
    BY <2>2, <2>4, TailTyped
  <2> DEFINE l == Len(a)
             k == Len(b)
  <2>6. l \in Nat \ {0} /\ k \in Nat
    BY <2>1
  <2>7. Head(a \o b) = Head(a)
    <3>1. 1 \in 1 .. l + k /\ 1 <= l
      BY <2>6, SMT
    <3> QED BY <2>1, <2>2, <2>5, <3>1
  <2>8. Len(Tail(a \o b)) = Len(Tail(a) \o b)
    BY <2>1, <2>2, <2>3, <2>5, SMT
  <2>9. ASSUME NEW i \in 1..Len(Tail(a \o b)) PROVE Tail(a \o b)[i] = (Tail(a) \o b)[i]
    <3>1. i \in 1 .. (l + k) - 1 /\ i \in 1 .. Len(Tail(a)) + Len(b)
      BY <2>2, <2>3, <2>5, <2>8
    <3> HIDE DEF l, k
    <3>2. i + 1 \in 1 .. l + k /\ i \in 1 .. (l - 1) + k
      BY <2>6, <3>1, SMT
    <3>3. CASE i <= l - 1
      <4>1. i + 1 <= l /\ i \in 1..(l - 1)
        BY <2>6, <3>1, <3>3, SMT
      <4>2. Tail(a \o b)[i] = a[i + 1]
        BY <2>2, <2>5, <3>2, <4>1 DEF l, k
      <4>3. (Tail(a) \o b)[i] = Tail(a)[i] /\ Tail(a)[i] = a[i + 1]
        BY <2>1, <2>3, <3>1, <3>3, <4>1 DEF l
      <4> QED BY <4>2, <4>3
    <3>4. CASE ~(i <= l - 1)
      <4>1. ~(i + 1 <= l) /\ (i + 1) - l = i - (l - 1)
        BY <2>6, <3>1, <3>4, SMT
      <4>2. Tail(a \o b)[i] = b[(i + 1) - l]
        BY <2>2, <2>5, <3>2, <4>1 DEF l, k
      <4>3. (Tail(a) \o b)[i] = b[i - (l - 1)]
        BY <2>1, <2>3, <3>1, <3>4 DEF l
      <4> QED BY <4>1, <4>2, <4>3
    <3> QED BY <3>3, <3>4
  <2>10. Tail(a \o b) = Tail(a) \o b
    BY <2>3, <2>5, <2>8, <2>9, SeqEqual
  <2> QED BY <2>4, <2>7, <2>10
<1>3. OnLine(side) = a \o b /\ OnLine(side)' = Tail(a) \o b
  BY <1>1 DEF OnLine, a, b
<1>4. OnLine(Other(side))' = OnLine(Other(side))
  BY <1>1 DEF OnLine
<1> QED BY <1>2, <1>3, <1>4 DEF a

\* A queue after a step: one event fewer, one more, or both.
Moved(old, new, side, locals) ==
    \/ new = old
    \/ old # << >> /\ new = Tail(old)
    \/ \E event \in Events :
        /\ Belongs(event, side, locals)
        /\ new = Append(old, event) \/ (old # << >> /\ new = Append(Tail(old), event))

\* What a queue holds stays on the side it belongs to, with one event fewer or more.
LEMMA MovedBelongs ==
  ASSUME NEW old \in Seq(Events), NEW new, NEW side \in Sides, NEW before, NEW after,
         AllBelong(old, side, before), \A s \in Sides : before[s] # "None" => after[s] # "None",
         Moved(old, new, side, after)
  PROVE  AllBelong(new, side, after)
<1>1. \A event : Belongs(event, side, before) => Belongs(event, side, after)
  BY OtherSides DEF Belongs
<1>2. AllBelong(old, side, after)
  BY <1>1 DEF AllBelong
<1>3. old # << >> => Tail(old) \in Seq(Events) /\ AllBelong(Tail(old), side, after)
  BY <1>2, TailTyped DEF AllBelong
<1>4. ASSUME NEW q \in Seq(Events), AllBelong(q, side, after),
             NEW event \in Events, Belongs(event, side, after)
      PROVE  AllBelong(Append(q, event), side, after)
  <2>1. \A i \in 1..Len(Append(q, event)) : i \in 1..Len(q) \/ i = Len(q) + 1
    <3>1. Len(Append(q, event)) = Len(q) + 1 /\ Len(q) \in Nat
      BY AppendTyped
    <3> QED BY <3>1, SMT
  <2> QED BY <1>4, <2>1, AppendTyped DEF AllBelong
<1> QED BY <1>2, <1>3, <1>4 DEF Moved

\* The roles are kept by a step that keeps the descriptions and moves the queues.
LEMMA MovedRoles ==
  ASSUME IInv, Roles, id'["Downloader"] = 0,
         local'["Downloader"] \in {local["Downloader"], "Offer"},
         local'["Uploader"] \in {local["Uploader"], "Answer"},
         local'["Uploader"] = local["Uploader"] \/ local["Downloader"] # "None",
         \A s \in Sides : /\ Moved(rx[s], rx'[s], s, local')
                          /\ Moved(Wrapped(OnLine(s)), Wrapped(OnLine(s)'), s, local')
  PROVE  Roles'
<1>1. \A s \in Sides : local[s] # "None" => local'[s] # "None"
  BY DEF Sides, Roles
<1>2. \A s \in Sides : rx[s] \in Seq(Events) /\ Wrapped(OnLine(s)) \in Seq(Events)
  BY LineTyped DEF IInv, TypeOK
<1>3. ASSUME NEW s \in Sides
      PROVE  AllBelong(rx'[s], s, local') /\ AllBelong(Wrapped(OnLine(s)'), s, local')
  <2>1. AllBelong(rx[s], s, local) /\ AllBelong(Wrapped(OnLine(s)), s, local)
    BY DEF Roles
  <2> QED BY <1>1, <1>2, <2>1, MovedBelongs
<1>4. local'["Uploader"] # "None" => local'["Downloader"] # "None"
  BY <1>1, OtherSides DEF Roles
<1> QED BY <1>3, <1>4 DEF Roles

\* The event that a side handles.
LEMMA HeadBelongs ==
  ASSUME IInv, Roles, NEW side \in Sides, rx[side] # << >>
  PROVE  Head(rx[side]) \in Events /\ Belongs(Head(rx[side]), side, local)
<1>1. rx[side] \in Seq(Events) /\ AllBelong(rx[side], side, local)
  BY DEF IInv, TypeOK, Roles
<1>2. 1 \in 1..Len(rx[side]) /\ Head(rx[side]) = rx[side][1]
  BY <1>1, TailTyped
<1> QED BY <1>1, <1>2, TailTyped DEF AllBelong

\* An event of the RTC connection of a side, or a message that is delivered to it.
LEMMA RolesAtAppend ==
  ASSUME IInv, Roles, NEW side \in Sides, NEW event \in Events,
         id' = id, \A s \in Sides : OnLine(s)' = OnLine(s) \/
                       (OnLine(s) # << >> /\ OnLine(s)' = Tail(OnLine(s))),
         rx' = rx \/ rx' = [rx EXCEPT ![side] = Append(rx[side], event)],
         Belongs(event, side, local'),
         local' = local \/ local' = [local EXCEPT !["Downloader"] = "Offer"]
  PROVE  Roles'
<1>1. /\ local'["Downloader"] \in {local["Downloader"], "Offer"}
      /\ local'["Uploader"] = local["Uploader"]
  BY OtherSides DEF IInv, TypeOK
<1>2. ASSUME NEW s \in Sides PROVE Moved(rx[s], rx'[s], s, local')
  <2>1. rx'[s] = rx[s] \/ (s = side /\ rx'[s] = Append(rx[s], event))
    BY DEF IInv, TypeOK
  <2> QED BY <2>1 DEF Moved
<1>3. ASSUME NEW s \in Sides PROVE Moved(Wrapped(OnLine(s)), Wrapped(OnLine(s)'), s, local')
  <2>1. OnLine(s) \in Seq(Messages)
    BY LineTyped
  <2> QED BY <2>1, WrappedLine DEF Moved
<1> QED BY <1>1, <1>2, <1>3, MovedRoles DEF Roles

\* The step of a side that handles an event and says nothing, or something on the line.
LEMMA RolesAtTail ==
  ASSUME IInv, Roles, NEW side \in Sides, rx[side] # << >>,
         rx' = Dequeued(side), UNCHANGED <<id, local>>,
         \/ \A s \in Sides : OnLine(s)' = OnLine(s)
         \/ /\ Head(rx[side]).tag = "Outgoing"
            /\ \A s \in Sides : OnLine(s)' = IF s = Other(side)
                                              THEN Append(OnLine(s), Head(rx[side]).message)
                                              ELSE OnLine(s)
  PROVE  Roles'
<1> DEFINE h == Head(rx[side])
           o == Other(side)
<1>1. /\ h \in Events /\ Belongs(h, side, local) /\ h.message \in Messages
      /\ o \in Sides /\ Other(o) = side
  BY HeadBelongs, HeardTyped, OtherSides
<1>2. ASSUME NEW s \in Sides PROVE Moved(rx[s], rx'[s], s, local')
  <2>1. rx'[s] = rx[s] \/ (s = side /\ rx'[s] = Tail(rx[s]))
    BY DEF IInv, TypeOK, Dequeued, Set
  <2> QED BY <2>1 DEF Moved
<1>3. ASSUME NEW s \in Sides PROVE Moved(Wrapped(OnLine(s)), Wrapped(OnLine(s)'), s, local')
  <2>1. CASE OnLine(s)' = OnLine(s)
    BY <2>1 DEF Moved
  <2>2. CASE h.tag = "Outgoing" /\ s = o /\ OnLine(s)' = Append(OnLine(s), h.message)
    <3> DEFINE e == Incoming(h.message)
    <3>1. s = o /\ OnLine(s)' = Append(OnLine(s), h.message)
      BY <2>2
    <3>2. e \in Events /\ Belongs(e, o, local')
      <4>1. e \in Events /\ e.tag = "Incoming" /\ e.message = h.message
        BY <1>1, MessagesTyped DEF Incoming
      <4> QED BY <1>1, <2>2, <4>1 DEF Belongs, IsFrom, Describes
    <3>3. OnLine(s) \in Seq(Messages)
      BY LineTyped
    <3>4. Wrapped(Append(OnLine(s), h.message)) = Append(Wrapped(OnLine(s)), e)
      BY <1>1, <3>3, WrappedLine
    <3> HIDE DEF e, o, h
    <3> QED BY <3>1, <3>2, <3>4 DEF Moved
  <2> QED BY <2>1, <2>2
<1> QED BY <1>2, <1>3, MovedRoles DEF Roles

\* Only the side that uploads hears offers, and the answer is the first of a connection.
LEMMA OfferHeard ==
  ASSUME IInv, Roles, NEW side \in Sides, HearsOffer(side)
  PROVE  /\ side = "Uploader" /\ local[side] # "Offer" /\ local["Downloader"] # "None"
         /\ rx[side] # << >>
         /\ \A i \in 1..Len(Tail(rx[side])) : Tail(rx[side])[i] \notin Out(IdAfterOffer(side))
<1>1. rx[side] # << >> /\ Head(rx[side]).tag = "Incoming" /\ Head(rx[side]).message.tag = "Offer"
  BY DEF HearsOffer, HearsMessage, Hears
<1>2. Belongs(Head(rx[side]), side, local)
  BY <1>1, HeadBelongs
<1>3. side = "Uploader" /\ local["Downloader"] # "None"
  BY <1>1, <1>2 DEF Belongs, IsFrom, Other, Sides
<1>4. local[side] # "Offer"
  BY <1>3 DEF Roles
<1>5. ASSUME NEW i \in 1..Len(Tail(rx[side])), Tail(rx[side])[i] \in Out(IdAfterOffer(side))
      PROVE  FALSE
  <2>1. rx[side] \in Seq(Events) /\ id[side] \in Nat
    BY DEF IInv, TypeOK, Ids
  <2>2. PICK j \in 1..Len(rx[side]) : Tail(rx[side])[i] = rx[side][j]
    BY <1>1, <2>1, TailTyped
  <2>3. rx[side][j].tag = "Outgoing" /\ rx[side][j].id = IdAfterOffer(side)
    BY <1>5, <2>2 DEF Out
  <2>4. local[side] # "None"
    BY <2>3 DEF Roles, AllBelong, Belongs
  <2>5. rx[side][j].id <= id[side]
    BY <2>3 DEF IInv, QueuesAreTrue, QueueIsTrue, EventIsTrue
  <2> QED BY <2>1, <2>3, <2>4, <2>5, SMT DEF IdAfterOffer
<1> QED BY <1>1, <1>3, <1>4, <1>5

\* Only the side that downloads hears answers, and it has offered.
LEMMA AnswerHeard ==
  ASSUME IInv, Roles, NEW side \in Sides, HearsAnswer(side)
  PROVE  /\ side = "Downloader" /\ local[side] = "Offer" /\ rx[side] # << >>
         /\ Head(rx[side]) \in In /\ Describes(Head(rx[side]))
<1>1. rx[side] # << >> /\ Head(rx[side]).tag = "Incoming" /\ Head(rx[side]).message.tag = "Answer"
  BY DEF HearsAnswer, HearsMessage, Hears
<1>2. Belongs(Head(rx[side]), side, local) /\ Head(rx[side]) \in Events
  BY <1>1, HeadBelongs
<1>3. side = "Downloader" /\ local["Uploader"] # "None"
  BY <1>1, <1>2 DEF Belongs, IsFrom, Other, Sides
<1>4. local[side] = "Offer"
  BY <1>3 DEF Roles
<1> QED BY <1>1, <1>2, <1>3, <1>4 DEF In, Describes

\* Every step keeps the roles: offers from the one side, answers from the other.
LEMMA RolesStep ==
  ASSUME IInv, Roles, [Next]_vars
  PROVE  Roles'
<1>1. CASE UNCHANGED vars
  BY <1>1, LineKept DEF vars, connections, signaling, Roles
<1>2. CASE CreateOffer
  <2> DEFINE e == Outgoing(0, Description("Offer", 0))
  <2>1. /\ UNCHANGED <<id, line, pending>> /\ local' = [local EXCEPT !["Downloader"] = "Offer"]
        /\ rx' = rx \/ rx' = [rx EXCEPT !["Downloader"] = Append(rx["Downloader"], e)]
    BY <1>2 DEF CreateOffer, signaling, Set
  <2>2. e \in Events
    BY MessagesTyped
  <2>3. Belongs(e, "Downloader", local')
    <3>1. local'["Downloader"] = "Offer"
      BY <2>1, OtherSides DEF IInv, TypeOK
    <3> QED BY <3>1 DEF Belongs, IsFrom, Outgoing, Description, Describes
  <2> HIDE DEF e
  <2> QED BY <2>1, <2>2, <2>3, LineKept, OtherSides, RolesAtAppend
<1>3. ASSUME NEW side \in Sides, Gathers(side) PROVE Roles'
  <2> DEFINE e == Outgoing(id[side], Candidate(id[side], gathered[side] + 1 = MaxCandidates))
  <2>1. /\ UNCHANGED <<id, line, pending, local>> /\ local[side] # "None"
        /\ rx' = [rx EXCEPT ![side] = Append(rx[side], e)]
    BY <1>3 DEF Gathers, signaling, Set
  <2>2. e \in Events
    BY MessagesTyped DEF IInv, TypeOK, Ids
  <2>3. Belongs(e, side, local')
    BY <2>1 DEF Belongs, IsFrom, Outgoing, Candidate, Describes
  <2> HIDE DEF e
  <2> QED BY <2>1, <2>2, <2>3, LineKept, RolesAtAppend
<1>4. ASSUME NEW side \in Sides, Opens(side) PROVE Roles'
  <2> DEFINE e == Opened(id[side])
  <2>1. /\ UNCHANGED <<id, line, pending, local>>
        /\ rx' = [rx EXCEPT ![side] = Append(rx[side], e)]
    BY <1>4 DEF Opens, signaling, Set
  <2>2. e \in Events
    BY MessagesTyped DEF IInv, TypeOK, Ids
  <2>3. Belongs(e, side, local')
    BY DEF Belongs, Opened
  <2> HIDE DEF e
  <2> QED BY <2>1, <2>2, <2>3, LineKept, RolesAtAppend
<1>5. ASSUME NEW side \in Sides, Delivers(side) PROVE Roles'
  <2> DEFINE e == Incoming(Head(line[side]))
  <2>1. /\ UNCHANGED <<id, local, pending>> /\ line[side] # << >>
        /\ line' = [line EXCEPT ![side] = Tail(line[side])]
        /\ rx' = [rx EXCEPT ![side] = Append(rx[side], e)]
    BY <1>5 DEF Delivers, connections, Set
  <2>2. /\ OnLine(side) # << >> /\ Head(OnLine(side)) = Head(line[side])
        /\ OnLine(side)' = Tail(OnLine(side)) /\ OnLine(Other(side))' = OnLine(Other(side))
    BY <2>1, LineTaken
  <2>3. /\ OnLine(side) \in Seq(Messages) /\ Head(line[side]) \in Messages
        /\ Wrapped(OnLine(side)) \in Seq(Events)
    BY <2>2, LineTyped, TailTyped
  <2>4. e \in Events /\ e = Head(Wrapped(OnLine(side))) /\ Wrapped(OnLine(side)) # << >>
    BY <2>2, <2>3, WrappedLine, MessagesTyped
  <2>5. Belongs(e, side, local')
    <3> HIDE DEF e
    <3>1. AllBelong(Wrapped(OnLine(side)), side, local)
      BY DEF Roles
    <3>2. 1 \in 1..Len(Wrapped(OnLine(side))) /\ e = Wrapped(OnLine(side))[1]
      BY <2>3, <2>4, TailTyped
    <3> QED BY <2>1, <3>1, <3>2 DEF AllBelong
  <2>6. \A s \in Sides : OnLine(s)' = OnLine(s) \/ (OnLine(s) # << >> /\ OnLine(s)' = Tail(OnLine(s)))
    BY <2>2, OtherSides
  <2> HIDE DEF e
  <2> QED BY <2>1, <2>4, <2>5, <2>6, RolesAtAppend
<1>6. ASSUME NEW side \in Sides, Loses(side) PROVE Roles'
  <2>1. /\ UNCHANGED <<id, local, rx, pending>> /\ line[side] # << >>
        /\ line' = [line EXCEPT ![side] = Tail(line[side])]
    BY <1>6 DEF Loses, connections, Set
  <2>2. \A s \in Sides : OnLine(s)' = OnLine(s) \/ (OnLine(s) # << >> /\ OnLine(s)' = Tail(OnLine(s)))
    BY <2>1, LineTaken, OtherSides
  <2>3. Opened(0) \in Events /\ Belongs(Opened(0), side, local')
    BY MessagesTyped DEF Belongs, Opened
  <2> QED BY <2>1, <2>2, <2>3, RolesAtAppend
<1>7. ASSUME UNCHANGED <<connections, rx, line, pending>> PROVE Roles'
  BY <1>7, LineKept DEF connections, Roles
<1>8. ASSUME NEW side \in Sides,
             \/ DropsOldEvent(side) \/ DropsEmpty(side) \/ HearsOpened(side)
             \/ HearsAnswer(side) \/ HearsCandidate(side) \/ Refuses(side)
      PROVE  Roles'
  <2>1. rx[side] # << >> /\ rx' = Dequeued(side) /\ UNCHANGED <<id, local, line, pending>>
    BY <1>8 DEF DropsOldEvent, DropsEmpty, HearsOpened, HearsAnswer, HearsCandidate, Refuses,
       HearsMessage, Hears, connections, signaling
  <2> QED BY <2>1, LineKept, RolesAtTail
<1>9. ASSUME NEW side \in Sides, Signals(side) PROVE Roles'
  <2>1. /\ rx[side] # << >> /\ rx' = Dequeued(side) /\ UNCHANGED <<id, local>>
        /\ Head(rx[side]).tag = "Outgoing"
    BY <1>9 DEF Signals, Hears, connections
  <2> QED BY <1>9, <2>1, LineSent, RolesAtTail
<1>10. ASSUME NEW side \in Sides, HearsOffer(side) PROVE Roles'
  <2> DEFINE e == Outgoing(HandlerId(side), Description("Answer", IdAfterOffer(side)))
  <2>1. side = "Uploader" /\ local[side] # "Offer" /\ local["Downloader"] # "None" /\ rx[side] # << >>
    BY <1>10, OfferHeard
  <2>2. /\ id' = [id EXCEPT ![side] = IdAfterOffer(side)]
        /\ local' = [local EXCEPT ![side] = "Answer"]
        /\ rx' = [rx EXCEPT ![side] = Append(Tail(rx[side]), e)]
        /\ UNCHANGED <<line, pending>>
    BY <1>10, <2>1 DEF HearsOffer, signaling, Set
  <2>3. /\ id'["Downloader"] = 0 /\ local'["Downloader"] = local["Downloader"]
        /\ local'["Uploader"] = "Answer"
    BY <2>1, <2>2, OtherSides DEF IInv, TypeOK, Roles
  <2>4. e \in Events
    BY MessagesTyped DEF IInv, TypeOK, Ids, HandlerId, IdAfterOffer
  <2>5. Belongs(e, side, local')
    BY <2>1, <2>3 DEF Belongs, IsFrom, Outgoing, Description, Describes
  <2> HIDE DEF e
  <2>6. ASSUME NEW s \in Sides PROVE Moved(rx[s], rx'[s], s, local')
    <3>1. rx'[s] = rx[s] \/ (s = side /\ rx'[s] = Append(Tail(rx[s]), e))
      BY <2>2 DEF IInv, TypeOK
    <3> QED BY <2>1, <2>4, <2>5, <3>1 DEF Moved
  <2>7. \A s \in Sides : Moved(Wrapped(OnLine(s)), Wrapped(OnLine(s)'), s, local')
    BY <2>2, LineKept DEF Moved
  <2> QED BY <2>1, <2>3, <2>6, <2>7, MovedRoles
<1>11. CASE \/ CreateOfferFails \/ ConnectReturns
            \/ \E side \in Sides : Interrupted(side)
  BY <1>7, <1>11 DEF CreateOfferFails, ConnectReturns, Interrupted, signaling
<1> QED BY <1>1, <1>2, <1>3, <1>4, <1>5, <1>6, <1>8, <1>9, <1>10, <1>11 DEF Next, Handles

-----------------------------------------------------------------------------
(* An offer, or its answer, passes once. *)

\* What the parts of the way to a side are.
LEMMA WayTyped ==
  ASSUME IInv, NEW s \in Sides
  PROVE  /\ remote[s] \in Int /\ id[s] \in Nat /\ rx[s] \in Seq(Events)
         /\ OnLine(s) \in Seq(Messages) /\ Wrapped(OnLine(s)) \in Seq(Events)
         /\ \A S : \A q \in Seq(Events) : Connections(q, S) \subseteq Int
<1>1. /\ remote[s] \in Int /\ id[s] \in Nat /\ rx[s] \in Seq(Events)
  BY DEF IInv, TypeOK, Ids, NoRemote
<1>2. ASSUME NEW q \in Seq(Events), NEW S PROVE Connections(q, S) \subseteq Int
  <2>1. \A i \in 1..Len(q) : q[i] \in Events
    OBVIOUS
  <2>2. \A e \in Events : Of(e) \in Int
    BY DEF Events, Messages, Ids, Of
  <2> QED BY <2>1, <2>2 DEF Connections
<1> QED BY <1>1, <1>2, LineTyped

\* An event is taken from a queue, or put behind it.
LEMMA QuietOrOnce ==
  ASSUME NEW q \in Seq(Events)
  PROVE  /\ q # << >> =>
              /\ Quiet(q) => Quiet(Tail(q)) /\ ~Asks(Head(q))
              /\ Once(q) => Once(Tail(q)) /\ (Asks(Head(q)) => Quiet(Tail(q)))
         /\ \A e \in Events :
              /\ Quiet(q) => Once(Append(q, e)) /\ (~Asks(e) => Quiet(Append(q, e)))
              /\ Once(q) /\ ~Asks(e) => Once(Append(q, e))
<1>1. ASSUME q # << >>
      PROVE  /\ Quiet(q) => Quiet(Tail(q)) /\ ~Asks(Head(q))
             /\ Once(q) => Once(Tail(q)) /\ (Asks(Head(q)) => Quiet(Tail(q)))
  <2> DEFINE t == Tail(q)
             h == Head(q)
             n == Len(t)
  <2>1. /\ h = q[1] /\ 1 \in 1..Len(q) /\ n \in Nat
        /\ \A i \in 1..n : t[i] = q[i + 1] /\ i + 1 \in 1..Len(q)
    BY <1>1, TailTyped, LenProperties
  <2>2. \A i, j \in 1..n : (i + 1 = j + 1 => i = j) /\ 1 # i + 1
    BY <2>1, SMT
  <2> HIDE DEF t, h, n
  <2>3. Quiet(q) => Quiet(t) /\ ~Asks(h)
    BY <2>1 DEF Quiet, n
  <2>4. Once(q) => Once(t)
    BY <2>1, <2>2 DEF Once, n
  <2>5. Once(q) /\ Asks(h) => Quiet(t)
    BY <2>1, <2>2 DEF Once, Quiet, n
  <2> QED BY <2>3, <2>4, <2>5 DEF t, h
<1>2. ASSUME NEW e \in Events
      PROVE  /\ Quiet(q) => Once(Append(q, e)) /\ (~Asks(e) => Quiet(Append(q, e)))
             /\ Once(q) /\ ~Asks(e) => Once(Append(q, e))
  <2> DEFINE r == Append(q, e)
             n == Len(q)
  <2>1. /\ Len(r) = n + 1 /\ n \in Nat /\ r[n + 1] = e
        /\ \A i \in 1..n : r[i] = q[i]
    BY AppendTyped, LenProperties
  <2>2. \A i \in 1..(n + 1) : i \in 1..n \/ i = n + 1
    BY <2>1, SMT
  <2> HIDE DEF r, n
  <2>3. Quiet(q) => \A i \in 1..Len(r) : Asks(r[i]) => i = n + 1 /\ Asks(e)
    BY <2>1, <2>2 DEF Quiet, n
  <2>4. Quiet(q) => Once(r) /\ (~Asks(e) => Quiet(r))
    BY <2>3 DEF Quiet, Once
  <2>5. ~Asks(e) => \A i \in 1..Len(r) : Asks(r[i]) => i \in 1..n /\ Asks(q[i])
    BY <2>1, <2>2
  <2>6. Once(q) /\ ~Asks(e) => Once(r)
    BY <2>5 DEF Once, n
  <2> QED BY <2>4, <2>6 DEF r
<1> QED BY <1>1, <1>2

\* The one description on the way is taken from it, or some other event.
LEMMA WayTaken ==
  ASSUME NEW way \in [Places -> Seq(Events)], NEW waits, NEW p \in Places, way[p] # << >>,
         NEW after, after[p] = Tail(way[p]), \A q \in Places \ {p} : after[q] = way[q],
         OneAtMost(way, waits)
  PROVE  OneAtMost(after, waits) /\ (Asks(Head(way[p])) => waits /\ AllQuiet(after))
<1>1. /\ Quiet(way[p]) => Quiet(after[p]) /\ ~Asks(Head(way[p]))
      /\ Once(way[p]) => Once(after[p]) /\ (Asks(Head(way[p])) => Quiet(after[p]))
  BY QuietOrOnce
<1>2. CASE AllQuiet(way)
  <2>1. AllQuiet(after) /\ ~Asks(Head(way[p]))
    BY <1>1, <1>2 DEF AllQuiet
  <2> QED BY <2>1 DEF OneAtMost
<1>3. CASE waits /\ \E o \in Places : Once(way[o]) /\ \A q \in Places \ {o} : Quiet(way[q])
  <2>1. PICK o \in Places : Once(way[o]) /\ \A q \in Places \ {o} : Quiet(way[q])
    BY <1>3
  <2>2. CASE o = p
    <3>1. Once(after[p]) /\ \A q \in Places \ {p} : Quiet(after[q])
      BY <1>1, <2>1, <2>2
    <3>2. Asks(Head(way[p])) => AllQuiet(after)
      BY <1>1, <2>1, <2>2, <3>1 DEF AllQuiet
    <3> QED BY <1>3, <3>1, <3>2 DEF OneAtMost
  <2>3. CASE o # p
    <3>1. Quiet(way[p]) /\ after[o] = way[o]
      BY <2>1, <2>3
    <3>2. Once(after[o]) /\ \A q \in Places \ {o} : Quiet(after[q])
      BY <1>1, <2>1, <3>1
    <3> QED BY <1>1, <1>3, <3>1, <3>2 DEF OneAtMost
  <2> QED BY <2>2, <2>3
<1> QED BY <1>2, <1>3 DEF OneAtMost

\* An event is put on the way; a description only where none is.
LEMMA WayPut ==
  ASSUME NEW way \in [Places -> Seq(Events)], NEW waits, NEW p \in Places, NEW e \in Events,
         NEW after, after[p] = Append(way[p], e), \A q \in Places \ {p} : after[q] = way[q],
         OneAtMost(way, waits), Asks(e) => waits /\ AllQuiet(way)
  PROVE  OneAtMost(after, waits)
<1>1. /\ Quiet(way[p]) => Once(after[p]) /\ (~Asks(e) => Quiet(after[p]))
      /\ Once(way[p]) /\ ~Asks(e) => Once(after[p])
  BY QuietOrOnce
<1>2. CASE AllQuiet(way)
  <2>1. CASE Asks(e)
    <3>1. Once(after[p]) /\ \A q \in Places \ {p} : Quiet(after[q])
      BY <1>1, <1>2 DEF AllQuiet
    <3> QED BY <2>1, <3>1 DEF OneAtMost
  <2>2. CASE ~Asks(e)
    <3>1. AllQuiet(after)
      BY <1>1, <1>2, <2>2 DEF AllQuiet
    <3> QED BY <3>1 DEF OneAtMost
  <2> QED BY <2>1, <2>2
<1>3. CASE waits /\ ~Asks(e) /\ \E o \in Places : Once(way[o]) /\ \A q \in Places \ {o} : Quiet(way[q])
  <2>1. PICK o \in Places : Once(way[o]) /\ \A q \in Places \ {o} : Quiet(way[q])
    BY <1>3
  <2>2. Once(after[o]) /\ \A q \in Places \ {o} : Quiet(after[q])
    BY <1>1, <1>3, <2>1
  <2> QED BY <1>3, <2>2 DEF OneAtMost
<1> QED BY <1>2, <1>3 DEF OneAtMost

\* An event is taken from one queue, and another one put behind the next.
Passes(way, after, p, o, e) ==
    /\ after[p] = Tail(way[p]) /\ after[o] = Append(way[o], e)
    /\ \A q \in Places \ {o, p} : after[q] = way[q]
    /\ Asks(e) => Asks(Head(way[p]))

LEMMA WayPassed ==
  ASSUME NEW way \in [Places -> Seq(Events)], NEW waits, NEW p \in Places, way[p] # << >>,
         NEW o \in Places, o # p, NEW e \in Events, NEW after,
         Passes(way, after, p, o, e), OneAtMost(way, waits)
  PROVE  OneAtMost(after, waits)
<1> USE DEF Passes
<1> DEFINE mid == [way EXCEPT ![p] = Tail(way[p])]
<1>1. mid \in [Places -> Seq(Events)] /\ mid[p] = Tail(way[p]) /\ \A q \in Places \ {p} : mid[q] = way[q]
  BY TailTyped
<1>2. after[o] = Append(mid[o], e) /\ \A q \in Places \ {o} : after[q] = mid[q]
  BY <1>1
<1> HIDE DEF mid
<1>3. OneAtMost(mid, waits) /\ (Asks(Head(way[p])) => waits /\ AllQuiet(mid))
  BY <1>1, WayTaken
<1>4. Asks(e) => waits /\ AllQuiet(mid)
  BY <1>3, Zenon
<1>5. mid \in [Places -> Seq(Events)] /\ o \in Places /\ e \in Events /\ OneAtMost(mid, waits)
  BY <1>1, <1>3
<1> QED BY ONLY <1>2, <1>4, <1>5, WayPut

\* An event is taken from a queue, and another one put behind the rest.
LEMMA WayAnswered ==
  ASSUME NEW way \in [Places -> Seq(Events)], NEW waits, NEW p \in Places, way[p] # << >>,
         NEW e \in Events, NEW after, after[p] = Append(Tail(way[p]), e),
         \A q \in Places \ {p} : after[q] = way[q],
         OneAtMost(way, waits), Asks(e) => Asks(Head(way[p]))
  PROVE  OneAtMost(after, waits)
<1> DEFINE mid == [way EXCEPT ![p] = Tail(way[p])]
<1>1. mid \in [Places -> Seq(Events)] /\ mid[p] = Tail(way[p]) /\ \A q \in Places \ {p} : mid[q] = way[q]
  BY TailTyped
<1>2. after[p] = Append(mid[p], e) /\ \A q \in Places \ {p} : after[q] = mid[q]
  BY <1>1
<1> HIDE DEF mid
<1>3. OneAtMost(mid, waits) /\ (Asks(Head(way[p])) => waits /\ AllQuiet(mid))
  BY <1>1, WayTaken
<1>4. Asks(e) => waits /\ AllQuiet(mid)
  BY <1>3, Zenon
<1>5. mid \in [Places -> Seq(Events)] /\ p \in Places /\ e \in Events /\ OneAtMost(mid, waits)
  BY <1>1, <1>3
<1> QED BY ONLY <1>2, <1>4, <1>5, WayPut

\* The places on the way, and what is there before and after a step.
LEMMA WayIs ==
  /\ \A s \in Sides : /\ <<"rx", s>> \in Places /\ <<"line", s>> \in Places
                      /\ Way[<<"rx", s>>] = rx[s] /\ Way[<<"line", s>>] = Wrapped(OnLine(s))
                      /\ Way'[<<"rx", s>>] = rx'[s] /\ Way'[<<"line", s>>] = Wrapped(OnLine(s)')
  /\ \A p \in Places : \E s \in Sides : p = <<"rx", s>> \/ p = <<"line", s>>
  /\ \A s, t \in Sides : /\ <<"rx", s>> # <<"line", t>>
                         /\ s # t => <<"rx", s>> # <<"rx", t>> /\ <<"line", s>> # <<"line", t>>
BY DEF Way, Places

LEMMA WayIsTyped == IInv => Way \in [Places -> Seq(Events)]
<1> SUFFICES ASSUME IInv, NEW p \in Places PROVE Way[p] \in Seq(Events)
  BY DEF Way
<1>1. PICK s \in Sides : p = <<"rx", s>> \/ p = <<"line", s>>
  BY WayIs
<1>2. rx[s] \in Seq(Events) /\ Wrapped(OnLine(s)) \in Seq(Events)
  BY WayTyped
<1>3. Way[<<"rx", s>>] = rx[s] /\ Way[<<"line", s>>] = Wrapped(OnLine(s))
  BY WayIs
<1> QED BY <1>1, <1>2, <1>3

\* A side takes an event from its queue.
LEMMA SingleAtTail ==
  ASSUME IInv, OneAtMost(Way, Waits), NEW side \in Sides, rx[side] # << >>, rx' = Dequeued(side),
         \A s \in Sides : OnLine(s)' = OnLine(s)
  PROVE  /\ OneAtMost(Way', Waits)
         /\ Asks(Head(rx[side])) => Waits /\ AllQuiet(Way')
<1> DEFINE p == <<"rx", side>>
<1>1. p \in Places /\ Way[p] = rx[side]
  BY WayIs
<1>2. \A s \in Sides : rx'[s] = IF s = side THEN Tail(rx[side]) ELSE rx[s]
  BY DEF Dequeued, Set, IInv, TypeOK
<1>3. Way'[p] = Tail(Way[p])
  BY <1>1, <1>2, WayIs
<1>4. ASSUME NEW q \in Places \ {p} PROVE Way'[q] = Way[q]
  <2>1. PICK s \in Sides : q = <<"rx", s>> \/ q = <<"line", s>>
    BY WayIs
  <2>2. CASE q = <<"rx", s>>
    <3>1. s # side
      BY <2>2
    <3> QED BY <1>2, <2>2, <3>1, WayIs
  <2>3. CASE q = <<"line", s>>
    <3>1. Way'[<<"line", s>>] = Wrapped(OnLine(s)') /\ Way[<<"line", s>>] = Wrapped(OnLine(s))
      BY WayIs
    <3>2. Wrapped(OnLine(s)') = Wrapped(OnLine(s))
      OBVIOUS
    <3> QED BY <2>3, <3>1, <3>2
  <2> QED BY <2>1, <2>2, <2>3
<1> HIDE DEF p
<1>5. OneAtMost(Way', Waits) /\ (Asks(Head(Way[p])) => Waits /\ AllQuiet(Way'))
  BY <1>1, <1>3, <1>4, WayIsTyped, WayTaken
<1> QED BY <1>1, <1>5

\* An event of its RTC connection is put in the queue of a side.
LEMMA SingleAtAppend ==
  ASSUME IInv, NEW waits, OneAtMost(Way, waits), NEW side \in Sides, NEW e \in Events,
         rx' = [rx EXCEPT ![side] = Append(rx[side], e)],
         \A s \in Sides : OnLine(s)' = OnLine(s), Asks(e) => waits /\ AllQuiet(Way)
  PROVE  OneAtMost(Way', waits)
<1> DEFINE p == <<"rx", side>>
<1>1. p \in Places /\ Way[p] = rx[side]
  BY WayIs
<1>2. \A s \in Sides : rx'[s] = IF s = side THEN Append(rx[side], e) ELSE rx[s]
  BY DEF IInv, TypeOK
<1>3. Way'[p] = Append(Way[p], e)
  BY <1>1, <1>2, WayIs
<1>4. ASSUME NEW q \in Places \ {p} PROVE Way'[q] = Way[q]
  <2>1. PICK s \in Sides : q = <<"rx", s>> \/ q = <<"line", s>>
    BY WayIs
  <2>2. CASE q = <<"rx", s>>
    <3>1. s # side
      BY <2>2
    <3> QED BY <1>2, <2>2, <3>1, WayIs
  <2>3. CASE q = <<"line", s>>
    <3>1. Way'[<<"line", s>>] = Wrapped(OnLine(s)') /\ Way[<<"line", s>>] = Wrapped(OnLine(s))
      BY WayIs
    <3>2. Wrapped(OnLine(s)') = Wrapped(OnLine(s))
      OBVIOUS
    <3> QED BY <2>3, <3>1, <3>2
  <2> QED BY <2>1, <2>2, <2>3
<1> HIDE DEF p
<1> QED BY <1>1, <1>3, <1>4, WayIsTyped, WayPut

\* No step puts an offer on the way while another one, or its answer, is there, except
\* for that of the web client that offers again.
LEMMA SingleStep ==
  ASSUME IInv, Roles, Single, [Next]_vars
  PROVE  Single'
<1> SUFFICES ASSUME ~doubled' PROVE OneAtMost(Way', Waits')
  BY DEF Single
<1> USE OtherSides
<1>1. ~doubled /\ OneAtMost(Way, Waits)
  <2>1. doubled => doubled'
    BY Zenon DEF Next, Handles, vars, CreateOffer, CreateOfferFails, ConnectReturns, Gathers, Opens,
       DropsOldEvent, DropsEmpty, Signals, HearsOpened, HearsOffer, HearsAnswer, HearsCandidate,
       Refuses, Interrupted, Delivers, Loses
  <2> QED BY <2>1 DEF Single
<1>2. ASSUME UNCHANGED <<connections, rx, line, pending>> PROVE OneAtMost(Way', Waits')
  <2>1. Way' = Way /\ Waits' = Waits
    BY <1>2 DEF connections, Way, OnLine, Waits
  <2> QED BY <1>1, <2>1 DEF OneAtMost, AllQuiet
<1>3. CASE CreateOffer
  <2> DEFINE e == Outgoing(0, Description("Offer", 0))
  <2>1. Waits' /\ UNCHANGED <<line, pending>>
    BY <1>3 DEF CreateOffer, signaling, Waits, Set, IInv, TypeOK
  <2>2. CASE IsIgnored
    <3>1. rx' = rx /\ Waits
      BY <1>3, <2>2 DEF CreateOffer, IsIgnored
    <3>2. Way' = Way
      BY <2>1, <3>1 DEF Way, OnLine
    <3> QED BY <1>1, <2>1, <3>1, <3>2 DEF OneAtMost, AllQuiet
  <2>3. CASE ~IsIgnored
    <3>1. ~Waits /\ rx' = [rx EXCEPT !["Downloader"] = Append(rx["Downloader"], e)]
      BY <1>3, <2>3 DEF CreateOffer, Set
    <3>2. AllQuiet(Way)
      BY <1>1, <3>1 DEF OneAtMost
    <3>3. OneAtMost(Way, TRUE) /\ e \in Events
      BY <3>2, MessagesTyped DEF OneAtMost
    <3> HIDE DEF e
    <3>4. OneAtMost(Way', TRUE)
      BY <2>1, <3>1, <3>2, <3>3, LineKept, SingleAtAppend
    <3> QED BY <2>1, <3>4 DEF OneAtMost
  <2> QED BY <2>2, <2>3
<1>4. ASSUME NEW side \in Sides, Gathers(side) PROVE OneAtMost(Way', Waits')
  <2> DEFINE e == Outgoing(id[side], Candidate(id[side], gathered[side] + 1 = MaxCandidates))
  <2>1. /\ rx' = [rx EXCEPT ![side] = Append(rx[side], e)]
        /\ UNCHANGED <<local, stable, line, pending>>
    BY <1>4 DEF Gathers, signaling, Set
  <2>2. e \in Events /\ ~Asks(e)
    <3>1. e \in Events
      BY WayTyped, MessagesTyped
    <3> QED BY <3>1 DEF Asks, Outgoing, Candidate, Describes
  <2> HIDE DEF e
  <2>3. OneAtMost(Way', Waits)
    BY <1>1, <2>1, <2>2, LineKept, SingleAtAppend
  <2> QED BY <2>1, <2>3 DEF Waits
<1>5. ASSUME NEW side \in Sides, Opens(side) PROVE OneAtMost(Way', Waits')
  <2> DEFINE e == Opened(id[side])
  <2>1. /\ rx' = [rx EXCEPT ![side] = Append(rx[side], e)]
        /\ UNCHANGED <<local, stable, line, pending>>
    BY <1>5 DEF Opens, signaling, Set
  <2>2. e \in Events /\ ~Asks(e)
    <3>1. e \in Events
      BY WayTyped, MessagesTyped
    <3> QED BY <3>1 DEF Asks, Opened
  <2> HIDE DEF e
  <2>3. OneAtMost(Way', Waits)
    BY <1>1, <2>1, <2>2, LineKept, SingleAtAppend
  <2> QED BY <2>1, <2>3 DEF Waits
<1>6. ASSUME NEW side \in Sides,
             \/ DropsOldEvent(side) \/ DropsEmpty(side) \/ HearsOpened(side)
             \/ HearsCandidate(side) \/ Refuses(side)
      PROVE  OneAtMost(Way', Waits')
  <2>1. rx[side] # << >> /\ rx' = Dequeued(side) /\ UNCHANGED <<local, stable, line, pending>>
    BY <1>6 DEF DropsOldEvent, DropsEmpty, HearsOpened, HearsCandidate, Refuses,
       HearsMessage, Hears, connections, signaling
  <2>2. OneAtMost(Way', Waits)
    BY <1>1, <2>1, LineKept, SingleAtTail
  <2> QED BY <2>1, <2>2 DEF Waits
<1>7. ASSUME NEW side \in Sides, HearsAnswer(side) PROVE OneAtMost(Way', Waits')
  <2>1. /\ rx[side] # << >> /\ Head(rx[side]) \in In /\ Describes(Head(rx[side]))
        /\ rx' = Dequeued(side) /\ UNCHANGED <<line, pending>>
    BY <1>7, AnswerHeard DEF HearsAnswer, signaling
  <2>2. Asks(Head(rx[side]))
    BY <2>1 DEF Asks, In
  <2>3. AllQuiet(Way')
    BY <1>1, <2>1, <2>2, LineKept, SingleAtTail
  <2> QED BY <2>3 DEF OneAtMost
<1>8. ASSUME NEW side \in Sides, Signals(side) PROVE OneAtMost(Way', Waits')
  <2> DEFINE h == Head(rx[side])
             e == Incoming(h.message)
             p == <<"rx", side>>
             o == <<"line", Other(side)>>
  <2>1. /\ rx[side] # << >> /\ rx' = [rx EXCEPT ![side] = Tail(rx[side])]
        /\ h.tag = "Outgoing" /\ UNCHANGED <<local, stable>>
    BY <1>8 DEF Signals, Hears, connections, Dequeued, Set
  <2>2. e \in Events /\ h.message \in Messages /\ (Asks(e) => Asks(h))
    <3>1. h.message \in Messages
      BY <2>1, HeardTyped
    <3> QED BY <2>1, <3>1, MessagesTyped DEF Asks, Describes, Incoming
  <2>3. \A s \in Sides : /\ rx'[s] = IF s = side THEN Tail(rx[side]) ELSE rx[s]
                         /\ Wrapped(OnLine(s)') = IF s = Other(side) THEN Append(Wrapped(OnLine(s)), e)
                                                  ELSE Wrapped(OnLine(s))
    <3> SUFFICES ASSUME NEW s \in Sides
                 PROVE  /\ rx'[s] = IF s = side THEN Tail(rx[side]) ELSE rx[s]
                        /\ Wrapped(OnLine(s)') = IF s = Other(side) THEN Append(Wrapped(OnLine(s)), e)
                                                 ELSE Wrapped(OnLine(s))
      OBVIOUS
    <3>1. rx'[s] = IF s = side THEN Tail(rx[side]) ELSE rx[s]
      BY <2>1 DEF IInv, TypeOK
    <3>2. OnLine(s)' = IF s = Other(side) THEN Append(OnLine(s), h.message) ELSE OnLine(s)
      BY <1>8, LineSent
    <3>3. OnLine(s) \in Seq(Messages)
      BY WayTyped
    <3>4. Wrapped(Append(OnLine(s), h.message)) = Append(Wrapped(OnLine(s)), e)
      BY <2>2, <3>3, WrappedLine
    <3> HIDE DEF e, h
    <3> QED BY <3>1, <3>2, <3>4
  <2>4. p \in Places /\ o \in Places /\ o # p /\ Way[p] = rx[side]
    BY WayIs
  <2>5. Way'[o] = Append(Way[o], e)
    BY <2>3, WayIs
  <2>6. ASSUME NEW q \in Places \ {o, p} PROVE Way'[q] = Way[q]
    <3>1. PICK s \in Sides : q = <<"rx", s>> \/ q = <<"line", s>>
      BY WayIs
    <3>2. CASE q = <<"rx", s>>
      <4>1. s # side /\ Way'[<<"rx", s>>] = rx'[s] /\ Way[<<"rx", s>>] = rx[s]
        BY <3>2, WayIs
      <4> QED BY <2>3, <3>2, <4>1
    <3>3. CASE q = <<"line", s>>
      <4>1. s # Other(side)
        BY <3>3
      <4>2. Way'[<<"line", s>>] = Wrapped(OnLine(s)') /\ Way[<<"line", s>>] = Wrapped(OnLine(s))
        BY WayIs
      <4>3. Wrapped(OnLine(s)') = Wrapped(OnLine(s))
        BY <2>3, <4>1
      <4> QED BY <3>3, <4>1, <4>2, <4>3
    <3> QED BY <3>1, <3>2, <3>3
  <2> HIDE DEF e, h, o, p
  <2>7. Way'[p] = Tail(Way[p])
    <3>1. Way'[p] = rx'[side]
      BY WayIs DEF p
    <3> QED BY <2>3, <2>4, <3>1
  <2>8. Asks(e) => Asks(Head(Way[p]))
    BY <2>2, <2>4 DEF h
  <2>9. Way \in [Places -> Seq(Events)] /\ Way[p] # << >> /\ e \in Events
    BY <2>1, <2>2, <2>4, WayIsTyped
  <2>10. \A q \in Places \ {o, p} : Way'[q] = Way[q]
    BY <2>6
  <2>11. OneAtMost(Way', Waits)
    <3>1. Passes(Way, Way', p, o, e)
      BY <2>5, <2>7, <2>8, <2>10 DEF Passes
    <3> QED BY ONLY <1>1, <2>4, <2>9, <3>1, WayPassed
  <2> QED BY <2>1, <2>11 DEF Waits
<1>9. ASSUME NEW side \in Sides, HearsOffer(side) PROVE OneAtMost(Way', Waits')
  <2> DEFINE h == Head(rx[side])
             e == Outgoing(HandlerId(side), Description("Answer", IdAfterOffer(side)))
             p == <<"rx", side>>
  <2>1. side = "Uploader" /\ local[side] # "Offer" /\ rx[side] # << >>
    BY <1>9, OfferHeard
  <2>2. /\ rx' = [rx EXCEPT ![side] = Append(Tail(rx[side]), e)]
        /\ local' = [local EXCEPT ![side] = "Answer"] /\ stable' = [stable EXCEPT ![side] = TRUE]
        /\ UNCHANGED <<line, pending>> /\ h.tag = "Incoming" /\ h.message.tag = "Offer"
    BY <1>9, <2>1 DEF HearsOffer, HearsMessage, Hears, signaling, Set
  <2>3. e \in Events /\ (Asks(e) => Asks(h))
    <3>1. e \in Events
      BY MessagesTyped, WayTyped DEF HandlerId, IdAfterOffer
    <3>2. Asks(h)
      BY <2>2 DEF Asks, Describes
    <3> QED BY <3>1, <3>2
  <2>4. p \in Places /\ Way[p] = rx[side] /\ Way'[p] = rx'[side]
    BY WayIs
  <2> HIDE DEF e
  <2>5. rx'[side] = Append(Tail(rx[side]), e) /\ \A s \in Sides \ {side} : rx'[s] = rx[s]
    BY <2>2 DEF IInv, TypeOK
  <2>6. ASSUME NEW q \in Places \ {p} PROVE Way'[q] = Way[q]
    <3>1. PICK s \in Sides : q = <<"rx", s>> \/ q = <<"line", s>>
      BY WayIs
    <3>2. CASE q = <<"rx", s>>
      <4>1. s # side /\ Way'[<<"rx", s>>] = rx'[s] /\ Way[<<"rx", s>>] = rx[s]
        BY <3>2, WayIs
      <4> QED BY <2>5, <3>2, <4>1
    <3>3. CASE q = <<"line", s>>
      <4>1. Way'[<<"line", s>>] = Wrapped(OnLine(s)') /\ Way[<<"line", s>>] = Wrapped(OnLine(s))
        BY WayIs
      <4>2. Wrapped(OnLine(s)') = Wrapped(OnLine(s))
        BY <2>2, LineKept
      <4> QED BY <3>3, <4>1, <4>2
    <3> QED BY <3>1, <3>2, <3>3
  <2> HIDE DEF h, p
  <2>7. Way'[p] = Append(Tail(Way[p]), e)
    BY <2>4, <2>5
  <2>8. /\ \A q \in Places \ {p} : Way'[q] = Way[q]
        /\ Asks(e) => Asks(Head(Way[p]))
    BY <2>3, <2>4, <2>6 DEF h
  <2>9. OneAtMost(Way', Waits)
    BY <1>1, <2>1, <2>3, <2>4, <2>7, <2>8, WayIsTyped, WayAnswered
  <2>10. Waits' = Waits
    BY <2>1, <2>2 DEF Waits, IInv, TypeOK
  <2> QED BY <2>9, <2>10 DEF OneAtMost
<1>10. ASSUME NEW side \in Sides, Delivers(side) \/ Loses(side) PROVE OneAtMost(Way', Waits')
  <2> DEFINE e == Incoming(Head(line[side]))
             p == <<"line", side>>
             o == <<"rx", side>>
  <2>1. /\ line[side] # << >> /\ line' = [line EXCEPT ![side] = Tail(line[side])]
        /\ UNCHANGED <<pending, local, stable>>
    BY <1>10 DEF Delivers, Loses, connections, Set
  <2>2. /\ OnLine(side) # << >> /\ Head(OnLine(side)) = Head(line[side])
        /\ OnLine(side)' = Tail(OnLine(side)) /\ OnLine(Other(side))' = OnLine(Other(side))
    BY <2>1, LineTaken
  <2>3. /\ Way[p] # << >> /\ Head(Way[p]) = e /\ Way'[p] = Tail(Way[p])
        /\ p \in Places /\ o \in Places /\ o # p /\ Way[o] = rx[side] /\ Way'[o] = rx'[side]
        /\ e \in Events
    <3>1. OnLine(side) \in Seq(Messages)
      BY WayTyped
    <3>2. /\ Wrapped(OnLine(side)) # << >> /\ Head(Wrapped(OnLine(side))) = Incoming(Head(OnLine(side)))
          /\ Wrapped(Tail(OnLine(side))) = Tail(Wrapped(OnLine(side)))
      BY <2>2, <3>1, WrappedLine
    <3>3. Way[p] = Wrapped(OnLine(side)) /\ Way'[p] = Wrapped(OnLine(side)')
      BY WayIs
    <3>4. Wrapped(OnLine(side)') = Wrapped(Tail(OnLine(side)))
      BY <2>2
    <3>5. e \in Events
      BY <2>2, <3>1, TailTyped, MessagesTyped
    <3> HIDE DEF e
    <3>6. Head(Way[p]) = e
      BY <2>2, <3>2, <3>3 DEF e
    <3> QED BY <3>2, <3>3, <3>4, <3>5, <3>6, WayIs
  <2>4. ASSUME NEW q \in Places \ {p}, q # o, \A s \in Sides \ {side} : rx'[s] = rx[s]
        PROVE  Way'[q] = Way[q]
    <3>1. PICK s \in Sides : q = <<"rx", s>> \/ q = <<"line", s>>
      BY WayIs
    <3>2. s # side
      BY <2>4, <3>1
    <3>3. CASE q = <<"rx", s>>
      <4>1. Way'[<<"rx", s>>] = rx'[s] /\ Way[<<"rx", s>>] = rx[s]
        BY WayIs
      <4> QED BY <2>4, <3>2, <3>3, <4>1
    <3>4. CASE q = <<"line", s>>
      <4>1. Way'[<<"line", s>>] = Wrapped(OnLine(s)') /\ Way[<<"line", s>>] = Wrapped(OnLine(s))
        BY WayIs
      <4>2. OnLine(s)' = OnLine(s)
        BY <2>2, <3>2
      <4>3. Wrapped(OnLine(s)') = Wrapped(OnLine(s))
        BY <4>2
      <4> QED BY <3>4, <4>1, <4>3
    <3> QED BY <3>1, <3>3, <3>4
  <2>5. CASE Loses(side)
    <3>1. rx' = rx
      BY <2>5 DEF Loses
    <3>2. \A q \in Places \ {p} : Way'[q] = Way[q]
      BY <2>3, <2>4, <3>1
    <3> HIDE DEF e, o, p
    <3>3. OneAtMost(Way', Waits)
      BY <1>1, <2>3, <3>2, WayIsTyped, WayTaken
    <3> QED BY <2>1, <3>3 DEF Waits
  <2>6. CASE Delivers(side)
    <3>1. rx' = [rx EXCEPT ![side] = Append(rx[side], e)]
      BY <2>6 DEF Delivers, Set
    <3> HIDE DEF e, o, p
    <3>2. rx'[side] = Append(rx[side], e) /\ \A s \in Sides \ {side} : rx'[s] = rx[s]
      BY <3>1 DEF IInv, TypeOK
    <3>3. Way'[o] = Append(Way[o], e)
      BY <2>3, <3>2
    <3>4. \A q \in Places \ {o, p} : Way'[q] = Way[q]
      BY <2>3, <2>4, <3>2
    <3>5. Way \in [Places -> Seq(Events)] /\ (Asks(e) => Asks(Head(Way[p])))
      BY <2>3, WayIsTyped
    <3>6. OneAtMost(Way', Waits)
      <4>1. Passes(Way, Way', p, o, e)
        BY <2>3, <3>3, <3>4, <3>5 DEF Passes
      <4> QED BY ONLY <1>1, <2>3, <3>5, <4>1, WayPassed
    <3> QED BY <2>1, <3>6 DEF Waits
  <2> QED BY <1>10, <2>5, <2>6
<1>11. CASE \/ CreateOfferFails \/ ConnectReturns \/ UNCHANGED vars
            \/ \E side \in Sides : Interrupted(side)
  BY <1>2, <1>11 DEF CreateOfferFails, ConnectReturns, Interrupted, signaling, vars
<1> QED BY <1>3, <1>4, <1>5, <1>6, <1>7, <1>8, <1>9, <1>10, <1>11 DEF Next, Handles

-----------------------------------------------------------------------------
(* The candidates fit. *)

\* An event of the RTC connection of a side is put in its queue.
LEMMA FitsAtAppend ==
  ASSUME IInv, NEW side \in Sides, NEW e \in Events, Fitting,
         e.tag # "Incoming",
         rx' = [rx EXCEPT ![side] = Append(rx[side], e)],
         UNCHANGED <<id, remote, line, pending, lost>>, doubled => doubled',
         local' = local \/ (e.tag = "Outgoing" /\ local' = [local EXCEPT ![side] = "Offer"]),
         e.tag = "Outgoing" => /\ e \in Out(id[side]) /\ Of(e) = id[side]
                               /\ local'[side] # "None"
                               /\ Describes(e) \/ local[side] # "None"
  PROVE  Fitting'
<1> SUFFICES ASSUME NEW s \in Sides, ~Exempt(s)
             PROVE  Fits(s)'
  BY DEF Fitting, Exempt
<1>1. /\ rx[s] \in Seq(Events) /\ rx[Other(s)] \in Seq(Events) /\ Other(s) \in Sides
      /\ id[Other(s)] \in Nat /\ OnLine(s)' = OnLine(s)
  BY WayTyped, OtherSides, LineKept
<1>2. OnTheWay(remote[s], rx[s], Wrapped(OnLine(s)), rx[Other(s)], id[Other(s)],
               local[Other(s)] = "None")
  BY DEF Fitting, Fits
<1>3. CASE s = side
  <2>1. /\ rx'[s] = Append(rx[s], e) /\ rx'[Other(s)] = rx[Other(s)]
        /\ local'[Other(s)] = local[Other(s)]
    BY SMTT(30), <1>1, <1>3, OtherSides DEF IInv, TypeOK
  <2>2. e \notin In
    BY DEF In
  <2> QED BY <1>1, <1>2, <2>1, <2>2, ElsePutBehind DEF Fits
<1>4. CASE s = Other(side)
  <2>1. /\ rx'[s] = rx[s] /\ rx'[Other(s)] = Append(rx[Other(s)], e) /\ Other(s) = side
    BY <1>1, <1>4, OtherSides DEF IInv, TypeOK
  <2>2. CASE e.tag = "Outgoing"
    <3>1. (local'[Other(s)] = "None") = FALSE
      BY <2>1, <2>2
    <3>2. OnTheWay(remote[s], rx[s], Wrapped(OnLine(s)), Append(rx[Other(s)], e), id[Other(s)], FALSE)
      BY <1>1, <1>2, <2>1, <2>2, MessageLeaves
    <3> QED BY <1>1, <2>1, <3>1, <3>2 DEF Fits
  <2>3. CASE e.tag # "Outgoing"
    <3>1. e \notin Out(id[Other(s)])
      BY <2>3 DEF Out
    <3>2. OnTheWay(remote[s], rx[s], Wrapped(OnLine(s)), Append(rx[Other(s)], e), id[Other(s)],
                   local[Other(s)] = "None")
      BY <1>1, <1>2, <3>1, ElsePutBehind
    <3> QED BY <1>1, <2>1, <2>3, <3>2 DEF Fits
  <2> QED BY <2>2, <2>3
<1> QED BY <1>3, <1>4, OtherSides

\* A side handles an event, and its descriptions stay.
LEMMA FitsAtTail ==
  ASSUME IInv, Fitting, NEW side \in Sides, rx[side] # << >>,
         rx' = Dequeued(side), UNCHANGED <<id, remote, local, lost, doubled>>,
         \/ /\ \A s \in Sides : OnLine(s)' = OnLine(s)
            /\ \/ Head(rx[side]) \notin In /\ Head(rx[side]) \notin Out(id[side])
               \/ ~Describes(Head(rx[side]))
         \/ /\ Head(rx[side]) \in Out(id[side])
            /\ \A s \in Sides : OnLine(s)' = IF s = Other(side)
                                              THEN Append(OnLine(s), Head(rx[side]).message)
                                              ELSE OnLine(s)
  PROVE  Fitting'
<1> DEFINE h == Head(rx[side])
           o == Other(side)
<1> SUFFICES ASSUME NEW s \in Sides, ~Exempt(s)
             PROVE  Fits(s)'
  BY DEF Fitting, Exempt
<1>1. /\ rx[s] \in Seq(Events) /\ rx[Other(s)] \in Seq(Events) /\ Other(s) \in Sides
      /\ id[Other(s)] \in Nat /\ o \in Sides /\ Other(o) = side /\ o # side
      /\ h \in Events /\ h.message \in Messages
  BY WayTyped, OtherSides, HeardTyped
<1>2. OnTheWay(remote[s], rx[s], Wrapped(OnLine(s)), rx[Other(s)], id[Other(s)],
               local[Other(s)] = "None")
  BY DEF Fitting, Fits
<1>3. rx' = [rx EXCEPT ![side] = Tail(rx[side])]
  BY DEF Dequeued, Set
<1>4. In \cap Out(id[side]) = {}
  BY DEF In, Out
<1>5. CASE s = side
  <2>1. rx'[s] = Tail(rx[s]) /\ rx'[Other(s)] = rx[Other(s)]
    BY <1>1, <1>3, <1>5 DEF IInv, TypeOK
  <2>2. OnLine(s)' = OnLine(s)
    BY <1>1, <1>5
  <2>3. CASE h \notin In
    BY <1>1, <1>2, <1>5, <2>1, <2>2, <2>3, ElseTaken DEF Fits
  <2>4. CASE h \in In
    <3>1. ~Describes(h)
      BY <1>4, <1>5, <2>4
    <3> QED BY <1>1, <1>2, <1>5, <2>1, <2>2, <2>4, <3>1, CandidateHeard DEF Fits
  <2> QED BY <2>3, <2>4
<1>6. CASE s = o
  <2>1. rx'[s] = rx[s] /\ rx'[Other(s)] = Tail(rx[Other(s)]) /\ Other(s) = side
    BY <1>1, <1>3, <1>6 DEF IInv, TypeOK
  <2>2. CASE OnLine(s)' = OnLine(s) /\ (h \notin Out(id[side]) \/ ~Describes(h))
    BY <1>1, <1>2, <2>1, <2>2, ElseTaken DEF Fits
  <2>3. CASE h \in Out(id[side]) /\ OnLine(s)' = Append(OnLine(s), h.message)
    <3> DEFINE e == Incoming(h.message)
    <3>1. e \in Events /\ e.tag = "Incoming" /\ e.message = h.message
      BY <1>1, MessagesTyped DEF Incoming
    <3>2. Wrapped(OnLine(s)') = Append(Wrapped(OnLine(s)), e) /\ Wrapped(OnLine(s)) \in Seq(Events)
      <4>1. OnLine(s) \in Seq(Messages)
        BY WayTyped
      <4>2. Wrapped(Append(OnLine(s), h.message)) = Append(Wrapped(OnLine(s)), e)
        BY <1>1, <4>1, WrappedLine
      <4> HIDE DEF e, h
      <4> QED BY <2>3, <4>1, <4>2, WrappedLine
    <3> HIDE DEF e
    <3>3. OnTheWay(remote[s], rx[s], Append(Wrapped(OnLine(s)), e), Tail(rx[Other(s)]),
                   id[Other(s)], local[Other(s)] = "None")
      BY <1>1, <1>2, <2>1, <2>3, <3>1, <3>2, MessageSent
    <3> QED BY <2>1, <3>2, <3>3 DEF Fits
  <2> QED BY <1>4, <1>6, <2>2, <2>3
<1> QED BY <1>5, <1>6, OtherSides

\* A side hears the description of a connection: a candidate that is behind it on the way
\* is of that connection or of a later one.
LEMMA FitsAtAnswer ==
  ASSUME IInv, Roles, Single, Fitting, NEW side \in Sides, HearsAnswer(side)
  PROVE  Fitting'
<1> DEFINE h == Head(rx[side])
<1>1. /\ rx[side] # << >> /\ local[side] = "Offer" /\ h \in In /\ Describes(h)
      /\ side = "Downloader"
      /\ rx' = [rx EXCEPT ![side] = Tail(rx[side])]
      /\ UNCHANGED <<id, local, line, pending, lost, doubled>>
  BY AnswerHeard DEF HearsAnswer, Dequeued, Set, signaling
<1>2. CASE stable[side]
  <2>1. UNCHANGED remote
    BY <1>1, <1>2 DEF HearsAnswer
  <2>2. doubled
    <3>1. ~Waits /\ Asks(h)
      BY <1>1, <1>2 DEF Waits, Asks, In
    <3>2. ~doubled => AllQuiet(Way)
      BY <3>1 DEF Single, OneAtMost
    <3>3. <<"rx", side>> \in Places /\ Way[<<"rx", side>>] = rx[side]
      BY WayIs
    <3>4. rx[side] \in Seq(Events)
      BY WayTyped
    <3>5. ~Quiet(rx[side])
      BY <1>1, <3>1, <3>4, QuietOrOnce
    <3> QED BY <3>2, <3>3, <3>5 DEF AllQuiet
  <2> SUFFICES ASSUME NEW s \in Sides, ~Exempt(s)
               PROVE  Fits(s)'
    BY <1>1 DEF Fitting, Exempt
  <2>3. s = Other(side) /\ Other(s) = side /\ s # side
    BY <1>1, <2>2, OtherSides DEF Exempt
  <2>4. /\ rx[s] \in Seq(Events) /\ rx[side] \in Seq(Events) /\ h \notin Out(id[side])
        /\ OnTheWay(remote[s], rx[s], Wrapped(OnLine(s)), rx[side], id[side], local[side] = "None")
    BY <1>1, <2>3, WayTyped DEF Fitting, Fits, In, Out
  <2>5. OnTheWay(remote[s], rx[s], Wrapped(OnLine(s)), Tail(rx[side]), id[side], local[side] = "None")
    BY <1>1, <2>4, ElseTaken
  <2>6. rx'[s] = rx[s] /\ rx'[side] = Tail(rx[side]) /\ OnLine(s)' = OnLine(s)
    BY <1>1, <2>3, LineKept DEF IInv, TypeOK
  <2> QED BY <1>1, <2>1, <2>3, <2>5, <2>6 DEF Fits
<1>3. CASE ~stable[side]
  <2>1. remote' = [remote EXCEPT ![side] = Of(h)]
    BY <1>1, <1>3 DEF HearsAnswer, Set, Sender, Of
  <2> SUFFICES ASSUME NEW s \in Sides, ~Exempt(s)
               PROVE  Fits(s)'
    BY <1>1 DEF Fitting, Exempt
  <2>2. /\ rx[s] \in Seq(Events) /\ rx[Other(s)] \in Seq(Events) /\ Other(s) \in Sides
        /\ id[Other(s)] \in Nat /\ remote[s] \in Int /\ Wrapped(OnLine(s)) \in Seq(Events)
        /\ OnLine(s)' = OnLine(s)
    BY <1>1, WayTyped, OtherSides, LineKept
  <2>3. OnTheWay(remote[s], rx[s], Wrapped(OnLine(s)), rx[Other(s)], id[Other(s)],
                 local[Other(s)] = "None")
    BY DEF Fitting, Fits
  <2>4. CASE s = side
    <3>1. rx'[s] = Tail(rx[s]) /\ rx'[Other(s)] = rx[Other(s)] /\ remote'[s] = Of(Head(rx[s]))
      BY <1>1, <2>1, <2>4, OtherSides DEF IInv, TypeOK
    <3>2. /\ Connections(rx[s], In) \subseteq Int /\ Connections(Wrapped(OnLine(s)), In) \subseteq Int
          /\ id[Other(s)] \in Int /\ rx[s] # << >> /\ Head(rx[s]) \in In /\ Describes(Head(rx[s]))
      BY <1>1, <2>2, <2>4, WayTyped
    <3>3. OnTheWay(Of(Head(rx[s])), Tail(rx[s]), Wrapped(OnLine(s)), rx[Other(s)], id[Other(s)],
                   local[Other(s)] = "None")
      BY <2>2, <2>3, <3>2, DescriptionHeard
    <3> QED BY <1>1, <2>2, <3>1, <3>3 DEF Fits
  <2>5. CASE s = Other(side)
    <3>1. /\ rx'[s] = rx[s] /\ rx'[Other(s)] = Tail(rx[Other(s)]) /\ remote'[s] = remote[s]
          /\ Other(s) = side
      BY <1>1, <2>1, <2>5, OtherSides DEF IInv, TypeOK
    <3>2. h \notin Out(id[side])
      BY <1>1 DEF In, Out
    <3> QED BY <1>1, <2>2, <2>3, <3>1, <3>2, ElseTaken DEF Fits
  <2> QED BY <2>4, <2>5, OtherSides
<1> QED BY <1>2, <1>3

\* The uploading side takes an offer and answers it with a connection of its own: what its
\* connections of before have to say does not reach the line any more.
LEMMA FitsAtOffer ==
  ASSUME IInv, Roles, Fitting, NEW side \in Sides, HearsOffer(side)
  PROVE  Fitting'
<1> DEFINE h == Head(rx[side])
           m == IdAfterOffer(side)
           e == Outgoing(HandlerId(side), Description("Answer", m))
<1>1. /\ rx[side] # << >> /\ local[side] # "Offer"
      /\ \A i \in 1..Len(Tail(rx[side])) : Tail(rx[side])[i] \notin Out(m)
  BY OfferHeard
<1>2. h \in In /\ Describes(h)
  <2>1. h.tag = "Incoming" /\ h.message.tag = "Offer"
    BY DEF HearsOffer, HearsMessage, Hears
  <2> QED BY <1>1, <2>1, HeardTyped DEF In, Describes
<1>3. /\ rx' = [rx EXCEPT ![side] = Append(Tail(rx[side]), e)]
      /\ id' = [id EXCEPT ![side] = m]
      /\ local' = [local EXCEPT ![side] = "Answer"]
      /\ remote' = [remote EXCEPT ![side] = Of(h)]
      /\ UNCHANGED <<line, pending, lost, doubled>>
  BY <1>1 DEF HearsOffer, Set, Sender, Of, signaling
<1>4. m \in Nat /\ id[side] <= m
  BY WayTyped, SMT DEF IdAfterOffer
<1>5. e \in Events /\ e \in Out(m) /\ Of(e) = m /\ Describes(e) /\ e \notin In
  <2>1. e \in Events
    BY <1>4, MessagesTyped DEF HandlerId
  <2> QED BY <2>1 DEF Outgoing, HandlerId, Description, Out, Of, Describes, In
<1> HIDE DEF e, m
<1> SUFFICES ASSUME NEW s \in Sides, ~Exempt(s)
             PROVE  Fits(s)'
  BY <1>3 DEF Fitting, Exempt
<1>6. /\ rx[s] \in Seq(Events) /\ rx[Other(s)] \in Seq(Events) /\ Other(s) \in Sides
      /\ id[Other(s)] \in Nat /\ remote[s] \in Int /\ Wrapped(OnLine(s)) \in Seq(Events)
      /\ Connections(rx[s], In) \subseteq Int /\ Connections(Wrapped(OnLine(s)), In) \subseteq Int
      /\ Tail(rx[side]) \in Seq(Events) /\ OnLine(s)' = OnLine(s)
  BY <1>1, <1>3, WayTyped, OtherSides, TailTyped, LineKept
<1>7. OnTheWay(remote[s], rx[s], Wrapped(OnLine(s)), rx[Other(s)], id[Other(s)],
               local[Other(s)] = "None")
  BY DEF Fitting, Fits
<1>8. CASE s = side
  <2>1. /\ rx'[s] = Append(Tail(rx[s]), e) /\ rx'[Other(s)] = rx[Other(s)]
        /\ remote'[s] = Of(Head(rx[s])) /\ id'[Other(s)] = id[Other(s)]
        /\ local'[Other(s)] = local[Other(s)]
    BY SMTT(30), <1>3, <1>6, <1>8, OtherSides DEF IInv, TypeOK
  <2>2. OnTheWay(Of(Head(rx[s])), Tail(rx[s]), Wrapped(OnLine(s)), rx[Other(s)], id[Other(s)],
                 local[Other(s)] = "None")
    BY <1>1, <1>2, <1>6, <1>7, <1>8, DescriptionHeard
  <2>3. OnTheWay(Of(Head(rx[s])), Append(Tail(rx[s]), e), Wrapped(OnLine(s)), rx[Other(s)],
                 id[Other(s)], local[Other(s)] = "None")
    BY <1>5, <1>6, <1>8, <2>2, ElsePutBehind
  <2> QED BY <1>6, <2>1, <2>3 DEF Fits
<1>9. CASE s = Other(side)
  <2>1. /\ rx'[s] = rx[s] /\ rx'[Other(s)] = Append(Tail(rx[Other(s)]), e)
        /\ remote'[s] = remote[s] /\ id'[Other(s)] = m /\ local'[Other(s)] = "Answer"
        /\ Other(s) = side
    BY <1>3, <1>6, <1>9, OtherSides DEF IInv, TypeOK
  <2>2. h \notin Out(id[side])
    BY <1>2 DEF In, Out
  <2>3. OnTheWay(remote[s], rx[s], Wrapped(OnLine(s)), Tail(rx[side]), id[side],
                 local[side] = "None")
    BY <1>1, <1>6, <1>7, <2>1, <2>2, ElseTaken
  <2>4. OnTheWay(remote[s], rx[s], Wrapped(OnLine(s)), Append(Tail(rx[side]), e), m, FALSE)
    BY <1>1, <1>4, <1>5, <1>6, <2>1, <2>3, ConnectionBegins
  <2>5. (local'[Other(s)] = "None") = FALSE
    BY <2>1
  <2> QED BY <1>6, <2>1, <2>4, <2>5 DEF Fits
<1> QED BY <1>8, <1>9, OtherSides

\* A message is delivered.
LEMMA FitsAtDelivery ==
  ASSUME IInv, Fitting, NEW side \in Sides, Delivers(side)
  PROVE  Fitting'
<1> DEFINE e == Incoming(Head(line[side]))
<1>1. /\ line[side] # << >> /\ line' = [line EXCEPT ![side] = Tail(line[side])]
      /\ rx' = [rx EXCEPT ![side] = Append(rx[side], e)]
      /\ UNCHANGED <<id, remote, local, pending, lost, doubled>>
  BY DEF Delivers, connections, Set
<1>2. /\ OnLine(side) # << >> /\ Head(OnLine(side)) = Head(line[side])
      /\ OnLine(side)' = Tail(OnLine(side)) /\ OnLine(Other(side))' = OnLine(Other(side))
  BY <1>1, LineTaken
<1>3. /\ e \in Events /\ e = Head(Wrapped(OnLine(side))) /\ Wrapped(OnLine(side)) # << >>
      /\ Wrapped(OnLine(side)') = Tail(Wrapped(OnLine(side)))
      /\ e \in In /\ \A n : e \notin Out(n)
  <2>1. OnLine(side) \in Seq(Messages) /\ Head(line[side]) \in Messages
    BY <1>2, WayTyped, TailTyped
  <2>2. e \in Events /\ e.tag = "Incoming"
    BY <2>1, MessagesTyped DEF Incoming
  <2>3. /\ Wrapped(OnLine(side)) # << >> /\ Head(Wrapped(OnLine(side))) = Incoming(Head(OnLine(side)))
        /\ Wrapped(Tail(OnLine(side))) = Tail(Wrapped(OnLine(side)))
    BY <1>2, <2>1, WrappedLine
  <2>4. e = Head(Wrapped(OnLine(side)))
    BY <1>2, <2>3
  <2> HIDE DEF e
  <2> QED BY <1>2, <2>2, <2>3, <2>4 DEF In, Out
<1> HIDE DEF e
<1> SUFFICES ASSUME NEW s \in Sides, ~Exempt(s)
             PROVE  Fits(s)'
  BY <1>1 DEF Fitting, Exempt
<1>4. /\ rx[s] \in Seq(Events) /\ rx[Other(s)] \in Seq(Events) /\ Other(s) \in Sides
      /\ Wrapped(OnLine(s)) \in Seq(Events)
  BY WayTyped, OtherSides
<1>5. OnTheWay(remote[s], rx[s], Wrapped(OnLine(s)), rx[Other(s)], id[Other(s)],
               local[Other(s)] = "None")
  BY DEF Fitting, Fits
<1>6. CASE s = side
  <2>1. /\ rx'[s] = Append(rx[s], e) /\ rx'[Other(s)] = rx[Other(s)]
        /\ Wrapped(OnLine(s)') = Tail(Wrapped(OnLine(s)))
    BY SMTT(30), <1>1, <1>3, <1>4, <1>6, OtherSides DEF IInv, TypeOK
  <2>2. OnTheWay(remote[s], Append(rx[s], e), Tail(Wrapped(OnLine(s))), rx[Other(s)],
                 id[Other(s)], local[Other(s)] = "None")
    BY <1>3, <1>4, <1>5, <1>6, MessageDelivered
  <2> QED BY <1>1, <2>1, <2>2 DEF Fits
<1>7. CASE s = Other(side)
  <2>1. rx'[s] = rx[s] /\ rx'[Other(s)] = Append(rx[Other(s)], e) /\ OnLine(s)' = OnLine(s)
    BY <1>1, <1>2, <1>4, <1>7, OtherSides DEF IInv, TypeOK
  <2> QED BY <1>1, <1>3, <1>4, <1>5, <2>1, ElsePutBehind DEF Fits
<1> QED BY <1>6, <1>7, OtherSides

\* No step puts a candidate before the description of its connection.
LEMMA FitStep ==
  ASSUME IInv, Roles, Single, Fitting, [Next]_vars
  PROVE  Fitting'
<1>1. ASSUME UNCHANGED <<connections, rx, line, pending, lost, doubled>> PROVE Fitting'
  BY <1>1, LineKept DEF connections, Fitting, Fits, Exempt
<1>2. CASE CreateOffer
  <2> DEFINE e == Outgoing(0, Description("Offer", 0))
  <2>1. /\ UNCHANGED <<id, remote, line, pending, lost>> /\ (doubled => doubled')
        /\ local' = [local EXCEPT !["Downloader"] = "Offer"]
    BY <1>2, Zenon DEF CreateOffer, Set, signaling
  <2>2. CASE IsIgnored
    <3>1. rx' = rx /\ local["Downloader"] = "Offer"
      BY <1>2, <2>2 DEF CreateOffer, IsIgnored, Waits
    <3>2. local' = local
      BY <2>1, <3>1, OtherSides DEF IInv, TypeOK
    <3> QED BY <2>1, <3>1, <3>2, LineKept DEF Fitting, Fits, Exempt
  <2>3. CASE ~IsIgnored
    <3>1. rx' = [rx EXCEPT !["Downloader"] = Append(rx["Downloader"], e)]
      BY <1>2, <2>3 DEF CreateOffer, Set
    <3>2. e \in Events
      BY MessagesTyped
    <3>3. /\ e.tag = "Outgoing" /\ e \in Out(id["Downloader"]) /\ Of(e) = id["Downloader"]
          /\ Describes(e)
      <4>1. id["Downloader"] = 0
        BY DEF Roles
      <4> QED BY <3>2, <4>1 DEF Outgoing, Description, Out, Of, Describes
    <3>4. local'["Downloader"] # "None"
      BY <2>1, OtherSides DEF IInv, TypeOK
    <3> HIDE DEF e
    <3> QED BY <2>1, <3>1, <3>2, <3>3, <3>4, OtherSides, FitsAtAppend
  <2> QED BY <2>2, <2>3
<1>3. ASSUME NEW side \in Sides, Gathers(side) PROVE Fitting'
  <2> DEFINE e == Outgoing(id[side], Candidate(id[side], gathered[side] + 1 = MaxCandidates))
  <2>1. /\ UNCHANGED <<id, remote, local, line, pending, lost, doubled>> /\ local[side] # "None"
        /\ rx' = [rx EXCEPT ![side] = Append(rx[side], e)]
    BY <1>3 DEF Gathers, Set, signaling
  <2>2. e \in Events
    BY WayTyped, MessagesTyped
  <2>3. e.tag = "Outgoing" /\ e \in Out(id[side]) /\ Of(e) = id[side]
    BY <2>2 DEF Outgoing, Candidate, Out, Of
  <2> HIDE DEF e
  <2> QED BY <2>1, <2>2, <2>3, FitsAtAppend
<1>4. ASSUME NEW side \in Sides, Opens(side) PROVE Fitting'
  <2> DEFINE e == Opened(id[side])
  <2>1. /\ UNCHANGED <<id, remote, local, line, pending, lost, doubled>>
        /\ rx' = [rx EXCEPT ![side] = Append(rx[side], e)]
    BY <1>4 DEF Opens, Set, signaling
  <2>2. e \in Events /\ e.tag = "Opened"
    BY WayTyped, MessagesTyped DEF Opened
  <2> HIDE DEF e
  <2> QED BY <2>1, <2>2, FitsAtAppend
<1>5. ASSUME NEW side \in Sides, DropsOldEvent(side) \/ HearsOpened(side) PROVE Fitting'
  <2>1. /\ rx[side] # << >> /\ rx' = Dequeued(side)
        /\ UNCHANGED <<id, remote, local, line, pending, lost, doubled>>
        /\ IsOld(side) \/ Head(rx[side]).tag = "Opened"
    BY <1>5 DEF DropsOldEvent, HearsOpened, Hears, connections, signaling
  <2>2. Head(rx[side]) \notin In /\ Head(rx[side]) \notin Out(id[side])
    BY <2>1 DEF IsOld, In, Out
  <2> QED BY <2>1, <2>2, LineKept, FitsAtTail
<1>6. ASSUME NEW side \in Sides, HearsCandidate(side) \/ DropsEmpty(side) PROVE Fitting'
  <2>1. /\ rx[side] # << >> /\ rx' = Dequeued(side)
        /\ UNCHANGED <<id, remote, local, line, pending, lost, doubled>>
    BY <1>6 DEF HearsCandidate, DropsEmpty, HearsMessage, Hears, connections, signaling
  <2>2. ~Describes(Head(rx[side]))
    <3>1. CASE HearsCandidate(side)
      BY <3>1 DEF HearsCandidate, HearsMessage, Describes
    <3>2. CASE DropsEmpty(side)
      BY <2>1, <3>2, HeadBelongs DEF DropsEmpty, Hears, Belongs, IsFrom
    <3> QED BY <1>6, <3>1, <3>2
  <2> QED BY <2>1, <2>2, LineKept, FitsAtTail
<1>7. ASSUME NEW side \in Sides, Signals(side) PROVE Fitting'
  <2>1. /\ rx[side] # << >> /\ rx' = Dequeued(side)
        /\ UNCHANGED <<id, remote, local, lost, doubled>>
        /\ Head(rx[side]).tag = "Outgoing" /\ ~IsOld(side)
    BY <1>7 DEF Signals, Hears, connections
  <2>2. Head(rx[side]) \in Out(id[side])
    BY <2>1, HeadBelongs DEF Out, IsOld
  <2> QED BY <1>7, <2>1, <2>2, LineSent, FitsAtTail
<1>8. ASSUME NEW side \in Sides, Refuses(side) \/ Loses(side) PROVE Fitting'
  BY <1>8 DEF Refuses, Loses, Fitting, Exempt
<1>9. CASE \/ CreateOfferFails \/ ConnectReturns \/ UNCHANGED vars
           \/ \E side \in Sides : Interrupted(side)
  BY <1>1, <1>9 DEF CreateOfferFails, ConnectReturns, Interrupted, signaling, vars
<1> QED BY <1>2, <1>3, <1>4, <1>5, <1>6, <1>7, <1>8, <1>9, FitsAtOffer, FitsAtAnswer, FitsAtDelivery
        DEF Next, Handles

\* At first neither side has said anything.
LEMMA InitFits == Init => Roles /\ Single /\ Fitting
<1> SUFFICES ASSUME Init PROVE Roles /\ Single /\ Fitting
  OBVIOUS
<1>1. \A s \in Sides : /\ id[s] = 0 /\ local[s] = "None" /\ remote[s] = -1
                       /\ rx[s] = << >> /\ line[s] = << >> /\ pending[s] = << >>
  BY DEF Init, Both, NoRemote
<1>2. Wrapped(<< >>) = << >> /\ Len(<< >>) = 0 /\ 1..0 = {}
  BY DEF Wrapped
<1>3. \A s \in Sides : OnLine(s) = << >> /\ Wrapped(OnLine(s)) = << >>
  <2>1. << >> \o << >> = << >>
    <3>1. << >> \in Seq(Messages)
      OBVIOUS
    <3> QED BY <3>1, ConcatEmptySeq
  <2>2. ASSUME NEW s \in Sides PROVE OnLine(s) = << >>
    <3>1. line[s] = << >> /\ pending[Other(s)] = << >>
      BY <1>1, OtherSides
    <3> QED BY <2>1, <3>1 DEF OnLine
  <2> QED BY <1>2, <2>2
<1>4. Roles
  BY <1>1, <1>2, <1>3, OtherSides DEF Roles, AllBelong
<1>5. Single
  <2>1. ASSUME NEW p \in Places PROVE Way[p] = << >>
    <3>1. PICK s \in Sides : p = <<"rx", s>> \/ p = <<"line", s>>
      BY WayIs
    <3>2. Way[<<"rx", s>>] = rx[s] /\ Way[<<"line", s>>] = Wrapped(OnLine(s))
      BY WayIs
    <3> QED BY <1>1, <1>3, <3>1, <3>2
  <2>2. AllQuiet(Way)
    BY <1>2, <2>1 DEF AllQuiet, Quiet
  <2> QED BY <2>2 DEF Single, OneAtMost
<1>6. ASSUME NEW s \in Sides PROVE Fits(s)
  <2>1. /\ \A S : Connections(<< >>, S) = {} /\ InTurn(<< >>, S)
        /\ \A S, known : ComesAfter(<< >>, S, known)
    BY <1>2 DEF Connections, InTurn, ComesAfter
  <2>2. OnTheWay(-1, << >>, << >>, << >>, 0, TRUE)
    BY <2>1 DEF OnTheWay
  <2> QED BY ZenonT(60), <1>1, <1>3, <2>2, OtherSides DEF Fits
<1> QED BY <1>4, <1>5, <1>6 DEF Fitting

\* Every step keeps the invariant of candidates on their way.
LEMMA FitInvStep == FitInv /\ [Next]_vars => FitInv'
BY NextInvariant, RolesStep, SingleStep, FitStep DEF FitInv

\* A candidate that is heard is of the connection whose description was taken.
LEMMA CandidateFits ==
  ASSUME FitInv, NEW side \in Sides, HearsCandidate(side), ~Exempt(side)
  PROVE  remote[side] = Sender(side)
<1>1. /\ rx[side] # << >>
      /\ Head(rx[side]).tag = "Incoming" /\ Head(rx[side]).message.tag = "Candidate"
  BY DEF HearsCandidate, HearsMessage, Hears
<1>2. /\ rx[side] \in Seq(Events) /\ Head(rx[side]) \in In /\ ~Describes(Head(rx[side]))
  BY <1>1, WayTyped, HeardTyped DEF FitInv, In, Describes
<1>3. Fits(side)
  BY DEF FitInv, Fitting
<1>4. Of(Head(rx[side])) = remote[side]
  BY <1>1, <1>2, <1>3, CandidateHeard DEF Fits
<1> QED BY <1>4 DEF Of, Sender

\* Unless signaling was lost, a candidate that is added belongs to the connection whose
\* offer or answer was taken, across any number of new offers, of connections given up
\* for them, and of attempts that failed with messages in the queue or not yet sent; in
\* the web client that downloads, as long as it has not offered again before an answer.
\* (add_remote_candidate, p2p.rs:378)
THEOREM CandidatesBelong == Spec => CandidatesFit
<1>1. Init => FitInv
  BY InitInvariant, InitFits DEF FitInv
<1>2. FitInv /\ [Next]_vars => FitInv'
  BY FitInvStep
<1>3. FitInv => \A side \in Sides :
        HearsCandidate(side) /\ ~lost /\ ~(side = "Downloader" /\ doubled)
            => remote[side] = Sender(side)
  BY CandidateFits DEF Exempt
<1> QED BY <1>1, <1>2, <1>3, PTL DEF Spec, CandidatesFit
=============================================================================
