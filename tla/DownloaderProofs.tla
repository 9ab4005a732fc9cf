-------------------------- MODULE DownloaderProofs --------------------------
(***************************************************************************)
(* Theorems about Downloader, for every size of file, chunk and window and *)
(* any number of retries.                                                  *)
(***************************************************************************)
EXTENDS Downloader, TLAPS, SequenceTheorems

-----------------------------------------------------------------------------
(* Helpers. *)

\* The pieces of a run of length x that is cut every c start inside it.
LEMMA CutsAreInside ==
  ASSUME NEW x \in Nat, NEW c \in Nat \ {0}, NEW i \in 1 .. (x + c - 1) \div c
  PROVE  (i - 1) * c \in Nat /\ (i - 1) * c < x
<1> DEFINE q == (x + c - 1) \div c
<1>1. q \in Int /\ q * c <= x + c - 1
  BY SMT
<1>2. (i - 1) * c <= (q - 1) * c
  BY <1>1, SMT
<1>3. (q - 1) * c = q * c - c
  BY <1>1, SMT
<1>4. (i - 1) * c >= 0
  BY SMT
<1> QED BY <1>1, <1>2, <1>3, <1>4, SMT

\* A run of bytes is a sequence of positions.
LEMMA BytesTyped ==
  ASSUME NEW offset \in Nat, NEW len \in Nat
  PROVE  /\ Bytes(offset, len) \in Seq(Nat)
         /\ Len(Bytes(offset, len)) = len
         /\ \A i \in 1..len : Bytes(offset, len)[i] = offset + i - 1
BY SMT DEF Bytes

Files == [state : FileStates, data : Seq(Nat)]

\* Requests stay within the file and within the window.
LEMMA RequestsTyped ==
  ASSUME TypeOK, NEW f \in Files, Offset(f) <= requested
  PROVE  /\ RequestedAfter(f) \in Positions
         /\ Requests(f) \in Seq(ToUploader)
<1> DEFINE end == RequestedAfter(f)
           n == (end - requested + ChunkSize - 1) \div ChunkSize
           at(i) == requested + (i - 1) * ChunkSize
           piece(i) == Request(at(i), Least(ChunkSize, end - at(i)))
<1>1. /\ Size \in Nat \ {0} /\ ChunkSize \in Nat \ {0} /\ Window \in Nat \ {0}
      /\ requested \in 0..Size
      /\ Offset(f) \in Nat
  BY SizesArePositive, LenProperties DEF TypeOK, Positions, Offset, Files
<1>2. end \in Positions
  BY <1>1, SMT DEF RequestedAfter, Least, Positions
<1>4. n \in Int
  BY <1>1, <1>2, SMT DEF Positions
<1>5. ASSUME requested <= end, NEW i \in 1..n PROVE piece(i) \in ToUploader
  <2>1. (i - 1) * ChunkSize \in Nat /\ (i - 1) * ChunkSize < end - requested
    <3>1. end - requested \in Nat
      BY <1>1, <1>2, <1>5, SMT DEF Positions
    <3>2. i \in 1 .. ((end - requested) + ChunkSize - 1) \div ChunkSize
      OBVIOUS
    <3> HIDE DEF end, n
    <3> QED BY <3>1, <3>2, <1>1, CutsAreInside
  <2>2. at(i) \in Positions /\ Least(ChunkSize, end - at(i)) \in Positions
        /\ at(i) + Least(ChunkSize, end - at(i)) <= Size
    <3> HIDE DEF end, n
    <3> QED BY <2>1, <1>1, <1>2, SMT DEF Least, Positions
  <2> HIDE DEF end, n, at
  <2> QED BY <2>2 DEF Request, ToUploader, Pieces
<1>6. Requests(f) = [i \in 1..n |-> piece(i)]
  BY DEF Requests
<1>7. CASE requested <= end /\ n \in Nat
  <2> HIDE DEF end, n, at, piece
  <2> QED BY <1>2, <1>5, <1>6, <1>7, IsASeq DEF end
<1>8. CASE ~(requested <= end /\ n \in Nat)
  <2>1. n <= 0
    <3>1. CASE requested > end
      <4> DEFINE x == end - requested + ChunkSize - 1
      <4>1. x \in Int /\ x < ChunkSize
        BY <1>1, <1>2, <3>1, SMT DEF Positions
      <4>2. x \div ChunkSize <= 0
        <5> HIDE DEF x
        <5> QED BY <4>1, <1>1, SMT
      <4> QED BY <4>2
    <3> QED BY <3>1, <1>1, <1>2, <1>4, <1>8, SMT DEF Positions
  <2>3. 1..n = {}
    BY <1>4, <2>1, SMT
  <2>2. Requests(f) = << >>
    <3> HIDE DEF end, n, at, piece
    <3> QED BY <2>3, <1>6
  <2> QED BY <2>2, <1>2
<1> QED BY <1>7, <1>8

Outcomes == {"None", "Ok", "Error", "WindowPanic", "PoisonedPanic"}
RelayTypes == [pc : RelayPCs, next : Nat, retries : 0..MaxRetries]

\* The variables that the end of a future changes.
ControlOK ==
    /\ pc \in PCs /\ outcome \in Outcomes
    /\ before \in Positions \cup {NoOffset}
    /\ flushing \in BOOLEAN
    /\ relayed \in RelayTypes

\* What the operations on a file return.
LEMMA FilesTyped ==
  ASSUME NEW f \in Files
  PROVE  /\ FlushBegun(f) \in Files
         /\ Offset(f) \in Nat
         /\ \A end \in FlushEnds(f) : end.file \in Files /\ end.result \in Outcomes
         /\ \A bytes \in Seq(Nat) : Written(f, bytes) \in Files
<1>1. FlushBegun(f) \in Files
  BY DEF FlushBegun, Files, FileStates
<1>2. Offset(f) \in Nat
  BY LenProperties, SizesArePositive DEF Offset, Files
<1>3. \A end \in FlushEnds(f) : end.file \in Files /\ end.result \in Outcomes
  BY DEF FlushEnds, Files, FileStates, Outcomes
<1>4. \A bytes \in Seq(Nat) : Written(f, bytes) \in Files
  BY ConcatProperties DEF Written, Files
<1> QED BY <1>1, <1>2, <1>3, <1>4

\* The relay's request before and when it is made.
LEMMA RelaysTyped == NoRelay \in RelayTypes /\ NewRelay \in RelayTypes
BY RetriesAreNatural DEF NoRelay, NewRelay, RelayTypes, RelayPCs

\* A download that returns keeps its control state typed.
LEMMA ReturnsTyped ==
  ASSUME TypeOK, NEW o \in Outcomes, Returns(o)
  PROVE  ControlOK'
BY RelaysTyped DEF TypeOK, Returns, ControlOK, PCs, RelayTypes

\* A peer-to-peer transfer that fails keeps the control state typed.
LEMMA FailsTyped ==
  ASSUME TypeOK, P2PFails
  PROVE  ControlOK'
<1>1. \A o \in Outcomes : Returns(o) => ControlOK'
  BY ReturnsTyped
<1> QED BY <1>1, RelaysTyped
        DEF TypeOK, P2PFails, ControlOK, PCs, ConnectPCs, Outcomes, RelayTypes

\* A message that is heard leaves the state typed.
LEMMA AnswersTyped ==
  ASSUME TypeOK, NEW f \in Files, RequestDataOrFinish(f),
         UNCHANGED <<options, told, channel>>, rx' = Tail(rx), rx # << >>
  PROVE  TypeOK'
<1>1. file' \in Files
  BY FilesTyped DEF RequestDataOrFinish
<1>2. rx' \in Seq(ToDownloader)
  BY HeadTailProperties DEF TypeOK
<1>3. ControlOK' /\ requested' \in Positions /\ toUploader' \in Seq(ToUploader)
  <2>1. CASE Offset(f) >= Size
    BY <2>1 DEF RequestDataOrFinish, TypeOK, ControlOK, Outcomes, RelayTypes
  <2>2. CASE ~(Offset(f) >= Size) /\ Offset(f) > requested
    BY <2>2, ReturnsTyped DEF RequestDataOrFinish, TypeOK, Outcomes
  <2>3. CASE /\ ~(Offset(f) >= Size) /\ ~(Offset(f) > requested)
             /\ Requests(f) # << >> /\ channel # "Open"
    BY <2>3, FailsTyped DEF RequestDataOrFinish, TypeOK
  <2>4. CASE /\ ~(Offset(f) >= Size) /\ ~(Offset(f) > requested)
             /\ ~(Requests(f) # << >> /\ channel # "Open")
    <3>1. Offset(f) \in Nat /\ Offset(f) < Size /\ Offset(f) <= requested /\ Size \in Nat
      BY <2>4, FilesTyped, SizesArePositive, SMT DEF TypeOK, Positions
    <3>2. RequestedAfter(f) \in Positions /\ Requests(f) \in Seq(ToUploader)
      BY <3>1, RequestsTyped
    <3>3. requested' \in Positions /\ toUploader' \in Seq(ToUploader)
      <4>1. toUploader' = toUploader \o Requests(f) /\ requested' = RequestedAfter(f)
        BY <2>4 DEF RequestDataOrFinish
      <4> QED BY <4>1, <3>2, ConcatProperties DEF TypeOK
    <3>4. /\ Connects /\ UNCHANGED <<outcome, flushing>> /\ file' = FlushBegun(f)
      BY <2>4 DEF RequestDataOrFinish
    <3>5. Offset(file') \in Positions
      BY <3>1, <3>4, SMT DEF FlushBegun, Offset, Positions, Files, FileStates
    <3>7. ControlOK'
      BY <3>4, <3>5, RelaysTyped
      DEF Connects, ControlOK, TypeOK, PCs, ConnectPCs, TransferPCs, Outcomes, RelayTypes
    <3> QED BY <3>3, <3>7
  <2> QED BY <2>1, <2>2, <2>3, <2>4
<1> QED BY <1>1, <1>2, <1>3 DEF TypeOK, ControlOK, Outcomes, RelayTypes, Files, options

-----------------------------------------------------------------------------
(* Type correctness. *)

\* A step of the client that leaves the channel alone.
LEMMA ClientSteps ==
  ASSUME TypeOK, UNCHANGED <<options, requested, network>>,
         ControlOK', file' \in Files, told' \subseteq {"Finished", "Streamed"}
  PROVE  TypeOK'
BY DEF TypeOK, ControlOK, Files, Outcomes, RelayTypes, options, network

\* The relayed transfer.
LEMMA RelaySteps ==
  ASSUME TypeOK, RelayStep
  PROVE  TypeOK'
<1>1. ControlOK /\ file \in Files /\ told \subseteq {"Finished", "Streamed"}
  BY DEF TypeOK, ControlOK, Files, Outcomes, RelayTypes
<1>2. \A o \in Outcomes : Returns(o) => ControlOK'
  BY ReturnsTyped
<1>3. CASE RelayStarts
  <2>1. ControlOK'
    BY <1>1, <1>2, <1>3, FilesTyped DEF RelayStarts, ControlOK, Outcomes, RelayTypes, RelayPCs
  <2> QED BY <1>1, <1>3, <2>1, ClientSteps DEF RelayStarts
<1>4. CASE RelayResponds
  <2>1. ControlOK'
    BY <1>1, <1>4 DEF RelayResponds, ControlOK, Outcomes, RelayTypes, RelayPCs
  <2> QED BY <1>1, <1>4, <2>1, ClientSteps DEF RelayResponds
<1>5. CASE RelayFails
  <2>1. ControlOK'
    <3>1. CASE Returns("Error")
      BY <1>2, <3>1 DEF Outcomes
    <3>2. CASE /\ relayed.retries < MaxRetries
               /\ relayed' = [relayed EXCEPT !.pc = "Starting", !.retries = @ + 1]
               /\ UNCHANGED <<pc, outcome, before, flushing>>
      <4>1. relayed.retries + 1 \in 0..MaxRetries
        BY <1>1, <3>2, RetriesAreNatural, SMT DEF ControlOK, RelayTypes
      <4> QED BY <1>1, <3>2, <4>1 DEF ControlOK, RelayTypes, RelayPCs
    <3> QED BY <1>5, <3>1, <3>2 DEF RelayFails
  <2> QED BY <1>1, <1>5, <2>1, ClientSteps DEF RelayFails
<1>6. ASSUME NEW n \in 1..Size, RelayYields(n) PROVE TypeOK'
  <2>1. relayed.next \in Nat /\ n \in Nat
    BY <1>1, <1>6, SizesArePositive DEF ControlOK, RelayTypes
  <2>2. ControlOK'
    BY <1>1, <1>2, <1>6, <2>1 DEF RelayYields, ControlOK, Outcomes, RelayTypes, RelayPCs
  <2>3. file' \in Files
    <3>1. Bytes(relayed.next, n) \in Seq(Nat)
      BY <2>1, BytesTyped
    <3> QED BY <1>1, <1>6, <3>1, FilesTyped DEF RelayYields
  <2> QED BY <1>1, <1>6, <2>2, <2>3, ClientSteps DEF RelayYields
<1>7. CASE RelayEnds
  <2>1. ControlOK'
    BY <1>1, <1>7 DEF RelayEnds, ControlOK, Outcomes, RelayTypes, RelayPCs
  <2>2. file' \in Files
    BY <1>1, <1>7, FilesTyped DEF RelayEnds
  <2> QED BY <1>1, <1>7, <2>1, <2>2, ClientSteps DEF RelayEnds
<1>8. CASE RelayFlushed
  <2>1. PICK end \in FlushEnds(file) :
          /\ file' = end.file
          /\ Returns(IF end.result = "Ok" /\ end.file.state = "Unwritten"
                       THEN "Error" ELSE end.result)
    BY <1>8 DEF RelayFlushed
  <2>2. end.file \in Files /\ end.result \in Outcomes
    BY <1>1, FilesTyped
  <2>3. ControlOK'
    BY <1>2, <2>1, <2>2 DEF Outcomes
  <2> QED BY <1>1, <1>8, <2>1, <2>2, <2>3, ClientSteps DEF RelayFlushed
<1>9. CASE RelayPostpones
  <2>1. ControlOK'
    BY <1>1, <1>9 DEF RelayPostpones, ControlOK, Outcomes, RelayTypes, RelayPCs
  <2> QED BY <1>1, <1>9, <2>1, ClientSteps DEF RelayPostpones
<1> QED BY <1>3, <1>4, <1>5, <1>6, <1>7, <1>8, <1>9 DEF RelayStep

\* What a response brings.
LEMMA ReceivedTyped ==
  ASSUME TypeOK, Hears("DataResponse")
  PROVE  Received(Head(rx)) \in Files
<1>1. Head(rx) \in ToDownloader /\ file \in Files
  BY HeadTailProperties DEF TypeOK, Hears, Files
<1>2. Head(rx) \in Pieces("DataResponse")
  BY <1>1 DEF Hears, ToDownloader, Hello, Opened, Failed
<1>3. Head(rx).offset \in Nat /\ Head(rx).len \in Nat
  BY <1>2, SizesArePositive DEF Pieces, Positions
<1>4. Bytes(Head(rx).offset, Head(rx).len) \in Seq(Nat)
  BY <1>3, BytesTyped
<1> QED BY <1>1, <1>4, FilesTyped DEF Received

\* The p2p side, as it hears and sends messages, fails and finishes.
LEMMA P2PSteps ==
  ASSUME TypeOK, P2PNext
  PROVE  TypeOK'
<1>1. /\ ControlOK /\ file \in Files /\ told \subseteq {"Finished", "Streamed"}
      /\ toUploader \in Seq(ToUploader) /\ rx \in Seq(ToDownloader)
  BY DEF TypeOK, ControlOK, Files, Outcomes, RelayTypes
<1>2. \A o \in Outcomes : Returns(o) => ControlOK'
  BY ReturnsTyped
<1>3. P2PFails => ControlOK'
  BY FailsTyped
<1>4. rx # << >> => Tail(rx) \in Seq(ToDownloader) /\ Head(rx) \in ToDownloader
  BY <1>1, HeadTailProperties
<1>5. \A m \in {Hello, Finished} : Append(toUploader, m) \in Seq(ToUploader)
  BY <1>1, AppendProperties DEF ToUploader
<1>6. ASSUME ControlOK', file' \in Files, UNCHANGED <<options, requested, told, channel>>,
             toUploader' \in Seq(ToUploader), rx' \in Seq(ToDownloader)
      PROVE  TypeOK'
  BY <1>6 DEF TypeOK, ControlOK, Files, Outcomes, RelayTypes, options
<1>7. CASE HearsOpened
  <2>1. ControlOK'
    BY <1>1, <1>3, <1>7 DEF HearsOpened, ControlOK
  <2>2. toUploader' \in Seq(ToUploader)
    BY <1>1, <1>5, <1>7 DEF HearsOpened
  <2> QED BY <1>1, <1>4, <1>6, <1>7, <2>1, <2>2 DEF HearsOpened, Hears
<1>8. CASE HearsHello
  <2>1. CASE Poisoned(file)
    <3>1. ControlOK'
      BY <1>2, <1>8, <2>1 DEF HearsHello, Outcomes
    <3> QED BY <1>1, <1>4, <1>6, <1>8, <2>1, <3>1 DEF HearsHello, Hears
  <2>2. CASE ~Poisoned(file)
    BY <1>1, <1>8, <2>2, AnswersTyped DEF HearsHello, Hears
  <2> QED BY <2>1, <2>2
<1>9. CASE HearsResponse
  <2>1. CASE Poisoned(file)
    <3>1. ControlOK'
      BY <1>2, <1>9, <2>1 DEF HearsResponse, Outcomes
    <3> QED BY <1>1, <1>4, <1>6, <1>9, <2>1, <3>1 DEF HearsResponse, Hears
  <2>2. CASE ~Poisoned(file)
    <3>1. Received(Head(rx)) \in Files
      BY <1>9, ReceivedTyped DEF HearsResponse
    <3> QED BY <1>9, <2>2, <3>1, AnswersTyped DEF HearsResponse, Hears
  <2> QED BY <2>1, <2>2
<1>10. CASE HearsError
  BY <1>1, <1>3, <1>4, <1>6, <1>10 DEF HearsError, Hears
<1>11. CASE Flushed
  <2>1. PICK end \in FlushEnds(file) :
          /\ file' = end.file
          /\ IF end.result = "PoisonedPanic" THEN Returns("PoisonedPanic") /\ UNCHANGED toUploader
             ELSE IF end.result = "Error" \/ channel # "Open" THEN P2PFails /\ UNCHANGED toUploader
             ELSE /\ toUploader' = Append(toUploader, Finished)
                  /\ IF pc \in ConnectPCs THEN Returns("Ok")
                     ELSE pc' = "Finishing" /\ flushing' = FALSE
                          /\ UNCHANGED <<outcome, before, relayed>>
    BY <1>11 DEF Flushed
  <2>2. file' \in Files
    BY <1>1, <2>1, FilesTyped
  <2>3. toUploader' \in Seq(ToUploader)
    BY <1>1, <1>5, <2>1
  <2>4. ControlOK'
    <3>1. (pc' = "Finishing" /\ flushing' = FALSE /\ UNCHANGED <<outcome, before, relayed>>)
            => ControlOK'
      BY <1>1 DEF ControlOK, PCs, RelayTypes
    <3>2. {"Ok", "PoisonedPanic"} \subseteq Outcomes
      BY DEF Outcomes
    <3> QED BY <1>2, <1>3, <2>1, <3>1, <3>2
  <2> QED BY <1>1, <1>6, <1>11, <2>2, <2>3, <2>4 DEF Flushed
<1>12. CASE TimesOut \/ SignalingFails
  BY <1>1, <1>3, <1>12, ClientSteps DEF TimesOut, SignalingFails, network
<1>13. CASE FinishesDownload
  BY <1>1, <1>2, <1>13, ClientSteps DEF FinishesDownload, network, Outcomes
<1>14. CASE FinishDownloadFails
  BY <1>1, <1>3, <1>14, ClientSteps DEF FinishDownloadFails, network
<1>15. CASE FinishDownloadPostponed \/ FinishDownloadResumes
  <2>1. ControlOK' /\ file' = file /\ told' \subseteq {"Finished", "Streamed"}
    BY <1>1, <1>15 DEF FinishDownloadPostponed, FinishDownloadResumes, ControlOK, PCs
  <2> QED BY <1>1, <1>15, <2>1, ClientSteps DEF FinishDownloadPostponed, FinishDownloadResumes
<1> QED BY <1>7, <1>8, <1>9, <1>10, <1>11, <1>12, <1>13, <1>14, <1>15 DEF P2PNext, FinishDownload

\* The channel and the peer.
LEMMA NetworkSteps ==
  ASSUME TypeOK, Network
  PROVE  TypeOK'
<1>1. ASSUME toUploader' \in Seq(ToUploader), rx' \in Seq(ToDownloader),
             channel' \in {"Closed", "Open", "Broken"},
             UNCHANGED <<options, pc, outcome, before, file, requested, flushing, relayed, told>>
      PROVE  TypeOK'
  BY <1>1 DEF TypeOK, options
<1>2. CASE ChannelOpens
  BY <1>1, <1>2, AppendProperties DEF ChannelOpens, TypeOK, ToDownloader
<1>3. CASE ChannelBreaks
  <2>1. PICK arrived \in 0..Len(rx), news \in {<< >>, <<Failed>>} :
          rx' = SubSeq(rx, 1, arrived) \o news
    BY <1>3 DEF ChannelBreaks
  <2>2. rx \in Seq(ToDownloader) /\ Len(rx) \in Nat
    BY LenProperties DEF TypeOK
  <2>3. SubSeq(rx, 1, arrived) \in Seq(ToDownloader)
    <3>1. \A i \in 1..arrived : rx[i] \in ToDownloader
      BY <2>2, ElementOfSeq, SMT
    <3> QED BY <2>2, <3>1, SubSeqProperties, SMT
  <2>4. news \in Seq(ToDownloader)
    <3>1. Failed \in ToDownloader
      BY DEF ToDownloader
    <3>2. <<Failed>> = [i \in 1..1 |-> Failed]
      OBVIOUS
    <3>3. <<Failed>> \in Seq(ToDownloader)
      BY <3>1, <3>2, IsASeq
    <3> QED BY <3>3, EmptySeq
  <2>5. rx' \in Seq(ToDownloader)
    BY <2>1, <2>3, <2>4, ConcatProperties
  <2> QED BY <1>1, <1>3, <2>5 DEF ChannelBreaks
<1>4. CASE UploaderServes
  <2>1. Head(toUploader) \in ToUploader /\ Tail(toUploader) \in Seq(ToUploader)
    BY <1>4, HeadTailProperties DEF UploaderServes, TypeOK
  <2>2. Replies(Head(toUploader)) \in Seq(ToDownloader)
    <3>1. Hello \in ToDownloader
      BY DEF ToDownloader
    <3>2. ASSUME Head(toUploader).tag = "DataRequest"
          PROVE  Response(Head(toUploader).offset, Head(toUploader).len) \in ToDownloader
      <4>1. Head(toUploader) \in Pieces("DataRequest")
        BY <2>1, <3>2 DEF ToUploader, Hello, Finished
      <4> QED BY <4>1 DEF Pieces, Response, ToDownloader
    <3> QED BY <3>1, <3>2 DEF Replies
  <2> QED BY <1>1, <1>4, <2>1, <2>2, ConcatProperties DEF UploaderServes, TypeOK
<1> QED BY <1>2, <1>3, <1>4 DEF Network

\* The types of the initial state.
LEMMA InitTyped ==
  ASSUME Init
  PROVE  TypeOK
<1>1. << >> \in Seq(Nat) /\ << >> \in Seq(ToUploader) /\ << >> \in Seq(ToDownloader)
  BY EmptySeq
<1>2. file \in [state : FileStates, data : Seq(Nat)]
  BY <1>1 DEF Init, FileStates
<1>3. requested \in Positions
  BY SizesArePositive DEF Init, Positions
<1>4. relayed \in [pc : RelayPCs, next : Nat, retries : 0..MaxRetries]
  BY RelaysTyped DEF Init, RelayTypes
<1> QED BY <1>1, <1>2, <1>3, <1>4 DEF Init, TypeOK, PCs, ConnectPCs

\* Every request for data stays within the file and within the window ahead of it,
\* every response is a piece of it, and the client is always at one of its awaits:
\* the variables of the download have their types.
THEOREM DownloadTypeCorrect == Spec => []TypeOK
<1>1. Init => TypeOK
  BY InitTyped
<1>2. TypeOK /\ [Next]_vars => TypeOK'
  <2>1. CASE UNCHANGED vars
    BY <2>1 DEF TypeOK, vars, options, network
  <2> QED BY <2>1, RelaySteps, P2PSteps, NetworkSteps DEF Next
<1> QED BY <1>1, <1>2, PTL DEF Spec

-----------------------------------------------------------------------------
(* The order of the bytes. *)

\* The relayed transfer runs in the race, or after it.
RelayRunsAlone == relayed.pc # "None" => pc \in {"Racing", "Relaying"}

\* A flush is awaited by the p2p side, once the file has all its bytes.
FlushIsDue == flushing => pc \in ConnectPCs \cup TransferPCs /\ file.state # "Unwritten"

\* What finish_download is at.
FinishingPCs == {"Finishing", "Postponed"}

NothingBeforeOpening == channel = "Closed" => rx = << >>

\* The channel broke while the peer and the relay raced: the file may have got the same bytes twice.
Garbled == channel = "Broken" /\ pc \in {"Relaying", "Done"}

Sound(f) ==
    /\ InOrder(f) /\ Len(f.data) <= Size
    /\ f.state # "Unwritten" => Len(f.data) = Size

\* The relayed transfer goes on where the file ends, unless it is fed no more.
FollowsTheFile ==
    relayed.pc \in {"Requesting", "Streaming"} /\ file.state = "Unwritten"
        => relayed.next = Len(file.data)

OrderInv == /\ TypeOK /\ RelayRunsAlone /\ FlushIsDue /\ NothingBeforeOpening
            /\ ~Garbled => Sound(file) /\ FollowsTheFile

\* Beginning and ending a flush leave the bytes alone, and a piece that starts where
\* the file ends is written in its place.
LEMMA SoundKept ==
  ASSUME NEW f \in Files, Sound(f)
  PROVE  /\ Sound(FlushBegun(f))
         /\ \A end \in FlushEnds(f) : Sound(end.file)
         /\ \A n \in Nat : f.state = "Unwritten" /\ Len(f.data) + n <= Size =>
                             Sound(Written(f, Bytes(Len(f.data), n)))
<1>1. Sound(FlushBegun(f))
  BY DEF FlushBegun, Sound, InOrder, Files, FileStates
<1>2. \A end \in FlushEnds(f) : Sound(end.file)
  <2>1. \A end \in FlushEnds(f) : end.file.data = f.data
                                  /\ (end.file.state = "Unwritten" <=> f.state = "Unwritten")
    BY DEF FlushEnds, Files, FileStates
  <2> QED BY <2>1 DEF Sound, InOrder
<1>3. ASSUME NEW n \in Nat, f.state = "Unwritten", Len(f.data) + n <= Size
      PROVE  Sound(Written(f, Bytes(Len(f.data), n)))
  <2> DEFINE b == Bytes(Len(f.data), n)
             g == Written(f, b)
  <2>1. f.data \in Seq(Nat) /\ Len(f.data) \in Nat /\ Size \in Nat
    BY LenProperties, SizesArePositive DEF Files
  <2>2. b \in Seq(Nat) /\ Len(b) = n /\ \A i \in 1..n : b[i] = Len(f.data) + i - 1
    BY <2>1, BytesTyped
  <2>3. g.data = f.data \o b /\ g.state = "Unwritten"
    BY <1>3 DEF Written, Files
  <2>4. Len(g.data) = Len(f.data) + n
    <3> HIDE DEF g, b
    <3> QED BY <2>1, <2>2, <2>3, ConcatProperties
  <2>5. ASSUME NEW i \in 1 .. Len(f.data) + n PROVE g.data[i] = i - 1
    <3> HIDE DEF g, b
    <3>1. CASE i <= Len(f.data)
      <4>1. g.data[i] = f.data[i]
        BY <2>1, <2>2, <2>3, <2>5, <3>1, ConcatProperties
      <4> QED BY <4>1, <3>1, <2>1 DEF Sound, InOrder
    <3>2. CASE ~(i <= Len(f.data))
      <4>1. i - Len(f.data) \in 1..n
        BY <2>1, <2>5, <3>2, SMT
      <4>2. g.data[i] = b[i - Len(f.data)]
        BY <2>1, <2>2, <2>3, <2>5, <3>2, ConcatProperties
      <4> QED BY <4>1, <4>2, <2>1, <2>2, SMT
    <3> QED BY <3>1, <3>2
  <2> QED BY <1>3, <2>3, <2>4, <2>5 DEF Sound, InOrder
<1> QED BY <1>1, <1>2, <1>3

\* What the end of a future leaves.
LEMMA ReturnsEnd ==
  ASSUME NEW o, Returns(o)
  PROVE  pc' = "Done" /\ relayed'.pc = "None" /\ flushing' = FALSE
BY DEF Returns, NoRelay

\* A failure of the peer-to-peer side ends its transfer: the relay goes on, or nothing does.
LEMMA FailsEnd ==
  ASSUME P2PFails
  PROVE  /\ flushing' = FALSE /\ pc' \in {"Racing", "Relaying", "Done"}
         /\ \/ pc' = "Done" /\ relayed'.pc = "None"
            \/ pc' \in {"Racing", "Relaying"} /\ relayed'.pc = "Starting"
            \/ pc = "Racing" /\ pc' = "Relaying" /\ relayed' = relayed
<1>1. \A o \in {"Error", "PoisonedPanic"} :
        Returns(o) => pc' = "Done" /\ relayed'.pc = "None" /\ flushing' = FALSE
  BY ReturnsEnd
<1>2. NewRelay.pc = "Starting"
  BY DEF NewRelay
<1> QED BY <1>1, <1>2 DEF P2PFails

\* A step that may flush the file but writes nothing to it.
LEMMA NothingWritten ==
  ASSUME OrderInv, ~Garbled',
         file' = file \/ file' = FlushBegun(file) \/ \E end \in FlushEnds(file) : file' = end.file,
         \/ relayed'.pc \notin {"Requesting", "Streaming"}
         \/ relayed' = relayed
         \/ relayed'.next = relayed.next /\ relayed.pc = "Requesting",
         Garbled => Garbled'
  PROVE  Sound(file') /\ FollowsTheFile'
<1>1. file \in Files /\ Sound(file) /\ FollowsTheFile
  BY DEF OrderInv, TypeOK, Files
<1>2. file'.data = file.data /\ (file'.state = "Unwritten" => file.state = "Unwritten")
  BY <1>1 DEF FlushBegun, FlushEnds, Files, FileStates
<1> QED BY <1>1, <1>2, SoundKept DEF FollowsTheFile

\* The steps of the relay's request keep the order.
LEMMA OrderRelay ==
  ASSUME OrderInv, TypeOK', RelayStep
  PROVE  OrderInv'
<1>1. /\ relayed.pc # "None" /\ pc \in {"Racing", "Relaying"}
      /\ file \in Files /\ relayed \in RelayTypes
  BY DEF RelayStep, RelayStarts, RelayResponds, RelayPostpones, RelayFails, RelayYields, RelayEnds,
         RelayFlushed, OrderInv, RelayRunsAlone, TypeOK, Files, RelayTypes
<1>2. \A o \in Outcomes : Returns(o) => pc' = "Done" /\ relayed'.pc = "None" /\ flushing' = FALSE
  BY ReturnsEnd
<1>3. /\ UNCHANGED network
      /\ \/ pc' = "Done" /\ relayed'.pc = "None" /\ flushing' = FALSE
         \/ UNCHANGED <<pc, flushing>>
  <2>1. \A end \in FlushEnds(file) : end.result \in Outcomes
    BY <1>1, FilesTyped
  <2> QED BY <1>2, <2>1 DEF RelayStep, RelayStarts, RelayResponds, RelayPostpones,
                            RelayFails, RelayYields,
                            RelayEnds, RelayFlushed, Outcomes, network
<1>4. Garbled => Garbled'
  BY <1>1, <1>3 DEF Garbled, network
<1>5. RelayRunsAlone' /\ NothingBeforeOpening'
  BY <1>1, <1>3 DEF OrderInv, RelayRunsAlone, NothingBeforeOpening, network
<1>6. FlushIsDue'
  <2>1. file.state # "Unwritten" => file'.state # "Unwritten"
    BY <1>1 DEF RelayStep, RelayStarts, RelayResponds, RelayPostpones,
                RelayFails, RelayYields, RelayEnds,
                RelayFlushed, FlushBegun, FlushEnds, Files, FileStates
  <2> QED BY <1>3, <2>1 DEF OrderInv, FlushIsDue
<1>7. ASSUME ~Garbled' PROVE Sound(file') /\ FollowsTheFile'
  <2>1. CASE RelayStarts
    <3>1. file' = file /\ (relayed'.pc = "None" \/ relayed'.next = Offset(file))
      BY <1>1, <1>2, <2>1 DEF RelayStarts, RelayTypes, Outcomes
    <3> QED BY <1>4, <1>7, <3>1 DEF OrderInv, FollowsTheFile, Offset
  <2>2. CASE RelayResponds
    <3>1. file' = file /\ relayed.pc = "Requesting" /\ relayed'.next = relayed.next
      BY <1>1, <2>2 DEF RelayResponds, RelayTypes
    <3> QED BY <1>4, <1>7, <3>1, NothingWritten
  <2>3. CASE RelayFails
    <3>1. file' = file /\ relayed'.pc \in {"None", "Starting"}
      BY <1>1, <1>2, <2>3 DEF RelayFails, RelayTypes, Outcomes
    <3> QED BY <1>4, <1>7, <3>1, NothingWritten
  <2>4. ASSUME NEW n \in 1..Size, RelayYields(n) PROVE Sound(file') /\ FollowsTheFile'
    <3>1. CASE file.state # "Unwritten"
      <4>1. file' = file /\ relayed'.pc = "None"
        BY <1>2, <2>4, <3>1 DEF RelayYields, Outcomes
      <4> QED BY <1>4, <1>7, <4>1, NothingWritten
    <3>2. CASE file.state = "Unwritten"
      <4>1. /\ relayed.pc = "Streaming" /\ relayed.next + n <= Size
            /\ file' = Written(file, Bytes(relayed.next, n))
            /\ relayed'.next = relayed.next + n
        BY <1>1, <2>4, <3>2 DEF RelayYields, RelayTypes
      <4>2. relayed.next = Len(file.data) /\ Sound(file)
        BY <1>4, <1>7, <3>2, <4>1 DEF OrderInv, FollowsTheFile
      <4>3. n \in Nat /\ file.data \in Seq(Nat)
        BY <1>1, SizesArePositive DEF Files
      <4>4. Sound(file')
        BY <1>1, <3>2, <4>1, <4>2, <4>3, SoundKept
      <4>5. Len(file'.data) = Len(file.data) + n
        <5> DEFINE b == Bytes(Len(file.data), n)
        <5>1. file'.data = file.data \o b
          BY <1>1, <4>1, <4>2 DEF Written, Files
        <5>2. b \in Seq(Nat) /\ Len(b) = n
          BY <4>3, BytesTyped, LenProperties
        <5>3. Len(file.data \o b) = Len(file.data) + Len(b)
          <6> HIDE DEF b
          <6> QED BY <4>3, <5>2, ConcatProperties
        <5> QED BY <5>1, <5>2, <5>3
      <4> QED BY <4>1, <4>2, <4>4, <4>5 DEF FollowsTheFile
    <3> QED BY <3>1, <3>2
  <2>5. CASE RelayEnds
    <3>1. file' = FlushBegun(file) /\ relayed'.pc = "Flushing"
      BY <1>1, <2>5 DEF RelayEnds, RelayTypes
    <3> QED BY <1>4, <1>7, <3>1, NothingWritten
  <2>6. CASE RelayFlushed
    <3>1. /\ \E end \in FlushEnds(file) : file' = end.file
          /\ relayed'.pc = "None"
      BY <2>6 DEF RelayFlushed, Returns, NoRelay
    <3> QED BY <1>4, <1>7, <3>1, NothingWritten
  <2>7. CASE RelayPostpones
    <3>1. file' = file /\ relayed'.pc = "Starting"
      BY <1>1, <2>7 DEF RelayPostpones, RelayTypes
    <3> QED BY <1>4, <1>7, <3>1, NothingWritten
  <2> QED BY <2>1, <2>2, <2>3, <2>4, <2>5, <2>6, <2>7 DEF RelayStep
<1> QED BY <1>5, <1>6, <1>7 DEF OrderInv

\* The answer to a message, once what it brought is in the file.
LEMMA OrderAnswers ==
  ASSUME OrderInv, NEW f \in Files, Hears("Hello") \/ Hears("DataResponse"),
         \/ f = file
         \/ file.state = "Unwritten" /\ f.state = "Unwritten",
         ~Garbled => Sound(f),
         RequestDataOrFinish(f), UNCHANGED channel, rx' = Tail(rx)
  PROVE  /\ RelayRunsAlone' /\ FlushIsDue' /\ NothingBeforeOpening'
         /\ ~Garbled' => Sound(file') /\ FollowsTheFile'
<1>1. /\ pc \in ConnectPCs \cup TransferPCs /\ ~flushing /\ rx # << >>
      /\ channel # "Closed" /\ ~Garbled /\ channel \in {"Closed", "Open", "Broken"}
  BY DEF Hears, Listening, OrderInv, TypeOK, NothingBeforeOpening, Garbled, ConnectPCs, TransferPCs
<1>2. NothingBeforeOpening'
  BY <1>1 DEF NothingBeforeOpening
<1>3. file' = FlushBegun(f) /\ file' \in Files /\ Sound(file')
  BY <1>1, FilesTyped, SoundKept DEF RequestDataOrFinish
<1>4. CASE Offset(f) >= Size
  <2>1. flushing' = TRUE /\ UNCHANGED <<pc, relayed>>
    BY <1>4 DEF RequestDataOrFinish
  <2>2. file'.state # "Unwritten"
    <3>1. f.state = "Unwritten" => Len(f.data) = Size
      <4>1. Len(f.data) <= Size /\ Len(f.data) \in Nat /\ Size \in Nat
        BY <1>1, LenProperties, SizesArePositive DEF Sound, Files
      <4> QED BY <1>4, <4>1, SMT DEF Offset
    <3> QED BY <1>3, <3>1 DEF FlushBegun, Files, FileStates
  <2> QED BY <1>1, <1>2, <1>3, <2>1, <2>2
          DEF OrderInv, RelayRunsAlone, FlushIsDue, FollowsTheFile
<1>5. CASE ~(Offset(f) >= Size) /\ Offset(f) > requested
  <2>1. pc' = "Done" /\ relayed'.pc = "None" /\ flushing' = FALSE
    BY <1>5, ReturnsEnd DEF RequestDataOrFinish
  <2> QED BY <1>2, <1>3, <2>1 DEF RelayRunsAlone, FlushIsDue, FollowsTheFile
<1>6. CASE /\ ~(Offset(f) >= Size) /\ ~(Offset(f) > requested)
           /\ Requests(f) # << >> /\ channel # "Open"
  <2>1. P2PFails
    BY <1>6 DEF RequestDataOrFinish
  <2>2. RelayRunsAlone' /\ FlushIsDue'
    BY <1>1, <2>1, FailsEnd DEF OrderInv, RelayRunsAlone, FlushIsDue
  <2>3. ~Garbled' => relayed'.pc \notin {"Requesting", "Streaming"}
    BY <1>1, <1>6, <2>1, FailsEnd DEF Garbled
  <2> QED BY <1>2, <1>3, <2>2, <2>3 DEF FollowsTheFile
<1>7. CASE /\ ~(Offset(f) >= Size) /\ ~(Offset(f) > requested)
           /\ ~(Requests(f) # << >> /\ channel # "Open")
  <2>1. Connects /\ UNCHANGED flushing
    BY <1>7 DEF RequestDataOrFinish
  <2>2. relayed'.pc = "None"
    BY <1>1, <2>1 DEF Connects, NoRelay, OrderInv, RelayRunsAlone, ConnectPCs, TransferPCs
  <2> QED BY <1>1, <1>2, <1>3, <2>1, <2>2
          DEF RelayRunsAlone, FlushIsDue, FollowsTheFile
<1> QED BY <1>4, <1>5, <1>6, <1>7

\* The steps of the peer-to-peer transfer keep the order.
LEMMA OrderP2P ==
  ASSUME OrderInv, TypeOK', P2PNext
  PROVE  OrderInv'
<1>1. /\ file \in Files /\ relayed \in RelayTypes
      /\ ~Garbled => Sound(file) /\ FollowsTheFile
      /\ rx \in Seq(ToDownloader) /\ channel \in {"Closed", "Open", "Broken"}
  BY DEF OrderInv, TypeOK, Files, RelayTypes
<1>2. \A o \in Outcomes : Returns(o) => pc' = "Done" /\ relayed'.pc = "None" /\ flushing' = FALSE
  BY ReturnsEnd
<1>3. pc \in ConnectPCs \cup TransferPCs \cup FinishingPCs
  BY DEF P2PNext, HearsOpened, HearsHello, HearsResponse, HearsError, Flushed, TimesOut,
         SignalingFails, FinishDownload, FinishesDownload, FinishDownloadFails,
         FinishDownloadPostponed, FinishDownloadResumes, FinishingPCs, Hears, Listening,
         OrderInv, FlushIsDue
<1>4. ~Garbled
  BY <1>3 DEF Garbled, ConnectPCs, TransferPCs, FinishingPCs
<1>5. ASSUME UNCHANGED channel, rx' = rx \/ (rx # << >> /\ rx' = Tail(rx))
      PROVE  NothingBeforeOpening'
  BY <1>5 DEF OrderInv, NothingBeforeOpening
<1>6. ASSUME UNCHANGED channel, rx' = rx \/ (rx # << >> /\ rx' = Tail(rx)),
             file' = file \/ \E end \in FlushEnds(file) : file' = end.file,
             P2PFails \/ (pc' = "Done" /\ relayed'.pc = "None" /\ flushing' = FALSE)
      PROVE  OrderInv'
  <2>1. RelayRunsAlone' /\ FlushIsDue'
    BY <1>6, FailsEnd DEF OrderInv, RelayRunsAlone, FlushIsDue
  <2>2. relayed'.pc \notin {"Requesting", "Streaming"} \/ relayed' = relayed
    BY <1>6, FailsEnd
  <2>3. ~Garbled' => Sound(file') /\ FollowsTheFile'
    BY <1>4, <1>6, <2>2, NothingWritten
  <2> QED BY <1>5, <1>6, <2>1, <2>3 DEF OrderInv
<1>7. CASE HearsOpened
  <2>1. CASE channel = "Open"
    BY <1>4, <1>5, <1>7, <2>1 DEF HearsOpened, Hears, OrderInv, RelayRunsAlone, FlushIsDue,
                                  FollowsTheFile
  <2>2. CASE channel # "Open"
    BY <1>6, <1>7, <2>2 DEF HearsOpened, Hears
  <2> QED BY <2>1, <2>2
<1>8. CASE HearsHello
  <2>1. CASE Poisoned(file)
    BY <1>2, <1>6, <1>8, <2>1 DEF HearsHello, Hears, Outcomes
  <2>2. CASE ~Poisoned(file)
    <3>1. RequestDataOrFinish(file) /\ UNCHANGED channel /\ rx' = Tail(rx) /\ Hears("Hello")
      BY <1>8, <2>2 DEF HearsHello
    <3>2. /\ RelayRunsAlone' /\ FlushIsDue' /\ NothingBeforeOpening'
          /\ ~Garbled' => Sound(file') /\ FollowsTheFile'
      BY <1>1, <3>1, OrderAnswers
    <3> QED BY <3>2 DEF OrderInv
  <2> QED BY <2>1, <2>2
<1>9. CASE HearsResponse
  <2>1. CASE Poisoned(file)
    BY <1>2, <1>6, <1>9, <2>1 DEF HearsResponse, Hears, Outcomes
  <2>2. CASE ~Poisoned(file)
    <3> DEFINE m == Head(rx)
               f == Received(m)
    <3>1. RequestDataOrFinish(f) /\ UNCHANGED channel /\ rx' = Tail(rx) /\ Hears("DataResponse")
      BY <1>9, <2>2 DEF HearsResponse
    <3>2. m \in Pieces("DataResponse")
      <4>1. m \in ToDownloader
        BY <1>1, <3>1, HeadTailProperties DEF Hears
      <4> QED BY <3>1, <4>1 DEF Hears, ToDownloader, Hello, Opened, Failed
    <3>3. m.offset \in Nat /\ m.len \in Nat /\ m.offset + m.len <= Size
      BY <3>2, SizesArePositive DEF Pieces, Positions
    <3>9. (/\ RelayRunsAlone' /\ FlushIsDue' /\ NothingBeforeOpening'
           /\ ~Garbled' => Sound(file') /\ FollowsTheFile') => OrderInv'
      BY DEF OrderInv
    <3>4. CASE file.state = "Unwritten" /\ m.offset = Offset(file)
      <4> HIDE DEF m
      <4>1. f = Written(file, Bytes(Len(file.data), m.len)) /\ m.offset = Len(file.data)
        BY <3>4 DEF Received, Offset
      <4> DEFINE b == Bytes(Len(file.data), m.len)
      <4>2. f \in Files
        <5>1. b \in Seq(Nat)
          BY <3>3, <4>1, BytesTyped
        <5> HIDE DEF b
        <5>2. Written(file, b) \in Files
          BY <1>1, <5>1, FilesTyped
        <5> QED BY <4>1, <5>2 DEF b
      <4>3. f.state = "Unwritten"
        <5> HIDE DEF b
        <5>1. Written(file, b).state = file.state
          BY <1>1 DEF Written, Files
        <5> QED BY <3>4, <4>1, <5>1 DEF b
      <4>4. Sound(f)
        <5>1. Sound(Written(file, b))
          BY <1>1, <1>4, <3>3, <3>4, <4>1, SoundKept
        <5> QED BY <4>1, <5>1
      <4> HIDE DEF f
      <4> QED BY <3>1, <3>9, <3>4, <4>2, <4>3, <4>4, OrderAnswers
    <3>5. CASE ~(file.state = "Unwritten" /\ m.offset = Offset(file))
      <4>1. f = file
        BY <3>5 DEF Received
      <4> HIDE DEF f
      <4> QED BY <1>1, <3>1, <3>9, <4>1, OrderAnswers
    <3> QED BY <3>4, <3>5
  <2> QED BY <2>1, <2>2
<1>10. CASE HearsError
  BY <1>6, <1>10 DEF HearsError, Hears
<1>11. CASE Flushed
  <2>1. PICK end \in FlushEnds(file) :
          /\ file' = end.file
          /\ \/ Returns("PoisonedPanic") \/ P2PFails \/ Returns("Ok")
             \/ /\ pc \notin ConnectPCs /\ pc' = "Finishing" /\ flushing' = FALSE
                /\ UNCHANGED relayed
    BY <1>11 DEF Flushed
  <2>2. UNCHANGED <<channel, rx>> /\ flushing
    BY <1>11 DEF Flushed
  <2>3. CASE Returns("PoisonedPanic") \/ P2PFails \/ Returns("Ok")
    BY <1>2, <1>6, <2>1, <2>2, <2>3 DEF Outcomes
  <2>4. CASE /\ pc \notin ConnectPCs /\ pc' = "Finishing" /\ flushing' = FALSE
             /\ UNCHANGED relayed
    <3>1. relayed.pc = "None" /\ relayed'.pc = "None"
      BY <1>3, <2>2, <2>4
      DEF OrderInv, FlushIsDue, RelayRunsAlone, ConnectPCs, TransferPCs
    <3>2. ~Garbled' => Sound(file') /\ FollowsTheFile'
      BY <1>4, <2>1, <3>1, NothingWritten
    <3> QED BY <1>5, <2>2, <2>4, <3>1, <3>2 DEF OrderInv, RelayRunsAlone, FlushIsDue
  <2> QED BY <2>1, <2>3, <2>4
<1>12. CASE TimesOut \/ SignalingFails
  BY <1>6, <1>12 DEF TimesOut, SignalingFails, network
<1>13. CASE FinishesDownload
  BY <1>2, <1>6, <1>13 DEF FinishesDownload, network, Outcomes
<1>14. CASE FinishDownloadFails
  BY <1>6, <1>14 DEF FinishDownloadFails, network
<1>15. CASE FinishDownloadPostponed \/ FinishDownloadResumes
  <2>1. /\ UNCHANGED <<file, relayed, flushing, channel, rx>>
        /\ pc \in FinishingPCs /\ pc' \in FinishingPCs
    BY <1>15 DEF FinishDownloadPostponed, FinishDownloadResumes, FinishingPCs, network
  <2>2. relayed.pc = "None" /\ flushing # TRUE
    BY <2>1 DEF OrderInv, RelayRunsAlone, FlushIsDue, FinishingPCs, ConnectPCs, TransferPCs
  <2>3. ~Garbled' => Sound(file') /\ FollowsTheFile'
    BY <1>4, <2>1, <2>2, NothingWritten
  <2> QED BY <1>5, <2>1, <2>2, <2>3 DEF OrderInv, RelayRunsAlone, FlushIsDue
<1> QED BY <1>7, <1>8, <1>9, <1>10, <1>11, <1>12, <1>13, <1>14, <1>15 DEF P2PNext, FinishDownload

\* The channel and the uploader keep the order.
LEMMA OrderNetwork ==
  ASSUME OrderInv, TypeOK', Network
  PROVE  OrderInv'
<1>1. /\ pc \in ConnectPCs \cup TransferPCs /\ channel' # "Closed"
      /\ UNCHANGED <<pc, file, flushing, relayed>>
  BY DEF Network, ChannelOpens, ChannelBreaks, UploaderServes, Watched
<1>2. ~Garbled /\ ~Garbled'
  BY <1>1 DEF Garbled, ConnectPCs, TransferPCs
<1> QED BY <1>1, <1>2
        DEF OrderInv, RelayRunsAlone, FlushIsDue, NothingBeforeOpening, FollowsTheFile

\* The order holds at first, when nothing was requested.
LEMMA OrderInit ==
  ASSUME Init
  PROVE  OrderInv
<1>1. TypeOK /\ RelayRunsAlone /\ FlushIsDue /\ NothingBeforeOpening
  BY InitTyped DEF Init, RelayRunsAlone, FlushIsDue, NothingBeforeOpening, NoRelay, NewRelay
<1>2. Sound(file) /\ FollowsTheFile
  BY SizesArePositive, EmptySeq DEF Init, Sound, InOrder, FollowsTheFile, NoRelay, NewRelay
<1> QED BY <1>1, <1>2 DEF OrderInv

\* Every step keeps the order.
LEMMA OrderNext ==
  ASSUME OrderInv, [Next]_vars
  PROVE  OrderInv'
<1>1. CASE UNCHANGED vars
  BY <1>1 DEF vars, options, network, OrderInv, TypeOK, RelayRunsAlone, FlushIsDue,
              NothingBeforeOpening, Garbled, FollowsTheFile
<1>2. CASE Next
  <2>1. TypeOK'
    BY <1>2, RelaySteps, P2PSteps, NetworkSteps DEF OrderInv, Next
  <2> QED BY <1>2, <2>1, OrderRelay, OrderP2P, OrderNetwork DEF Next
<1> QED BY <1>1, <1>2

\* Whatever the sizes, and however often the peer and the relay take the transfer from
\* each other, the bytes are written to the file in their order, unless the channel
\* broke in the race: handle_uploader_message takes the next piece only, and
\* download_content asks the relay for what follows what the file holds.
THEOREM ContentArrivesInOrder == Spec => []ContentIsInOrder
<1>1. Init => OrderInv
  BY OrderInit
<1>2. OrderInv /\ [Next]_vars => OrderInv'
  BY OrderNext
<1>3. OrderInv => ContentIsInOrder
  BY DEF OrderInv, Sound, Garbled, ContentIsInOrder
<1> QED BY <1>1, <1>2, <1>3, PTL DEF Spec

-----------------------------------------------------------------------------
(* The end of a transfer. *)

\* While finish_download runs the file is complete, and only the file that the
\* uploader encrypted becomes complete.
FinishedIsComplete == pc \in FinishingPCs => file.state = "Complete"
CompleteIsAuthentic == file.state = "Complete" => Authentic(file)

SomebodyWasTold ==
    outcome = "Ok" \/ "Finished" \in told \/ \E i \in 1..Len(toUploader) : toUploader[i] = Finished

OverInv == OrderInv /\ FinishedIsComplete /\ CompleteIsAuthentic /\ OverMeansWritten

\* A file that was written is not written again, and it is written by a flush that
\* finds it authentic.
LEMMA CompleteStays ==
  ASSUME OverInv, Next
  PROVE  /\ file.state = "Complete" => file' = file
         /\ file'.state = "Complete" => Authentic(file')
<1>1. file \in Files /\ CompleteIsAuthentic
  BY DEF OverInv, OrderInv, TypeOK, Files
<1>2. \A end \in FlushEnds(file) :
          /\ file.state = "Complete" => end.file = file
          /\ end.file.state = "Complete" => Authentic(end.file)
          /\ end.result = "Ok" => end.file.state \in {"Complete", "Unwritten"}
  BY <1>1 DEF FlushEnds, Files, FileStates, Authentic, Poisoned, CompleteIsAuthentic
<1>3. \A f \in Files : f.state # "Complete" => FlushBegun(f).state # "Complete"
  BY DEF FlushBegun, Files, FileStates
<1>4. \A bytes : file.state = "Unwritten" => Written(file, bytes).state = "Unwritten"
  BY <1>1 DEF Written, Files
<1>5. CASE UNCHANGED file
  BY <1>1, <1>5 DEF CompleteIsAuthentic
<1>6. CASE \E end \in FlushEnds(file) : file' = end.file
  BY <1>2, <1>6
<1>7. CASE file' = FlushBegun(file)
  BY <1>1, <1>3, <1>7 DEF FlushBegun, CompleteIsAuthentic
<1>8. ASSUME NEW response, file' = FlushBegun(Received(response))
      PROVE  /\ file.state = "Complete" => file' = file
             /\ file'.state = "Complete" => Authentic(file')
  <2>1. CASE file.state = "Unwritten"
    <3>1. Received(response).state = "Unwritten"
      BY <1>4, <2>1 DEF Received
    <3> QED BY <1>8, <2>1, <3>1 DEF FlushBegun
  <2>2. CASE file.state # "Unwritten"
    <3>1. Received(response) = file
      BY <2>2 DEF Received
    <3> QED BY <1>7, <1>8, <3>1
  <2> QED BY <2>1, <2>2
<1>9. ASSUME NEW n \in 1..Size, RelayYields(n)
      PROVE  /\ file.state = "Complete" => file' = file
             /\ file'.state = "Complete" => Authentic(file')
  BY <1>4, <1>5, <1>9 DEF RelayYields
<1> QED BY <1>5, <1>6, <1>7, <1>8, <1>9
        DEF Next, P2PNext, HearsOpened, HearsHello, HearsResponse, HearsError, Flushed,
            TimesOut, SignalingFails, FinishDownload, FinishesDownload, FinishDownloadFails,
            FinishDownloadPostponed, FinishDownloadResumes, RelayStep,
            RelayStarts, RelayResponds, RelayPostpones,
            RelayFails, RelayEnds, RelayFlushed, Network,
            ChannelOpens, ChannelBreaks, UploaderServes, RequestDataOrFinish

ToldPeer(queue) == \E i \in 1..Len(queue) : queue[i] = Finished

\* No failure says that the transfer is over.
LEMMA FailsTellNobody ==
  ASSUME P2PFails
  PROVE  pc' \notin FinishingPCs /\ (outcome' = "Ok" => outcome = "Ok")
BY DEF P2PFails, Returns, FinishingPCs

\* Requests do not say that the transfer is over, nor do greetings.
LEMMA MessagesTellNobody ==
  ASSUME TypeOK
  PROVE  /\ ToldPeer(Append(toUploader, Hello)) => ToldPeer(toUploader)
         /\ toUploader # << >> /\ ToldPeer(Tail(toUploader)) => ToldPeer(toUploader)
         /\ \A f \in Files : Offset(f) <= requested /\ ToldPeer(toUploader \o Requests(f))
                               => ToldPeer(toUploader)
<1>1. toUploader \in Seq(ToUploader) /\ Len(toUploader) \in Nat
  BY LenProperties DEF TypeOK
<1>2. ASSUME ToldPeer(Append(toUploader, Hello)) PROVE ToldPeer(toUploader)
  <2>1. Hello \in ToUploader /\ Hello # Finished
    BY DEF ToUploader, Hello, Finished
  <2>2. PICK i \in 1 .. Len(toUploader) + 1 : Append(toUploader, Hello)[i] = Finished
    BY <1>1, <1>2, <2>1, AppendProperties DEF ToldPeer
  <2>3. i \in 1..Len(toUploader) /\ toUploader[i] = Finished
    <3>1. i = Len(toUploader) + 1 => Append(toUploader, Hello)[i] = Hello
      BY <1>1, <2>1, AppendProperties
    <3>2. i # Len(toUploader) + 1 => i \in 1..Len(toUploader)
      BY <1>1, SMT
    <3>3. i \in 1..Len(toUploader) => Append(toUploader, Hello)[i] = toUploader[i]
      BY <1>1, <2>1, AppendProperties
    <3> QED BY <2>1, <2>2, <3>1, <3>2, <3>3
  <2> QED BY <2>3 DEF ToldPeer
<1>3. ASSUME toUploader # << >>, ToldPeer(Tail(toUploader)) PROVE ToldPeer(toUploader)
  <2>1. PICK i \in 1 .. Len(toUploader) - 1 : Tail(toUploader)[i] = Finished
    BY <1>1, <1>3, HeadTailProperties DEF ToldPeer
  <2>2. i + 1 \in 1..Len(toUploader) /\ toUploader[i + 1] = Finished
    BY <1>1, <1>3, <2>1, HeadTailProperties
  <2> QED BY <2>2 DEF ToldPeer
<1>4. ASSUME NEW f \in Files, Offset(f) <= requested, ToldPeer(toUploader \o Requests(f))
      PROVE  ToldPeer(toUploader)
  <2> DEFINE q == Requests(f)
  <2>1. q \in Seq(ToUploader) /\ Len(q) \in Nat
    BY <1>4, RequestsTyped, LenProperties
  <2>2. \A i \in 1..Len(q) : q[i] # Finished
    <3> DEFINE end == RequestedAfter(f)
               n == (end - requested + ChunkSize - 1) \div ChunkSize
               at(i) == requested + (i - 1) * ChunkSize
               piece(i) == Request(at(i), Least(ChunkSize, end - at(i)))
    <3>1. q = [i \in 1..n |-> piece(i)]
      BY DEF Requests
    <3>2. \A i : piece(i) # Finished
      <4>1. \A a, b : Request(a, b).tag # Finished.tag
        BY DEF Request, Finished
      <4> QED BY <4>1
    <3>3. DOMAIN q = 1..Len(q)
      BY <2>1, LenProperties
    <3> HIDE DEF q, n, end, at, piece
    <3> QED BY <3>1, <3>2, <3>3
  <2> HIDE DEF q
  <2>3. PICK i \in 1 .. Len(toUploader) + Len(q) : (toUploader \o q)[i] = Finished
    BY <1>1, <1>4, <2>1, ConcatProperties DEF ToldPeer, q
  <2>4. CASE i <= Len(toUploader)
    <3>1. toUploader[i] = Finished /\ i \in 1..Len(toUploader)
      BY <1>1, <2>1, <2>3, <2>4, ConcatProperties
    <3> QED BY <3>1 DEF ToldPeer
  <2>5. CASE ~(i <= Len(toUploader))
    <3>1. i - Len(toUploader) \in 1..Len(q)
      BY <1>1, <2>1, <2>5, SMT
    <3>2. (toUploader \o q)[i] = q[i - Len(toUploader)]
      BY <1>1, <2>1, <2>3, <2>5, ConcatProperties
    <3> QED BY <2>2, <2>3, <3>1, <3>2
  <2> QED BY <2>4, <2>5
<1> QED BY <1>2, <1>3, <1>4

\* TransferFinished is sent, and finish_download begun, when the flush succeeded.
LEMMA FlushTells ==
  ASSUME OverInv, Flushed
  PROVE  file'.state = "Complete" \/ (/\ outcome' = "Ok" => outcome = "Ok"
                                      /\ UNCHANGED <<told, toUploader>> /\ pc' \notin FinishingPCs)
<1>1. file \in Files /\ flushing /\ file.state # "Unwritten"
  BY DEF OverInv, OrderInv, FlushIsDue, TypeOK, Files, Flushed
<1>2. PICK end \in FlushEnds(file) :
          /\ file' = end.file
          /\ \/ Returns("PoisonedPanic") /\ UNCHANGED toUploader
             \/ P2PFails /\ UNCHANGED toUploader
             \/ end.result = "Ok"
  <2>1. \A end \in FlushEnds(file) : end.result \in {"Ok", "Error", "PoisonedPanic"}
    BY DEF FlushEnds
  <2> QED BY <2>1 DEF Flushed
<1>3. UNCHANGED told
  BY DEF Flushed
<1>4. CASE Returns("PoisonedPanic") /\ UNCHANGED toUploader
  BY <1>3, <1>4 DEF Returns, FinishingPCs
<1>5. CASE P2PFails /\ UNCHANGED toUploader
  BY <1>3, <1>5, FailsTellNobody
<1>6. CASE end.result = "Ok"
  <2>1. end.file.state = "Complete"
    BY <1>1, <1>6 DEF FlushEnds, Files, FileStates, Poisoned
  <2> QED BY <1>2, <2>1
<1> QED BY <1>2, <1>4, <1>5, <1>6

\* Nobody is told that the transfer is over before the file is complete.
LEMMA TellsWhenComplete ==
  ASSUME OverInv, Next
  PROVE  \/ file'.state = "Complete"
         \/ /\ SomebodyWasTold' => SomebodyWasTold
            /\ pc' \in FinishingPCs => pc \in FinishingPCs
<1>1. /\ TypeOK /\ file \in Files /\ toUploader \in Seq(ToUploader)
      /\ FinishedIsComplete
  BY DEF OverInv, OrderInv, TypeOK, Files
<1>2. SomebodyWasTold <=> outcome = "Ok" \/ "Finished" \in told \/ ToldPeer(toUploader)
  BY DEF SomebodyWasTold, ToldPeer
<1>3. SomebodyWasTold' <=> (outcome' = "Ok" \/ "Finished" \in told' \/ ToldPeer(toUploader'))
  BY DEF SomebodyWasTold, ToldPeer
<1>4. \A o \in Outcomes \ {"Ok"} : Returns(o) => pc' \notin FinishingPCs /\ outcome' # "Ok"
  BY DEF Returns, FinishingPCs
<1> DEFINE Goal == \/ file'.state = "Complete"
                   \/ /\ SomebodyWasTold' => SomebodyWasTold
                      /\ pc' \in FinishingPCs => pc \in FinishingPCs
<1>5. CASE UNCHANGED <<outcome, told, toUploader>> /\ pc' = pc
  BY <1>2, <1>3, <1>5
<1>6. ASSUME UNCHANGED told, pc' \notin FinishingPCs, outcome' # "Ok" \/ UNCHANGED outcome,
             ToldPeer(toUploader') => ToldPeer(toUploader)
      PROVE  Goal
  BY <1>2, <1>3, <1>6
<1>7. ASSUME P2PFails, UNCHANGED <<told, toUploader>> PROVE Goal
  BY <1>2, <1>3, <1>7, FailsTellNobody
<1>8. CASE HearsOpened
  <2>1. CASE channel = "Open"
    BY <1>1, <1>2, <1>3, <1>8, <2>1, MessagesTellNobody DEF HearsOpened
  <2>2. CASE channel # "Open"
    BY <1>7, <1>8, <2>2 DEF HearsOpened
  <2> QED BY <2>1, <2>2
<1>9. ASSUME NEW f \in Files, RequestDataOrFinish(f), UNCHANGED told, pc \notin FinishingPCs
      PROVE  Goal
  <2>1. CASE Offset(f) >= Size
    BY <1>5, <1>9, <2>1 DEF RequestDataOrFinish
  <2>2. CASE ~(Offset(f) >= Size) /\ Offset(f) > requested
    BY <1>4, <1>6, <1>9, <2>2 DEF RequestDataOrFinish, Outcomes
  <2>3. CASE /\ ~(Offset(f) >= Size) /\ ~(Offset(f) > requested)
             /\ Requests(f) # << >> /\ channel # "Open"
    BY <1>7, <1>9, <2>3 DEF RequestDataOrFinish
  <2>4. CASE /\ ~(Offset(f) >= Size) /\ ~(Offset(f) > requested)
             /\ ~(Requests(f) # << >> /\ channel # "Open")
    <3>1. /\ toUploader' = toUploader \o Requests(f) /\ UNCHANGED outcome
          /\ pc' \notin FinishingPCs
      BY <1>9, <2>4 DEF RequestDataOrFinish, Connects, TransferPCs, FinishingPCs
    <3>2. Offset(f) <= requested
      BY <1>1, <1>9, <2>4, FilesTyped, SizesArePositive DEF TypeOK, Positions
    <3> QED BY <1>1, <1>2, <1>3, <1>9, <3>1, <3>2, MessagesTellNobody
  <2> QED BY <2>1, <2>2, <2>3, <2>4
<1>10. CASE HearsHello \/ HearsResponse
  <2>1. pc \notin FinishingPCs /\ UNCHANGED told
    BY <1>10 DEF HearsHello, HearsResponse, Hears, Listening, ConnectPCs, TransferPCs,
                 FinishingPCs
  <2>2. CASE Returns("PoisonedPanic") /\ UNCHANGED toUploader
    BY <1>4, <1>6, <2>1, <2>2 DEF Outcomes
  <2>3. CASE RequestDataOrFinish(file)
    BY <1>1, <1>9, <2>1, <2>3
  <2>4. CASE HearsResponse /\ RequestDataOrFinish(Received(Head(rx)))
    BY <1>1, <1>9, <2>1, <2>4, ReceivedTyped DEF HearsResponse
  <2> QED BY <1>10, <2>2, <2>3, <2>4 DEF HearsHello, HearsResponse
<1>11. CASE HearsError \/ TimesOut \/ SignalingFails
  BY <1>7, <1>11 DEF HearsError, TimesOut, SignalingFails, network
<1>12. CASE Flushed
  BY <1>2, <1>3, <1>12, FlushTells
<1>13. CASE FinishDownload
  BY <1>1, <1>13 DEF FinishDownload, FinishesDownload, FinishDownloadFails,
     FinishDownloadPostponed, FinishDownloadResumes, FinishedIsComplete, FinishingPCs
<1>14. CASE RelayStep
  <2>1. RelayFlushed \/ UNCHANGED toUploader
    BY <1>14 DEF RelayStep, RelayStarts, RelayResponds, RelayPostpones,
                 RelayFails, RelayYields, RelayEnds,
                 network
  <2>2. CASE RelayFlushed
    <3>1. PICK end \in FlushEnds(file) :
            /\ file' = end.file
            /\ Returns(IF end.result = "Ok" /\ end.file.state = "Unwritten"
                         THEN "Error" ELSE end.result)
      BY <2>2 DEF RelayFlushed
    <3>2. end.result = "Ok" => end.file.state \in {"Complete", "Unwritten"}
      BY <1>1 DEF FlushEnds, Files, FileStates, Poisoned
    <3>3. UNCHANGED <<told, toUploader>>
      BY <2>2 DEF RelayFlushed, network
    <3>4. end.result \in Outcomes
      BY <1>1, FilesTyped
    <3> QED BY <1>6, <3>1, <3>2, <3>3, <3>4 DEF Returns, FinishingPCs
  <2>3. CASE ~RelayFlushed
    <3>1. /\ "Finished" \in told' => "Finished" \in told
          /\ UNCHANGED toUploader
      BY <1>14, <2>3 DEF RelayStep, RelayStarts, RelayResponds, RelayPostpones,
                         RelayFails, RelayYields,
                         RelayEnds, network
    <3>2. /\ outcome' = "Ok" => outcome = "Ok"
          /\ pc' \in FinishingPCs => pc \in FinishingPCs
      BY <1>14, <2>3, <1>4 DEF RelayStep, RelayStarts, RelayResponds, RelayPostpones,
                               RelayFails, RelayYields,
                               RelayEnds, Outcomes
    <3> QED BY <1>2, <1>3, <3>1, <3>2
  <2> QED BY <2>2, <2>3
<1>15. CASE ChannelOpens
  BY <1>5, <1>15 DEF ChannelOpens
<1>16. CASE ChannelBreaks
  <2>1. toUploader' = << >> /\ UNCHANGED <<pc, outcome, told>>
    BY <1>16 DEF ChannelBreaks
  <2>2. ~ToldPeer(<< >>)
    BY EmptySeq DEF ToldPeer
  <2> QED BY <1>2, <1>3, <2>1, <2>2
<1>17. CASE UploaderServes
  BY <1>1, <1>2, <1>3, <1>17, MessagesTellNobody DEF UploaderServes
<1> QED BY <1>8, <1>10, <1>11, <1>12, <1>13, <1>14, <1>15, <1>16, <1>17
        DEF Next, P2PNext, Network

\* However the download went, TransferFinished, finish_download and Ok say what they
\* mean: all of the file has been received, has been found authentic and is written.
THEOREM OverOnlyWhenWritten == Spec => []OverMeansWritten
<1>1. Init => OverInv
  <2>1. ASSUME Init PROVE ~SomebodyWasTold /\ pc \notin FinishingPCs /\ file.state = "Unwritten"
    BY <2>1, EmptySeq DEF Init, SomebodyWasTold, FinishingPCs
  <2> QED BY <2>1, OrderInit DEF OverInv, FinishedIsComplete, CompleteIsAuthentic,
                                OverMeansWritten, SomebodyWasTold
<1>2. OverInv /\ [Next]_vars => OverInv'
  <2>1. CASE UNCHANGED vars
    BY <2>1, OrderNext DEF vars, options, network, OverInv, FinishedIsComplete,
       CompleteIsAuthentic, OverMeansWritten
  <2>2. ASSUME OverInv, Next PROVE OverInv'
    <3>1. OrderInv' /\ CompleteIsAuthentic'
      BY <2>2, OrderNext, CompleteStays DEF OverInv, CompleteIsAuthentic
    <3>2. SomebodyWasTold => file'.state = "Complete"
      BY <2>2, CompleteStays DEF OverInv, OverMeansWritten, SomebodyWasTold
    <3>3. pc \in FinishingPCs => file'.state = "Complete"
      BY <2>2, CompleteStays DEF OverInv, FinishedIsComplete
    <3>4. file'.state = "Complete" \/ (~SomebodyWasTold' /\ pc' \notin FinishingPCs)
      BY <2>2, <3>2, <3>3, TellsWhenComplete
    <3> QED BY <3>1, <3>4 DEF OverInv, FinishedIsComplete, CompleteIsAuthentic,
                              OverMeansWritten, SomebodyWasTold
  <2> QED BY <2>1, <2>2
<1>3. OverInv => OverMeansWritten
  BY DEF OverInv
<1> QED BY <1>1, <1>2, <1>3, PTL DEF Spec

-----------------------------------------------------------------------------
(* The window of requests. *)

\* Each message of the queue goes on where the one before ends, from first to last.
InChain(queue, first, last) ==
    /\ queue # << >>
    /\ queue[1].offset = first
    /\ \A i \in 1..Len(queue) :
        queue[i].offset + queue[i].len = IF i = Len(queue) THEN last ELSE queue[i + 1].offset

\* Until the peer has said hello, one message at most is on its way, and it is not about data.
OneHello ==
    \/ channel = "Closed" /\ rx = << >> /\ toUploader = << >>
    \/ channel = "Open" /\ rx = <<Opened>> /\ toUploader = << >>
    \/ channel = "Open" /\ rx = << >> /\ toUploader = <<Hello>>
    \/ channel = "Open" /\ rx = <<Hello>> /\ toUploader = << >>

Opening ==
    pc = "Connecting" /\ channel # "Broken" =>
        /\ ~flushing /\ requested = 0 /\ file = [state |-> "Unwritten", data |-> << >>]
        /\ OneHello

OnlyData ==
    /\ \A i \in 1..Len(rx) : rx[i].tag = "DataResponse"
    /\ \A i \in 1..Len(toUploader) : toUploader[i].tag = "DataRequest"

Flowing ==
    /\ requested = Least(Size, Offset(file) + Window)
    /\ file.state = "Unwritten" /\ OnlyData
    /\ InChain(InFlight, Offset(file), requested)

InWindow ==
    pc = "Transferring" =>
        channel # "Closed" /\ (~flushing /\ channel = "Open" => Flowing)

WindowInv == OrderInv /\ Opening /\ InWindow

\* A run of length x that is not empty, cut every c, ends in its last piece.
LEMMA CutsReachTheEnd ==
  ASSUME NEW x \in Nat, NEW c \in Nat \ {0}
  PROVE  LET n == (x + c - 1) \div c
         IN  /\ n \in Nat /\ (n = 0 <=> x = 0)
             /\ x <= n * c
             /\ \A i \in 1..n : i # n => i * c < x
<1> DEFINE n == (x + c - 1) \div c
<1>1. n \in Int /\ n * c <= x + c - 1 /\ x + c - 1 < n * c + c
  BY SMT
<1>2. x <= n * c
  <2> HIDE DEF n
  <2> QED BY <1>1, SMT
<1>3. n \in Nat
  BY SMT
<1>4. n = 0 => x = 0
  BY <1>2, SMT
<1>5. x = 0 => n = 0
  BY SMT
<1>6. ASSUME NEW i \in 1..n, i # n PROVE i * c < x
  <2>1. (i + 1) * c <= n * c
    <3> HIDE DEF n
    <3> QED BY <1>1, <1>6, SMT
  <2>2. (i + 1) * c = i * c + c
    <3> HIDE DEF n
    <3> QED BY <1>1, <1>6, SMT
  <2> HIDE DEF n
  <2> QED BY <2>1, <2>2, <1>1, <1>6, SMT
<1> QED BY <1>2, <1>3, <1>4, <1>5, <1>6

\* Two chains, the second from where the first ends, are one.
LEMMA ChainsJoin ==
  ASSUME NEW S, NEW p \in Seq(S), NEW q \in Seq(S), NEW a, NEW b, NEW c,
         InChain(p, a, b), InChain(q, b, c)
  PROVE  InChain(p \o q, a, c)
<1>1. /\ Len(p) \in Nat \ {0} /\ Len(q) \in Nat \ {0}
      /\ p \o q \in Seq(S) /\ Len(p \o q) = Len(p) + Len(q)
      /\ \A i \in 1..Len(p) : (p \o q)[i] = p[i]
      /\ \A i \in 1..Len(q) : (p \o q)[Len(p) + i] = q[i]
  <2>1. Len(p) # 0 /\ Len(q) # 0 /\ Len(p) \in Nat /\ Len(q) \in Nat
    BY LenProperties, EmptySeq DEF InChain
  <2>2. /\ p \o q \in Seq(S) /\ Len(p \o q) = Len(p) + Len(q)
        /\ \A i \in 1 .. Len(p) + Len(q) : (p \o q)[i] =
              IF i <= Len(p) THEN p[i] ELSE q[i - Len(p)]
    BY ConcatProperties
  <2>3. ASSUME NEW i \in 1..Len(q) PROVE (p \o q)[Len(p) + i] = q[i]
    <3>1. Len(p) + i \in 1 .. Len(p) + Len(q) /\ ~(Len(p) + i <= Len(p)) /\ (Len(p) + i) - Len(p) = i
      BY <2>1, SMT
    <3> QED BY <2>2, <3>1
  <2>4. \A i \in 1..Len(p) : i \in 1 .. Len(p) + Len(q) /\ i <= Len(p)
    BY <2>1, SMT
  <2> QED BY <2>1, <2>2, <2>3, <2>4
<1>2. (p \o q)[1].offset = a /\ p \o q # << >>
  <2>1. 1 \in 1..Len(p)
    BY <1>1, SMT
  <2>2. Len(p \o q) # 0
    BY <1>1, SMT
  <2> QED BY <1>1, <2>1, <2>2, EmptySeq DEF InChain
<1>3. ASSUME NEW i \in 1..Len(p \o q)
      PROVE  (p \o q)[i].offset + (p \o q)[i].len =
               IF i = Len(p \o q) THEN c ELSE (p \o q)[i + 1].offset
  <2>1. CASE i \in 1..Len(p) /\ i # Len(p)
    <3>1. i + 1 \in 1..Len(p) /\ i # Len(p \o q)
      BY <1>1, <2>1, SMT
    <3> QED BY <1>1, <2>1, <3>1 DEF InChain
  <2>2. CASE i = Len(p)
    <3>1. i \in 1..Len(p) /\ i # Len(p \o q) /\ 1 \in 1..Len(q) /\ i + 1 = Len(p) + 1
      BY <1>1, <2>2, SMT
    <3> QED BY <1>1, <2>2, <3>1 DEF InChain
  <2>3. CASE i \notin 1..Len(p)
    <3>1. PICK j \in 1..Len(q) : i = Len(p) + j
      <4>1. i - Len(p) \in 1..Len(q) /\ i = Len(p) + (i - Len(p))
        BY <1>1, <2>3, SMT
      <4> QED BY <4>1
    <3>2. /\ i = Len(p \o q) <=> j = Len(q)
          /\ j # Len(q) => j + 1 \in 1..Len(q) /\ i + 1 = Len(p) + (j + 1)
      BY <1>1, <3>1, SMT
    <3> QED BY <1>1, <3>1, <3>2 DEF InChain
  <2> QED BY <2>1, <2>2, <2>3
<1> QED BY <1>2, <1>3 DEF InChain

\* What is left of a chain when its first message has arrived.
LEMMA ChainGoesOn ==
  ASSUME NEW S, NEW p \in Seq(S), NEW a, NEW b, InChain(p, a, b)
  PROVE  \/ Tail(p) = << >> /\ p[1].offset + p[1].len = b
         \/ InChain(Tail(p), p[1].offset + p[1].len, b)
<1>1. /\ Len(p) \in Nat \ {0} /\ Tail(p) \in Seq(S) /\ Len(Tail(p)) = Len(p) - 1
      /\ \A i \in 1..Len(Tail(p)) : Tail(p)[i] = p[i + 1]
  BY HeadTailProperties, LenProperties, EmptySeq DEF InChain
<1>2. CASE Len(p) = 1
  <2>1. Len(Tail(p)) = 0 /\ 1 \in 1..Len(p)
    BY <1>1, <1>2, SMT
  <2> QED BY <1>1, <1>2, <2>1, EmptySeq DEF InChain
<1>3. CASE Len(p) # 1
  <2>1. 1 \in 1..Len(p) /\ Len(Tail(p)) # 0 /\ 1 \in 1..Len(Tail(p)) /\ 1 + 1 = 2
    BY <1>1, <1>3, SMT
  <2>2. Tail(p)[1].offset = p[1].offset + p[1].len /\ Tail(p) # << >>
    BY <1>1, <1>3, <2>1, EmptySeq DEF InChain
  <2>3. ASSUME NEW i \in 1..Len(Tail(p))
        PROVE  Tail(p)[i].offset + Tail(p)[i].len =
                 IF i = Len(Tail(p)) THEN b ELSE Tail(p)[i + 1].offset
    <3>1. /\ i + 1 \in 1..Len(p)
          /\ i = Len(Tail(p)) <=> i + 1 = Len(p)
          /\ i # Len(Tail(p)) => i + 1 \in 1..Len(Tail(p))
      <4>1. Len(p) \in Nat \ {0} /\ Len(Tail(p)) = Len(p) - 1
        BY <1>1
      <4> HIDE <1>1
      <4> DEFINE m == Len(p)  k == Len(Tail(p))
      <4>2. m \in Nat \ {0} /\ k = m - 1 /\ i \in 1..k
        BY <4>1
      <4> HIDE DEF m, k
      <4>3. i + 1 \in 1..m /\ (i = k <=> i + 1 = m) /\ (i # k => i + 1 \in 1..k)
        BY SMTT(30), <4>2
      <4> QED BY <4>3 DEF m, k
    <3>2. Tail(p)[i] = p[i + 1] /\ (i # Len(Tail(p)) => Tail(p)[i + 1] = p[(i + 1) + 1])
      BY <1>1, <3>1
    <3> QED BY <3>1, <3>2 DEF InChain
  <2> QED BY SMTT(30), <2>2, <2>3 DEF InChain
<1> QED BY <1>2, <1>3

\* Whether it is a chain shows from the positions.
LEMMA ChainsOfTheSame ==
  ASSUME NEW S, NEW p \in Seq(S), NEW q \in Seq(S), NEW a, NEW b, InChain(p, a, b),
         Len(q) = Len(p), \A i \in 1..Len(p) : q[i].offset = p[i].offset /\ q[i].len = p[i].len
  PROVE  InChain(q, a, b)
<1>1. Len(p) \in Nat \ {0}
  BY LenProperties, EmptySeq DEF InChain
<1>2. q # << >> /\ 1 \in 1..Len(p)
  BY <1>1, EmptySeq, SMT
<1>3. ASSUME NEW i \in 1..Len(q)
      PROVE  q[i].offset + q[i].len = IF i = Len(q) THEN b ELSE q[i + 1].offset
  <2>1. i # Len(q) => i + 1 \in 1..Len(p)
    BY <1>1, SMT
  <2> QED BY <2>1 DEF InChain
<1> QED BY <1>2, <1>3 DEF InChain

\* The requests go on where the last ones ended, up to the end of the window.
LEMMA RequestsFillTheWindow ==
  ASSUME TypeOK, NEW f \in Files, Offset(f) <= requested, requested <= RequestedAfter(f)
  PROVE  /\ \/ Requests(f) = << >> /\ RequestedAfter(f) = requested
            \/ InChain(Requests(f), requested, RequestedAfter(f))
         /\ \A i \in 1..Len(Requests(f)) : Requests(f)[i].tag = "DataRequest"
<1> DEFINE end == RequestedAfter(f)
           x == end - requested
           n == (end - requested + ChunkSize - 1) \div ChunkSize
           at(i) == requested + (i - 1) * ChunkSize
           piece(i) == Request(at(i), Least(ChunkSize, end - at(i)))
<1>1. ChunkSize \in Nat \ {0} /\ requested \in Nat /\ end \in Nat /\ x \in Nat
  <2>1. ChunkSize \in Nat \ {0} /\ requested \in Nat
    BY SizesArePositive DEF TypeOK, Positions
  <2>2. end \in Nat
    BY RequestsTyped, SizesArePositive DEF Positions
  <2>3. requested <= end
    OBVIOUS
  <2> HIDE DEF end
  <2> QED BY <2>1, <2>2, <2>3, SMT
<1>2. /\ n \in Nat /\ (n = 0 <=> x = 0) /\ x <= n * ChunkSize
      /\ \A i \in 1..n : i # n => i * ChunkSize < x
  <2>1. n = (x + ChunkSize - 1) \div ChunkSize
    OBVIOUS
  <2> HIDE DEF n, x
  <2> QED BY <1>1, <2>1, CutsReachTheEnd
<1>3. Requests(f) = [i \in 1..n |-> piece(i)]
  BY DEF Requests
<1>4. Len(Requests(f)) = n
  <2> HIDE DEF n, piece
  <2> QED BY <1>2, <1>3
<1>5. ASSUME NEW i \in 1..n
      PROVE  /\ Requests(f)[i].tag = "DataRequest" /\ Requests(f)[i].offset = at(i)
             /\ Requests(f)[i].offset + Requests(f)[i].len = IF i = n THEN end ELSE at(i + 1)
  <2>1. Requests(f)[i] = piece(i)
    <3> HIDE DEF n, piece
    <3> QED BY <1>3
  <2>2. at(i) + Least(ChunkSize, end - at(i)) = IF i = n THEN end ELSE at(i + 1)
    <3> DEFINE y == i * ChunkSize
    <3>1. y \in Nat /\ (i - 1) * ChunkSize = y - ChunkSize /\ ((i + 1) - 1) * ChunkSize = y
      BY <1>1, <1>2, SMT
    <3>2. IF i = n THEN x <= y ELSE y < x
      BY <1>2
    <3>3. at(i) = requested + (y - ChunkSize) /\ at(i + 1) = requested + y
      BY <3>1
    <3>4. x = end - requested
      OBVIOUS
    <3>5. end = requested + x
      <4> HIDE DEF x, end
      <4> QED BY <1>1, <3>4, SMT
    <3> HIDE DEF y, x, n, end, at
    <3> QED BY <1>1, <3>1, <3>2, <3>3, <3>5, SMT DEF Least
  <2>3. piece(i).tag = "DataRequest" /\ piece(i).offset = at(i)
        /\ piece(i).len = Least(ChunkSize, end - at(i))
    <3> HIDE DEF end, at
    <3> QED BY DEF Request
  <2> HIDE DEF piece, at, end, n
  <2> QED BY <2>1, <2>2, <2>3
<1>6. CASE n = 0
  <2>1. Requests(f) = << >>
    <3> HIDE DEF n, piece
    <3> QED BY <1>3, <1>6
  <2>2. end = requested
    <3>1. x = end - requested /\ x = 0
      BY <1>2, <1>6
    <3> HIDE DEF end, x
    <3> QED BY <1>1, <3>1, SMT
  <2> QED BY <2>1, <2>2, <1>4, <1>5
<1>7. CASE n # 0
  <2>1. 1 \in 1..n /\ Requests(f) # << >>
    <3> HIDE DEF n
    <3> QED BY <1>2, <1>4, <1>7, EmptySeq, SMT
  <2>2. at(1) = requested
    BY <1>1, SMT
  <2>3. \A i \in 1..n : i # n => i + 1 \in 1..n
    <3> HIDE DEF n
    <3> QED BY <1>2, SMT
  <2> HIDE DEF n, at, end
  <2>4. InChain(Requests(f), requested, end)
    BY <1>4, <1>5, <2>1, <2>2, <2>3 DEF InChain
  <2> QED BY <1>4, <1>5, <2>4 DEF end
<1> QED BY <1>6, <1>7

\* The messages that may be on their way.
Any == ToDownloader \cup ToUploader

\* What is under way is requests, answers and pongs.
LEMMA InFlightTyped ==
  ASSUME NEW r \in Seq(ToDownloader), NEW u \in Seq(ToUploader)
  PROVE  r \in Seq(Any) /\ u \in Seq(Any) /\ r \o u \in Seq(Any)
<1>1. ASSUME NEW S, NEW q \in Seq(S), S \subseteq Any PROVE q \in Seq(Any)
  BY <1>1, SMT
<1>2. r \in Seq(Any) /\ u \in Seq(Any)
  BY <1>1 DEF Any
<1> QED BY <1>2, ConcatProperties

\* A client that goes on asking, of a file that ends where what is in flight begins.
LEMMA FlowsOn ==
  ASSUME TypeOK, NEW f \in Files, f.state = "Unwritten", RequestDataOrFinish(f),
         channel = "Open", pc' = "Transferring", ~flushing',
         rx' \in Seq(ToDownloader), requested <= RequestedAfter(f),
         \A i \in 1..Len(rx') : rx'[i].tag = "DataResponse",
         \A i \in 1..Len(toUploader) : toUploader[i].tag = "DataRequest",
         \/ rx' \o toUploader = << >> /\ requested = Offset(f)
         \/ InChain(rx' \o toUploader, Offset(f), requested)
  PROVE  Flowing'
<1> DEFINE new == Requests(f)
           end == RequestedAfter(f)
<1>1. /\ ~(Offset(f) >= Size) /\ ~(Offset(f) > requested)
      /\ file' = FlushBegun(f)
      /\ toUploader' = toUploader \o new
      /\ requested' = end
  <2>1. \A o : ~Returns(o)
    BY DEF Returns
  <2>2. ~P2PFails
    BY <2>1, Zenon DEF P2PFails
  <2> QED BY <2>1, <2>2 DEF RequestDataOrFinish
<1>2. Size \in Nat \ {0} /\ Window \in Nat \ {0} /\ Offset(f) \in Nat /\ requested \in Nat
  BY FilesTyped, SizesArePositive DEF TypeOK, Positions
<1>3. Offset(f) < Size /\ Offset(f) <= requested
  BY <1>1, <1>2, SMT
<1>4. file' = f
  <2>1. Offset(f) = Len(f.data) /\ Len(f.data) # Size
    BY <1>2, <1>3, SMT DEF Offset
  <2> QED BY <1>1, <2>1 DEF FlushBegun
<1>5. /\ \/ new = << >> /\ end = requested
         \/ InChain(new, requested, end)
      /\ \A i \in 1..Len(new) : new[i].tag = "DataRequest"
      /\ new \in Seq(ToUploader)
  BY <1>3, RequestsFillTheWindow, RequestsTyped
<1>6. requested' = Least(Size, Offset(file') + Window)
  BY <1>1, <1>4 DEF RequestedAfter
<1>7. toUploader \in Seq(ToUploader) /\ toUploader' \in Seq(ToUploader)
  BY <1>1, <1>5, ConcatProperties DEF TypeOK
<1>8. OnlyData'
  <2>1. ASSUME NEW i \in 1..Len(toUploader') PROVE toUploader'[i].tag = "DataRequest"
    <3>1. /\ Len(toUploader') = Len(toUploader) + Len(new)
          /\ toUploader'[i] = IF i <= Len(toUploader) THEN toUploader[i] ELSE new[i - Len(toUploader)]
      BY <1>1, <1>5, <1>7, <2>1, ConcatProperties
    <3>2. i <= Len(toUploader) => i \in 1..Len(toUploader)
      BY <1>7, <2>1, LenProperties, SMT
    <3>3. ~(i <= Len(toUploader)) => i - Len(toUploader) \in 1..Len(new)
      <4>1. Len(toUploader) \in Nat /\ Len(new) \in Nat
        BY <1>5, <1>7, LenProperties
      <4> QED BY <2>1, <3>1, <4>1, SMT
    <3> QED BY <1>5, <3>1, <3>2, <3>3
  <2> QED BY <2>1 DEF OnlyData
<1>9. InChain(rx' \o toUploader', Offset(f), end)
  <2> DEFINE ahead == rx' \o toUploader
  <2>1. rx' \o toUploader' = ahead \o new
    <3>1. rx' \in Seq(Any) /\ toUploader \in Seq(Any) /\ new \in Seq(Any)
      BY <1>5, <1>7, InFlightTyped, EmptySeq
    <3>2. \A x, y, z \in Seq(Any) : (x \o y) \o z = x \o (y \o z)
      BY ConcatAssociative
    <3> QED BY <1>1, <3>1, <3>2
  <2>2. ahead \in Seq(Any) /\ new \in Seq(Any)
    BY <1>5, <1>7, InFlightTyped, EmptySeq
  <2>3. CASE ahead = << >> /\ requested = Offset(f)
    <3>1. ahead \o new = new
      BY <2>2, <2>3, ConcatEmptySeq
    <3>2. end # requested
      BY <1>2, <1>3, <2>3, SMT DEF RequestedAfter, Least
    <3> QED BY <1>5, <2>1, <2>3, <3>1, <3>2
  <2>4. CASE InChain(ahead, Offset(f), requested)
    <3>1. CASE new = << >> /\ end = requested
      <4>1. ahead \o new = ahead
        BY <2>2, <3>1, ConcatEmptySeq
      <4> QED BY <2>1, <2>4, <3>1, <4>1
    <3>2. CASE InChain(new, requested, end)
      <4> HIDE DEF ahead, new, end
      <4>1. InChain(ahead \o new, Offset(f), end)
        BY <2>2, <2>4, <3>2, ChainsJoin
      <4> QED BY <2>1, <4>1
    <3> QED BY <1>5, <3>1, <3>2
  <2> QED BY <2>3, <2>4
<1> QED BY <1>1, <1>4, <1>6, <1>8, <1>9 DEF Flowing, InFlight

\* The first element of a joined sequence is taken from its first part.
LEMMA TailOfTheFirst ==
  ASSUME NEW S, NEW r \in Seq(S), NEW u \in Seq(S), r # << >>
  PROVE  Tail(r \o u) = Tail(r) \o u /\ (r \o u)[1] = Head(r) /\ r \o u # << >>
<1>1. /\ Len(r) \in Nat \ {0} /\ Len(u) \in Nat
      /\ Tail(r) \in Seq(S) /\ Len(Tail(r)) = Len(r) - 1 /\ Head(r) = r[1]
      /\ \A i \in 1..Len(Tail(r)) : Tail(r)[i] = r[i + 1]
  BY HeadTailProperties, LenProperties, EmptySeq
<1>2. /\ r \o u \in Seq(S) /\ Len(r \o u) = Len(r) + Len(u)
      /\ \A i \in 1 .. Len(r) + Len(u) : (r \o u)[i] = IF i <= Len(r) THEN r[i] ELSE u[i - Len(r)]
  BY ConcatProperties
<1>3. r \o u # << >> /\ (r \o u)[1] = Head(r)
  <2>1. Len(r) + Len(u) # 0 /\ 1 \in 1 .. Len(r) + Len(u) /\ 1 <= Len(r)
    BY <1>1, SMT
  <2> QED BY <1>1, <1>2, <2>1, EmptySeq
<1>4. /\ Tail(r \o u) \in Seq(S) /\ Len(Tail(r \o u)) = Len(r \o u) - 1
      /\ \A i \in 1..Len(Tail(r \o u)) : Tail(r \o u)[i] = (r \o u)[i + 1]
  BY <1>2, <1>3, HeadTailProperties
<1>5. /\ Tail(r) \o u \in Seq(S) /\ Len(Tail(r) \o u) = Len(Tail(r)) + Len(u)
      /\ \A i \in 1 .. Len(Tail(r)) + Len(u) :
            (Tail(r) \o u)[i] = IF i <= Len(Tail(r)) THEN Tail(r)[i] ELSE u[i - Len(Tail(r))]
  BY <1>1, ConcatProperties
<1>6. Len(Tail(r \o u)) = Len(Tail(r) \o u)
  <2>1. (Len(r) + Len(u)) - 1 = (Len(r) - 1) + Len(u)
    BY <1>1, SMT
  <2> QED BY <1>1, <1>2, <1>4, <1>5, <2>1
<1>7. ASSUME NEW i \in 1..Len(Tail(r) \o u) PROVE Tail(r \o u)[i] = (Tail(r) \o u)[i]
  <2>1. /\ i \in Nat \ {0} /\ i + 1 \in 1 .. Len(r) + Len(u)
        /\ i + 1 <= Len(r) <=> i <= Len(Tail(r))
        /\ i <= Len(Tail(r)) => i \in 1..Len(Tail(r))
        /\ (i + 1) - Len(r) = i - Len(Tail(r))
    <3>1. Len(r) \in Nat /\ Len(u) \in Nat /\ Len(Tail(r)) = Len(r) - 1
          /\ i \in 1 .. (Len(r) - 1) + Len(u)
      BY <1>1, <1>5
    <3> QED BY <3>1, SMT
  <2> QED BY <1>1, <1>2, <1>4, <1>5, <1>6, <2>1
<1>8. Tail(r \o u) = Tail(r) \o u
  BY <1>4, <1>5, <1>6, <1>7, SeqEqual
<1> QED BY <1>3, <1>8

\* The next piece arrives where the file ends, and the client asks for more.
LEMMA WindowMovesOn ==
  ASSUME OrderInv, InWindow, pc = "Transferring", channel = "Open", HearsResponse
  PROVE  InWindow'
<1> SUFFICES ASSUME pc' = "Transferring", ~flushing' PROVE Flowing'
  BY DEF HearsResponse, InWindow
<1> DEFINE m == Head(rx)
           f == Received(m)
<1>1. /\ TypeOK /\ file \in Files /\ rx \in Seq(ToDownloader) /\ toUploader \in Seq(ToUploader)
      /\ Size \in Nat \ {0} /\ Window \in Nat \ {0} /\ requested \in Nat
  BY SizesArePositive DEF OrderInv, TypeOK, Files, Positions
<1>2. Flowing /\ rx # << >> /\ rx' = Tail(rx) /\ RequestDataOrFinish(f)
  <2>1. \A o : ~Returns(o)
    BY DEF Returns
  <2> QED BY <2>1 DEF HearsResponse, Hears, Listening, InWindow
<1>3. m.offset \in Nat /\ m.len \in Nat
  <2>1. m \in ToDownloader /\ m.tag = "DataResponse"
    BY <1>1, <1>2, HeadTailProperties DEF HearsResponse, Hears
  <2>2. m \in Pieces("DataResponse")
    BY <2>1 DEF ToDownloader, Hello, Opened, Failed
  <2> QED BY <2>2, SizesArePositive DEF Pieces, Positions
<1>4. /\ InChain(InFlight, Offset(file), requested)
      /\ InFlight \in Seq(Any) /\ InFlight[1] = m /\ Tail(InFlight) = rx' \o toUploader
  <2>1. rx \in Seq(Any) /\ toUploader \in Seq(Any) /\ rx \o toUploader \in Seq(Any)
    BY <1>1, InFlightTyped
  <2> QED BY <1>2, <2>1, TailOfTheFirst DEF Flowing, InFlight
<1>5. /\ f = Written(file, Bytes(m.offset, m.len)) /\ f \in Files
      /\ f.state = "Unwritten" /\ Offset(f) = m.offset + m.len
  <2> DEFINE b == Bytes(m.offset, m.len)
  <2>1. b \in Seq(Nat) /\ Len(b) = m.len
    BY <1>3, BytesTyped
  <2>2. m.offset = Offset(file) /\ file.state = "Unwritten" /\ Offset(file) = Len(file.data)
    BY <1>2, <1>4 DEF InChain, Flowing, Offset
  <2>3. f = Written(file, b)
    BY <2>2 DEF Received
  <2> HIDE DEF b, m, f
  <2>4. Written(file, b) \in Files
    BY <1>1, <2>1, FilesTyped
  <2>5. Written(file, b).state = "Unwritten" /\ Written(file, b).data = file.data \o b
    BY <1>1, <2>2 DEF Written, Files
  <2>6. Len(file.data \o b) = Len(file.data) + m.len
    <3>1. file.data \in Seq(Nat)
      BY <1>1 DEF Files
    <3> QED BY <2>1, <3>1, ConcatProperties
  <2> QED BY <2>2, <2>3, <2>4, <2>5, <2>6 DEF Offset, b
<1>6. requested <= RequestedAfter(f)
  <2>1. Offset(file) <= Offset(f) /\ Offset(file) \in Nat /\ Offset(f) \in Nat
    <3>1. m.offset = Offset(file)
      BY <1>4 DEF InChain
    <3> HIDE DEF f, m
    <3> QED BY <1>3, <1>5, <3>1, SMT
  <2>2. requested = Least(Size, Offset(file) + Window)
    BY <1>2 DEF Flowing
  <2> HIDE DEF f
  <2> QED BY <1>1, <2>1, <2>2, SMT DEF RequestedAfter, Least
<1>7. \/ rx' \o toUploader = << >> /\ requested = Offset(f)
      \/ InChain(rx' \o toUploader, Offset(f), requested)
  <2> HIDE DEF f, m
  <2> QED BY <1>4, <1>5, ChainGoesOn
<1>8. /\ rx' \in Seq(ToDownloader)
      /\ \A i \in 1..Len(rx') : rx'[i].tag = "DataResponse"
      /\ \A i \in 1..Len(toUploader) : toUploader[i].tag = "DataRequest"
  <2>1. /\ Tail(rx) \in Seq(ToDownloader) /\ Len(Tail(rx)) = Len(rx) - 1 /\ Len(rx) \in Nat
        /\ \A i \in 1..Len(Tail(rx)) : Tail(rx)[i] = rx[i + 1]
    BY <1>1, <1>2, HeadTailProperties, LenProperties
  <2>2. \A i \in 1..Len(Tail(rx)) : i + 1 \in 1..Len(rx)
    <3> DEFINE k == Len(Tail(rx))  l == Len(rx)
    <3>1. l \in Nat /\ k = l - 1
      BY <2>1
    <3> HIDE DEF k, l
    <3>2. \A i \in 1..k : i + 1 \in 1..l
      BY <3>1, SMT
    <3> QED BY <3>2 DEF k, l
  <2> QED BY <1>2, <2>1, <2>2 DEF Flowing, OnlyData
<1> HIDE DEF f, m
<1> QED BY <1>1, <1>2, <1>5, <1>6, <1>7, <1>8, FlowsOn

\* A request that is served turns into its response, in its place.
LEMMA WindowIsServed ==
  ASSUME OrderInv, InWindow, pc = "Transferring", channel = "Open", UploaderServes
  PROVE  InWindow'
<1> DEFINE q == Head(toUploader)
           r == Response(q.offset, q.len)
           old == rx \o toUploader
           new == rx' \o toUploader'
<1>1. UNCHANGED <<pc, flushing, channel, file, requested>> /\ toUploader # << >>
      /\ toUploader' = Tail(toUploader) /\ rx' = rx \o Replies(q)
  BY DEF UploaderServes
<1> SUFFICES ASSUME ~flushing PROVE Flowing'
  BY <1>1 DEF InWindow
<1>2. Flowing /\ rx \in Seq(ToDownloader) /\ toUploader \in Seq(ToUploader)
  BY DEF InWindow, OrderInv, TypeOK
<1>3. /\ Len(rx) \in Nat /\ Len(toUploader) \in Nat \ {0}
      /\ q \in ToUploader /\ q = toUploader[1] /\ 1 \in 1..Len(toUploader)
      /\ Tail(toUploader) \in Seq(ToUploader) /\ Len(Tail(toUploader)) = Len(toUploader) - 1
      /\ \A i \in 1..Len(Tail(toUploader)) : Tail(toUploader)[i] = toUploader[i + 1]
  <2>1. Len(rx) \in Nat /\ Len(toUploader) \in Nat \ {0}
    BY <1>1, <1>2, LenProperties, EmptySeq
  <2> QED BY <1>1, <1>2, <2>1, HeadTailProperties
<1>4. q \in Pieces("DataRequest") /\ q.tag = "DataRequest"
  BY <1>2, <1>3 DEF Flowing, OnlyData, ToUploader, Hello, Finished
<1>5. Replies(q) = <<r>> /\ r \in ToDownloader
      /\ r.tag = "DataResponse" /\ r.offset = q.offset /\ r.len = q.len
  BY <1>4 DEF Pieces, Response, ToDownloader, Replies
<1> HIDE DEF q, r
<1>6. /\ rx' \in Seq(ToDownloader) /\ Len(rx') = Len(rx) + 1
      /\ \A i \in 1..Len(rx) : rx'[i] = rx[i]
      /\ rx'[Len(rx) + 1] = r
  <2>1. rx' = Append(rx, r)
    BY <1>1, <1>2, <1>5, AppendIsConcat
  <2>2. rx'[Len(rx) + 1] = r
    BY <1>2, <1>5, <2>1, AppendProperties
  <2> QED BY <1>2, <1>5, <2>1, <2>2, AppendProperties
<1>7. OnlyData'
  <2>1. ASSUME NEW i \in 1..Len(rx') PROVE rx'[i].tag = "DataResponse"
    <3>1. i \in 1..Len(rx) \/ i = Len(rx) + 1
      <4>1. i \in 1 .. Len(rx) + 1 /\ Len(rx) \in Nat
        BY <1>3, <1>6
      <4> QED BY <4>1, SMT
    <3>2. ASSUME i \in 1..Len(rx) PROVE rx'[i].tag = "DataResponse"
      BY <1>2, <1>6, <3>2 DEF Flowing, OnlyData
    <3>3. ASSUME i = Len(rx) + 1 PROVE rx'[i].tag = "DataResponse"
      <4>1. rx'[i] = r
        BY <1>6, <3>3
      <4> QED BY <1>5, <4>1
    <3> QED BY <3>1, <3>2, <3>3
  <2>2. ASSUME NEW i \in 1..Len(Tail(toUploader)) PROVE Tail(toUploader)[i].tag = "DataRequest"
    <3>1. i + 1 \in 1..Len(toUploader)
      <4>1. i \in 1 .. Len(toUploader) - 1 /\ Len(toUploader) \in Nat
        BY <1>3
      <4> QED BY <4>1, SMT
    <3> QED BY <1>2, <1>3, <3>1 DEF Flowing, OnlyData
  <2> QED BY <1>1, <2>1, <2>2 DEF OnlyData
<1>8. InChain(new, Offset(file), requested)
  <2>1. old \in Seq(Any) /\ new \in Seq(Any)
    BY <1>1, <1>2, <1>3, <1>6, InFlightTyped
  <2>2. /\ Len(old) = Len(rx) + Len(toUploader)
        /\ \A i \in 1 .. Len(rx) + Len(toUploader) :
              old[i] = IF i <= Len(rx) THEN rx[i] ELSE toUploader[i - Len(rx)]
    BY <1>2, InFlightTyped, ConcatProperties
  <2>3. /\ Len(new) = Len(rx') + Len(Tail(toUploader))
        /\ \A i \in 1 .. Len(rx') + Len(Tail(toUploader)) :
              new[i] = IF i <= Len(rx') THEN rx'[i] ELSE Tail(toUploader)[i - Len(rx')]
    BY <1>1, <1>3, <1>6, InFlightTyped, ConcatProperties
  <2>4. Len(new) = Len(old)
    <3> HIDE DEF new, old
    <3> QED BY <1>3, <1>6, <2>2, <2>3, SMT
  <2>5. ASSUME NEW i \in 1..Len(old)
        PROVE  new[i].offset = old[i].offset /\ new[i].len = old[i].len
    <3> DEFINE k == Len(rx)
               l == Len(toUploader)
    <3>1. k \in Nat /\ l \in Nat \ {0} /\ i \in 1 .. k + l
          /\ i \in 1 .. Len(rx') + Len(Tail(toUploader))
      BY <1>3, <2>2, <2>3, <2>4
    <3>2. Len(rx') = k + 1 /\ Len(Tail(toUploader)) = l - 1
      BY <1>3, <1>6
    <3> HIDE DEF k, l
    <3>3. CASE i <= k
      <4>1. i <= k + 1 /\ i \in 1..k
        BY <3>1, <3>3, SMT
      <4> HIDE DEF new, old
      <4> QED BY <1>6, <2>2, <2>3, <3>1, <3>2, <3>3, <4>1 DEF k, l
    <3>4. CASE i = k + 1
      <4>1. ~(i <= k) /\ i - k = 1 /\ i <= k + 1
        BY <3>1, <3>4, SMT
      <4>2. new[i] = rx'[i] /\ rx'[i] = r
        <5> HIDE DEF new, old
        <5>1. new[i] = rx'[i]
          BY <2>3, <3>1, <3>2, <4>1
        <5>2. i = Len(rx) + 1
          BY <3>4 DEF k
        <5> QED BY <1>6, <5>1, <5>2
      <4>3. old[i] = toUploader[1]
        <5> HIDE DEF new, old
        <5> QED BY <2>2, <3>1, <4>1 DEF k, l
      <4> HIDE DEF new, old
      <4> QED BY <1>3, <1>5, <4>2, <4>3
    <3>5. CASE ~(i <= k + 1)
      <4>1. ~(i <= k) /\ i - (k + 1) \in 1 .. l - 1 /\ (i - (k + 1)) + 1 = i - k
        BY <3>1, <3>5, SMT
      <4>2. new[i] = Tail(toUploader)[i - (k + 1)]
        <5> HIDE DEF new, old
        <5> QED BY <2>3, <3>1, <3>2, <3>5
      <4>3. Tail(toUploader)[i - (k + 1)] = toUploader[i - k]
        BY <1>3, <3>2, <4>1
      <4>4. old[i] = toUploader[i - k]
        <5> HIDE DEF new, old
        <5> QED BY <2>2, <3>1, <4>1 DEF k, l
      <4> HIDE DEF new, old
      <4> QED BY <4>2, <4>3, <4>4
    <3>6. i <= k \/ i = k + 1 \/ ~(i <= k + 1)
      BY <3>1, SMT
    <3> QED BY <3>3, <3>4, <3>5, <3>6
  <2>6. InChain(old, Offset(file), requested)
    BY <1>2 DEF Flowing, InFlight
  <2> HIDE DEF new, old
  <2> QED BY <2>1, <2>4, <2>5, <2>6, ChainsOfTheSame
<1> QED BY <1>1, <1>2, <1>7, <1>8 DEF Flowing, InFlight

\* What a step of the client to another place leaves of the window.
LEMMA ElsewhereIsNoWindow ==
  ASSUME pc' \notin {"Connecting", "Transferring"} \/ channel' = "Broken"
  PROVE  Opening' /\ InWindow'
BY DEF Opening, InWindow

\* Nothing but an answer to the peer leads to the transfer, and not over a broken channel.
LEMMA AnswersStayOut ==
  ASSUME NEW f, RequestDataOrFinish(f), UNCHANGED channel,
         pc \notin {"Connecting", "Transferring"} \/ channel = "Broken"
  PROVE  Opening' /\ InWindow'
<1>1. CASE channel = "Broken"
  BY <1>1, ElsewhereIsNoWindow
<1>2. CASE pc \notin {"Connecting", "Transferring"}
  <2>1. \A o : Returns(o) => pc' = "Done"
    BY DEF Returns
  <2>2. Connects => pc' \notin {"Connecting", "Transferring"}
    BY <1>2 DEF Connects
  <2>3. pc' \notin {"Connecting", "Transferring"}
    BY <1>2, <2>1, <2>2, FailsEnd, Zenon DEF RequestDataOrFinish
  <2> QED BY <2>3, ElsewhereIsNoWindow
<1> QED BY <1>1, <1>2

\* The first hello of the peer is answered with the first window of requests.
LEMMA WindowOpens ==
  ASSUME WindowInv, HearsHello
  PROVE  Opening' /\ InWindow'
<1>1. pc \in ConnectPCs /\ UNCHANGED channel /\ rx # << >> /\ rx' = Tail(rx) /\ Head(rx).tag = "Hello"
  BY DEF HearsHello, Hears
<1>2. CASE Poisoned(file)
  <2>1. pc' = "Done"
    BY <1>2 DEF HearsHello, Returns
  <2> QED BY <2>1, ElsewhereIsNoWindow
<1>3. CASE ~Poisoned(file) /\ (pc = "Racing" \/ channel = "Broken")
  <2>1. RequestDataOrFinish(file)
    BY <1>3 DEF HearsHello
  <2> QED BY <1>1, <1>3, <2>1, AnswersStayOut
<1>4. CASE ~Poisoned(file) /\ pc = "Connecting" /\ channel # "Broken"
  <2>1. /\ ~flushing /\ requested = 0 /\ file = [state |-> "Unwritten", data |-> << >>]
        /\ channel = "Open" /\ rx = <<Hello>> /\ toUploader = << >>
    BY <1>1, <1>4 DEF WindowInv, Opening, OneHello, Hello, Opened
  <2>2. RequestDataOrFinish(file) /\ rx' = << >>
    BY <1>1, <1>4, <2>1 DEF HearsHello
  <2>3. /\ TypeOK /\ file \in Files /\ file.state = "Unwritten" /\ Offset(file) = 0
        /\ Size \in Nat \ {0} /\ Window \in Nat \ {0}
    BY <2>1, SizesArePositive, EmptySeq DEF WindowInv, OrderInv, TypeOK, Files, Offset
  <2>4. requested <= RequestedAfter(file)
    BY <2>1, <2>3, SMT DEF RequestedAfter, Least
  <2>5. pc' # "Connecting"
    <3>1. ~(Offset(file) >= Size)
      BY <2>3, SMT
    <3>2. \A o : Returns(o) => pc' = "Done"
      BY DEF Returns
    <3>3. Connects => pc' # "Connecting"
      BY DEF Connects, ConnectPCs, TransferPCs
    <3> QED BY <2>2, <3>1, <3>2, <3>3, FailsEnd, Zenon DEF RequestDataOrFinish
  <2>6. ASSUME pc' = "Transferring", ~flushing' PROVE Flowing'
    <3>1. rx' \o toUploader = << >> /\ rx' \in Seq(ToDownloader) /\ Len(rx') = 0 /\ Len(toUploader) = 0
      BY <2>1, <2>2, EmptySeq
    <3>2. 1..0 = {}
      BY SMT
    <3> QED BY <2>1, <2>2, <2>3, <2>4, <2>6, <3>1, <3>2, FlowsOn
  <2> QED BY <1>1, <2>1, <2>5, <2>6 DEF Opening, InWindow
<1> QED BY <1>1, <1>2, <1>3, <1>4 DEF ConnectPCs

\* Every step keeps the window full.
LEMMA WindowStep ==
  ASSUME WindowInv, Next
  PROVE  Opening' /\ InWindow'
<1>1. \A o : Returns(o) => pc' \notin {"Connecting", "Transferring"}
  BY DEF Returns
<1>2. P2PFails => pc' \notin {"Connecting", "Transferring"}
  BY FailsEnd
<1>3. CASE HearsOpened
  <2>1. CASE channel # "Open"
    BY <1>2, <1>3, <2>1, ElsewhereIsNoWindow DEF HearsOpened
  <2>2. CASE channel = "Open"
    <3>1. UNCHANGED <<pc, channel, flushing, requested, file>> /\ pc \in ConnectPCs
          /\ rx # << >> /\ rx' = Tail(rx) /\ Head(rx).tag = "DataChannelOpened"
          /\ toUploader' = Append(toUploader, Hello)
      BY <1>3, <2>2 DEF HearsOpened, Hears
    <3>2. CASE pc = "Connecting"
      <4>1. rx = <<Opened>> /\ toUploader = << >>
        BY <2>2, <3>1, <3>2 DEF WindowInv, Opening, OneHello, Hello, Opened
      <4>2. rx' = << >> /\ toUploader' = <<Hello>>
        BY <3>1, <4>1
      <4> QED BY <2>2, <3>1, <3>2, <4>2 DEF WindowInv, Opening, OneHello, InWindow
    <3>3. CASE pc # "Connecting"
      BY <3>1, <3>3, ElsewhereIsNoWindow DEF ConnectPCs
    <3> QED BY <3>2, <3>3
  <2> QED BY <2>1, <2>2
<1>4. CASE HearsHello
  BY <1>4, WindowOpens
<1>5. CASE HearsResponse
  <2>1. UNCHANGED channel /\ rx # << >> /\ Head(rx).tag = "DataResponse"
        /\ pc \in ConnectPCs \cup TransferPCs
    BY <1>5 DEF HearsResponse, Hears, Listening
  <2>2. CASE Poisoned(file)
    BY <1>1, <1>5, <2>2, ElsewhereIsNoWindow DEF HearsResponse
  <2>3. CASE ~Poisoned(file) /\ (channel = "Broken" \/ pc \notin {"Connecting", "Transferring"})
    <3>1. RequestDataOrFinish(Received(Head(rx)))
      BY <1>5, <2>3 DEF HearsResponse
    <3> QED BY <2>1, <2>3, <3>1, AnswersStayOut
  <2>4. CASE pc = "Connecting" /\ channel # "Broken"
    BY <2>1, <2>4 DEF WindowInv, Opening, OneHello, Hello, Opened
  <2>5. CASE ~Poisoned(file) /\ pc = "Transferring" /\ channel # "Broken"
    <3>1. channel = "Open"
      BY <2>5 DEF WindowInv, OrderInv, TypeOK, InWindow
    <3>2. InWindow'
      BY <1>5, <2>5, <3>1, WindowMovesOn DEF WindowInv
    <3>3. pc' # "Connecting"
      <4>1. RequestDataOrFinish(Received(Head(rx)))
        BY <1>5, <2>5 DEF HearsResponse
      <4>2. Connects => pc' # "Connecting"
        BY <2>5 DEF Connects
      <4> QED BY <1>1, <1>2, <2>5, <4>1, <4>2, Zenon DEF RequestDataOrFinish
    <3> QED BY <3>2, <3>3 DEF Opening
  <2> QED BY <2>2, <2>3, <2>4, <2>5
<1>6. CASE HearsError \/ TimesOut \/ SignalingFails \/ FinishDownloadFails
  BY <1>2, <1>6, ElsewhereIsNoWindow DEF HearsError, TimesOut, SignalingFails, FinishDownloadFails
<1>7. CASE Flushed
  <2>1. \/ Returns("PoisonedPanic") \/ P2PFails \/ Returns("Ok") \/ pc' = "Finishing"
    BY <1>7 DEF Flushed
  <2> QED BY <1>1, <1>2, <2>1, ElsewhereIsNoWindow
<1>8. CASE FinishesDownload \/ FinishDownloadPostponed \/ FinishDownloadResumes
  BY <1>1, <1>8, ElsewhereIsNoWindow
  DEF FinishesDownload, FinishDownloadPostponed, FinishDownloadResumes
<1>9. CASE RelayStep
  <2>1. relayed.pc # "None"
    BY <1>9 DEF RelayStep, RelayStarts, RelayResponds, RelayPostpones,
                RelayFails, RelayYields, RelayEnds,
       RelayFlushed
  <2>2. pc \in {"Racing", "Relaying"}
    BY <2>1 DEF WindowInv, OrderInv, RelayRunsAlone
  <2>3. pc' = pc \/ \E o : Returns(o)
    BY <1>9, Zenon DEF RelayStep, RelayStarts, RelayResponds, RelayPostpones,
                       RelayFails, RelayYields, RelayEnds,
       RelayFlushed
  <2> QED BY <1>1, <2>2, <2>3, ElsewhereIsNoWindow
<1>10. CASE ChannelOpens
  <2>1. /\ UNCHANGED <<pc, flushing, requested, file, toUploader>> /\ channel = "Closed"
        /\ channel' = "Open" /\ rx' = Append(rx, Opened)
    BY <1>10 DEF ChannelOpens
  <2>2. pc # "Transferring"
    BY <2>1 DEF WindowInv, InWindow
  <2>3. ASSUME pc = "Connecting" PROVE Opening'
    <3>1. rx = << >> /\ toUploader = << >>
      BY <2>1, <2>3 DEF WindowInv, Opening, OneHello
    <3>2. rx' = <<Opened>>
      BY <2>1, <3>1
    <3> QED BY <2>1, <2>3, <3>1, <3>2 DEF WindowInv, Opening, OneHello
  <2> QED BY <2>1, <2>2, <2>3 DEF Opening, InWindow
<1>11. CASE ChannelBreaks
  BY <1>11, ElsewhereIsNoWindow DEF ChannelBreaks
<1>12. CASE UploaderServes
  <2>1. /\ UNCHANGED <<pc, flushing, requested, file, channel>> /\ channel = "Open"
        /\ toUploader # << >> /\ toUploader' = Tail(toUploader)
        /\ rx' = rx \o Replies(Head(toUploader))
    BY <1>12 DEF UploaderServes
  <2>2. CASE pc = "Transferring"
    BY <1>12, <2>1, <2>2, WindowIsServed DEF WindowInv, Opening
  <2>3. CASE pc = "Connecting"
    <3>1. rx = << >> /\ toUploader = <<Hello>>
      BY <2>1, <2>3 DEF WindowInv, Opening, OneHello
    <3>2. rx' = <<Hello>> /\ toUploader' = << >>
      BY <2>1, <3>1 DEF Replies, Hello
    <3> QED BY <2>1, <2>3, <3>2 DEF WindowInv, Opening, OneHello, InWindow
  <2>4. CASE pc \notin {"Transferring", "Connecting"}
    BY <2>1, <2>4, ElsewhereIsNoWindow
  <2> QED BY <2>2, <2>3, <2>4
<1> QED BY <1>3, <1>4, <1>5, <1>6, <1>7, <1>8, <1>9, <1>10, <1>11, <1>12
        DEF Next, P2PNext, FinishDownload, Network

\* For every size of file, chunk and window: as long as the relay has not interfered,
\* what is on its way between the client and its peer are the pieces that follow the
\* file, without a gap and without a repetition, up to where the window ends, so that a
\* response is never skipped for its offset and the transfer never runs dry
\* (next_data_request and handle_uploader_message, downloader_client.rs).
THEOREM WindowStaysFull == Spec => []WindowIsFull
<1>1. Init => WindowInv
  <2>1. ASSUME Init PROVE Opening /\ InWindow
    BY <2>1 DEF Init, Opening, OneHello, InWindow
  <2> QED BY <2>1, OrderInit DEF WindowInv
<1>2. WindowInv /\ [Next]_vars => WindowInv'
  <2>1. CASE UNCHANGED vars
    BY <2>1, OrderNext DEF vars, options, network, WindowInv, Opening, OneHello, InWindow, Flowing,
       OnlyData, InFlight
  <2> QED BY <2>1, OrderNext, WindowStep DEF WindowInv
<1>3. WindowInv => WindowIsFull
  <2> SUFFICES ASSUME WindowInv, pc = "Transferring", ~flushing, channel = "Open"
               PROVE  WindowIsFull
    BY DEF WindowIsFull
  <2>1. Flowing
    BY DEF WindowInv, InWindow
  <2> QED BY <2>1 DEF WindowIsFull, Flowing, InChain
<1> QED BY <1>1, <1>2, <1>3, PTL DEF Spec
=============================================================================
