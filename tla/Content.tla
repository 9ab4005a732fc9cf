------------------------------ MODULE Content ------------------------------
(* What a file is on its way from one client to the other, byte for byte: the
   buffers and the padding of cipher.rs, the metadata and the encrypted and
   decrypted files of api_client.rs, the range headers that api_client.rs
   writes and glopfile-relay/src/range.rs reads, and the signaling messages
   that p2p.rs seals.

   Who serves whom and when is in Relay, Uploader and Downloader; here a
   transfer is a sequence of responses that may break off anywhere, and the
   question is whether the parts make up what was sent. AES-GCM is ideal: the
   bytes of one encryption open with the key they were sealed with, all of
   them and in their order, and nothing else does. A byte of a file is its
   position in it.                                                         *)
EXTENDS Integers, Sequences

CONSTANTS
    MaxSize,        \* the longest file that is provisioned
    MaxMessage,     \* the longest signaling message
    MaxBreaks,      \* bound: responses that break off
    NonceSize,      \* NONCE_SIZE (12)
    TagSize,        \* TAG_SIZE (16)
    BlockLen,       \* block_len of the padding (64)
    VarintBase,     \* what a byte of a varint carries (128)
    PositionBase    \* positions are read as u64: 2^64

ASSUME SizesAssumption ==
    /\ {MaxSize, MaxMessage, MaxBreaks} \subseteq Nat
    /\ {NonceSize, TagSize, BlockLen, VarintBase} \subseteq Nat \ {0}
    /\ MaxMessage < VarintBase * VarintBase
    /\ PositionBase > MaxSize + 1 + NonceSize + TagSize

VARIABLES
    file,           \* the uploader's file: its size when provisioned, and its bytes
    metadata,       \* the encrypted metadata at the relay
    encrypted,      \* EncryptedFile::encrypted_bytes
    position,       \* position_shared of upload_file
    fileSize,       \* DecryptedFile::file_size, once the metadata was fetched
    data,           \* the data of DecryptedFileWriteState::Unwritten
    written,        \* what became of the downloader's file
    breaks,         \* responses that have broken off
    signal,         \* a sealed signaling message on its way, and its sender
    heard           \* what its receiver decoded

transfer == <<file, metadata, encrypted, position, fileSize, data, written, breaks>>
signaling == <<signal, heard>>
vars == <<transfer, signaling>>

-----------------------------------------------------------------------------
(* Buffers *)

Zero == 0
Random == -1        \* a byte of a nonce
Bytes(n) == [i \in 1..n |-> i]
Fill(byte, n) == [i \in 1..n |-> byte]

ExtraCiphertextLen == NonceSize + TagSize

\* Room for nonce and tag around what is to be encrypted in place.
Buffer(plaintext) == Fill(Random, NonceSize) \o plaintext \o Fill(Zero, TagSize)

\* read_plaintext_to_end reads the file as long as it is now.
ReadPlaintextToEnd(size) == Buffer(Bytes(size))

\* The plaintext is what lies between nonce and tag.
IntoPlaintext(buffer) == SubSeq(buffer, NonceSize + 1, Len(buffer) - TagSize)

-----------------------------------------------------------------------------
(* Cipher *)

Usages == {"Content", "Metadata", "Uploader", "Downloader"}

\* The key of a usage: HKDF of the one cipher key with the usage as its info.
DerivedKey(usage) == <<"key", usage>>

Encrypt(buffer, usage) ==
    [i \in 1..Len(buffer) |-> [key |-> DerivedKey(usage), of |-> buffer, at |-> i]]

Decrypted(plaintext) == [ok |-> TRUE, plaintext |-> plaintext]
DecryptError == [ok |-> FALSE, plaintext |-> <<>>]

Authentic(ciphertext, usage) ==
    ciphertext = Encrypt(ciphertext[1].of, usage)

Decrypt(ciphertext, usage) ==
    IF Len(ciphertext) >= ExtraCiphertextLen /\ Authentic(ciphertext, usage)
        THEN Decrypted(IntoPlaintext(ciphertext[1].of))
        ELSE DecryptError

-----------------------------------------------------------------------------
(* Signaling messages *)

Delimiter(len) ==
    IF len < VarintBase THEN <<len>> ELSE <<VarintBase + (len % VarintBase), len \div VarintBase>>

Encoded(len) == Delimiter(len) \o Bytes(len)

\* The next multiple of the block length.
PaddedByABlock(len) == len + (BlockLen - (len % BlockLen))    \* mutant: forgets that 0 remains
PaddedLen(len) == IF len % BlockLen = 0 THEN len ELSE len + (BlockLen - (len % BlockLen))

FromMessagePadded(len) ==
    LET message == Encoded(len)
    IN  Buffer(message \o Fill(Zero, PaddedLen(Len(message)) - Len(message)))

\* decode_length_delimited takes as many bytes as the delimiter says.
DecodeLengthDelimited(plaintext) ==
    LET long == plaintext[1] >= VarintBase
        len == IF long THEN (plaintext[1] % VarintBase) + VarintBase * plaintext[2] ELSE plaintext[1]
        start == IF long THEN 2 ELSE 1
    IN  SubSeq(plaintext, start + 1, start + len)

Sides == {"Uploader", "Downloader"}

\* A message is sealed for its sender and opened by the usage of the peer.
Peer(side) == IF side = "Uploader" THEN "Downloader" ELSE "Uploader"

NoSignal == [from |-> "Uploader", len |-> 0, ciphertext |-> <<>>]

-----------------------------------------------------------------------------
(* Range headers *)

\* `bytes <start>-<last>/<size>`, or `bytes */<size>` with nothing left to send.
RangeToTheSize(start, size) ==      \* mutant: the range ends behind the last byte
    [rest |-> start < size, start |-> start, last |-> size, size |-> size]
ContentRange(start, size) ==
    [rest |-> start < size, start |-> start, last |-> size - 1, size |-> size]

\* What the relay makes of it: a position, or none for a range it refuses.
UploadPositions(header) ==
    IF ~header.rest
        THEN {header.size}
        ELSE {p \in {header.start} : header.size = (header.last + 1) % PositionBase}

\* `bytes=<position>-`, of which the relay reads the position.
DownloadPosition == Len(data)

-----------------------------------------------------------------------------
(* Actions *)

NoFile == [provisioned |-> 0, size |-> 0, read |-> FALSE]
NotWritten == [state |-> "Unwritten", bytes |-> <<>>]

Init ==
    /\ file \in {[NoFile EXCEPT !.provisioned = n] : n \in 0..MaxSize}
    /\ metadata = Encrypt(Buffer(<<file.provisioned>>), "Metadata")
    /\ encrypted = <<>>
    /\ position = 0
    /\ fileSize = 0
    /\ data = <<>>
    /\ written = NotWritten
    /\ breaks = 0
    /\ signal = NoSignal
    /\ heard = <<>>

\* ApiClient::encrypt_file: the file may have changed since it was provisioned.
EncryptFile(size) ==
    /\ ~file.read
    /\ file' = [file EXCEPT !.size = size, !.read = TRUE]
    /\ encrypted' = Encrypt(ReadPlaintextToEnd(size), "Content")
    /\ UNCHANGED <<metadata, position, fileSize, data, written, breaks, signaling>>

\* ApiClient::fetch_meta and decrypt_file.
FetchMeta ==
    /\ fileSize = 0
    /\ LET meta == Decrypt(metadata, "Metadata")
       IN  IF meta.ok
             THEN /\ fileSize' = meta.plaintext[1] + ExtraCiphertextLen
                  /\ written' = written
             ELSE /\ fileSize' = fileSize
                  /\ written' = [state |-> "Failed", bytes |-> <<>>]
    /\ UNCHANGED <<file, metadata, encrypted, position, data, breaks, signaling>>

Transferring == file.read /\ fileSize > 0 /\ written.state = "Unwritten"

\* The relay takes the content only where the download goes on (409 otherwise).
Agreed == DownloadPosition \in UploadPositions(ContentRange(position, Len(encrypted)))

\* 409 Conflict with the position that the download is at.
Conflict ==
    /\ Transferring
    /\ ~Agreed
    /\ UploadPositions(ContentRange(position, Len(encrypted))) # {}
    /\ position' = DownloadPosition
    /\ UNCHANGED <<file, metadata, encrypted, fileSize, data, written, breaks, signaling>>

\* The bytes of encrypted_bytes.slice(position..) that arrive, n of them.
Arrived(n) == data \o SubSeq(encrypted, position + 1, position + n)

\* A response ends early and both sides try again.
Breaks(n) ==
    /\ Transferring
    /\ Agreed
    /\ breaks < MaxBreaks
    /\ data' = Arrived(n)
    /\ breaks' = breaks + 1
    /\ UNCHANGED <<file, metadata, encrypted, position, fileSize, written, signaling>>

\* DecryptedFile::poll_flush and poll_close on what has arrived.
AnyLength(bytes) ==         \* mutant: does not look at the length
    LET opened == Decrypt(bytes, "Content")
    IN  [state |-> IF opened.ok THEN "Complete" ELSE "Failed", bytes |-> opened.plaintext]
Closed(bytes) ==
    LET opened == Decrypt(bytes, "Content")
        complete == Len(bytes) = fileSize /\ opened.ok
    IN  [state |-> IF complete THEN "Complete" ELSE "Failed",
         bytes |-> IF complete THEN opened.plaintext ELSE <<>>]

\* The rest arrives, and the response is over.
Ends ==
    /\ Transferring
    /\ Agreed
    /\ data' = Arrived(Len(encrypted) - position)
    /\ written' = Closed(data')
    /\ UNCHANGED <<file, metadata, encrypted, position, fileSize, breaks, signaling>>

\* Signaling::send of the message whose encoding is len bytes long.
Signals(side, len) ==
    /\ signal = NoSignal
    /\ signal' = [from |-> side, len |-> len, ciphertext |-> Encrypt(FromMessagePadded(len), side)]
    /\ heard' = <<>>
    /\ UNCHANGED transfer

\* Signaling::decrypt at the other side; nothing decodes to no message.
Hears ==
    /\ signal # NoSignal /\ heard = <<>>
    /\ \E receiver \in Sides \ {signal.from} :
          LET opened == Decrypt(signal.ciphertext, Peer(receiver))
          IN  heard' = << IF opened.ok THEN Decrypted(DecodeLengthDelimited(opened.plaintext))
                                       ELSE DecryptError >>
    /\ UNCHANGED <<signal, transfer>>

\* A message that was heard makes room for the next.
Forgets ==
    /\ heard # <<>>
    /\ signal' = NoSignal
    /\ heard' = <<>>
    /\ UNCHANGED transfer

Transfer ==
    \/ \E size \in 0..(MaxSize + 1) : EncryptFile(size)
    \/ FetchMeta
    \/ Conflict
    \/ \E n \in 0..(Len(encrypted) - position) : Breaks(n)
    \/ Ends

Signaling ==
    \/ \E side \in Sides, len \in 0..MaxMessage : Signals(side, len)
    \/ Hears
    \/ Forgets

Next == Transfer \/ Signaling

Spec == Init /\ [][Next]_vars

\* Both clients go on: the loops of upload_file and download_content try again
\* after every break (util/retry.rs), and here the breaks come to an end.
FairSpec == Spec /\ WF_vars(Transfer)

-----------------------------------------------------------------------------
(* Properties *)

\* A file that is reported complete holds what the uploader read, neither more
\* nor less, and is as long as the metadata promised, however often the
\* transfer broke off and wherever it was resumed, and whatever became of the
\* file between provisioning and reading (api_client.rs:96 leaves the check to
\* the downloader, which has only the length in DecryptedFile::poll_flush).
WrittenIsTheFile ==
    written.state = "Complete" =>
        /\ file.size = file.provisioned
        /\ written.bytes = Bytes(file.provisioned)

\* A file that did not change arrives, the empty one included: every position
\* that upload_file sends is read by range.rs as it was meant, up to
\* `bytes */<size>`, the parts fit together, and nonce and tag are counted the
\* same at both ends.
UnchangedFileArrives ==
    (file.read /\ file.size = file.provisioned) ~> written.state = "Complete"

\* The peer decodes the message that was sealed, whatever its length is to the
\* block and to the varint in front of it, and the relay in between sees whole
\* blocks only, no more of them than the message needs (cipher.rs:226-247).
MessagesComeThrough ==
    signal # NoSignal =>
        LET padded == Len(signal.ciphertext) - ExtraCiphertextLen
        IN  /\ heard # <<>> => heard[1] = Decrypted(Bytes(signal.len))
            /\ padded % BlockLen = 0
            /\ padded - BlockLen < Len(Encoded(signal.len))

=============================================================================
