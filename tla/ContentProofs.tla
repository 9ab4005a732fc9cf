---------------------------- MODULE ContentProofs ----------------------------
(***************************************************************************)
(* Theorems about Content, for files and messages of every length and for  *)
(* every size of nonce, tag, block and varint.                             *)
(***************************************************************************)
EXTENDS Content, TLAPS, SequenceTheorems

-----------------------------------------------------------------------------
(* Arithmetic. *)

\* A multiple of b leaves no remainder, and a remainder is its own.
LEMMA Remainders ==
  ASSUME NEW b \in Nat \ {0}
  PROVE  /\ \A n \in Nat : /\ n % b \in 0..(b - 1) /\ n \div b \in Nat
                           /\ n = b * (n \div b) + (n % b)
         /\ \A q \in Nat : (b * q) % b = 0
         /\ \A r \in 0..(b - 1) : r % b = r /\ (b + r) % b = r
<1>1. \A n \in Nat : /\ n % b \in 0..(b - 1) /\ n \div b \in Nat
                     /\ n = b * (n \div b) + (n % b)
  BY SMT
<1>2. ASSUME NEW q \in Nat, NEW r \in 0..(b - 1) PROVE (b * q + r) % b = r
  <2> DEFINE n == b * q + r
             d == n \div b
  <2>1. n \in Nat
    BY SMT
  <2>2. d \in Nat /\ n % b \in 0..(b - 1) /\ n = b * d + (n % b)
    BY <1>1, <2>1
  <2> HIDE DEF d
  <2>3. b * (q - d) = (n % b) - r
    BY <2>2, SMT
  <2>4. q - d \in Int /\ b * (q - d) > -b /\ b * (q - d) < b
    BY <2>2, <2>3, SMT
  <2>5. q - d >= 1 => b * (q - d) >= b
    BY <2>4, SMT
  <2>6. q - d <= -1 => b * (q - d) <= -b
    BY <2>4, SMT
  <2>7. q - d = 0
    BY <2>4, <2>5, <2>6, SMT
  <2> QED BY <2>2, <2>3, <2>7, SMT
<1>3. \A q \in Nat : (b * q) % b = 0
  <2>1. \A q \in Nat : b * q + 0 = b * q
    BY SMT
  <2>2. 0 \in 0..(b - 1)
    BY SMT
  <2> QED BY <1>2, <2>1, <2>2
<1>4. \A r \in 0..(b - 1) : r % b = r /\ (b + r) % b = r
  <2>1. \A r \in 0..(b - 1) : b * 0 + r = r /\ b * 1 + r = b + r
    BY SMT
  <2>2. 0 \in Nat /\ 1 \in Nat
    BY SMT
  <2> QED BY <1>2, <2>1, <2>2
<1> QED BY <1>1, <1>3, <1>4

\* The padding fills the last block, and no more.
LEMMA Padding ==
  ASSUME NEW len \in Nat
  PROVE  /\ PaddedLen(len) \in Nat /\ PaddedLen(len) % BlockLen = 0
         /\ len <= PaddedLen(len) /\ PaddedLen(len) - BlockLen < len
<1>1. BlockLen \in Nat \ {0}
  BY SizesAssumption
<1>2. CASE len % BlockLen = 0
  BY <1>1, <1>2, SMT DEF PaddedLen
<1>3. CASE len % BlockLen # 0
  <2> DEFINE q == len \div BlockLen
             r == len % BlockLen
  <2>1. r \in 0..(BlockLen - 1) /\ r # 0 /\ q \in Nat /\ len = BlockLen * q + r
    BY <1>1, <1>3, Remainders
  <2>2. PaddedLen(len) = len + (BlockLen - r)
    BY <1>3 DEF PaddedLen
  <2> HIDE DEF q, r
  <2>3. len + (BlockLen - r) = BlockLen * (q + 1) /\ q + 1 \in Nat
    BY <1>1, <2>1, SMT
  <2>4. \A x \in Nat : (BlockLen * x) % BlockLen = 0
    BY <1>1, Remainders
  <2>5. PaddedLen(len) % BlockLen = 0
    BY <2>2, <2>3, <2>4, Zenon
  <2>6. /\ len + (BlockLen - r) \in Nat /\ len <= len + (BlockLen - r)
        /\ (len + (BlockLen - r)) - BlockLen < len
    BY <1>1, <2>1, SMT
  <2> QED BY <2>2, <2>5, <2>6, Zenon
<1> QED BY <1>2, <1>3

-----------------------------------------------------------------------------
(* Buffers. *)

\* What the constants are.
LEMMA SizesTyped ==
  /\ MaxSize \in Nat /\ MaxMessage \in Nat
  /\ NonceSize \in Nat \ {0} /\ TagSize \in Nat \ {0}
  /\ BlockLen \in Nat \ {0} /\ VarintBase \in Nat \ {0}
BY SizesAssumption

\* A file and a fill are as long as they are meant to be.
LEMMA FilledTyped ==
  ASSUME NEW n \in Nat
  PROVE  /\ Bytes(n) \in Seq(Int) /\ Len(Bytes(n)) = n /\ \A i \in 1..n : Bytes(n)[i] = i
         /\ \A byte \in Int : Fill(byte, n) \in Seq(Int) /\ Len(Fill(byte, n)) = n
BY DEF Bytes, Fill

\* What two sequences are one behind the other.
LEMMA Joined ==
  ASSUME NEW S
  PROVE  \A s, t \in Seq(S) :
           /\ s \o t \in Seq(S) /\ Len(s \o t) = Len(s) + Len(t)
           /\ \A i \in 1..Len(s) : (s \o t)[i] = s[i]
           /\ \A i \in 1..Len(t) : (s \o t)[Len(s) + i] = t[i]
<1> TAKE s, t \in Seq(S)
<1>1. /\ s \o t \in Seq(S) /\ Len(s \o t) = Len(s) + Len(t)
      /\ \A i \in 1..(Len(s) + Len(t)) :
            (s \o t)[i] = IF i <= Len(s) THEN s[i] ELSE t[i - Len(s)]
  BY ConcatProperties
<1>2. /\ \A i \in 1..Len(s) : i \in 1..(Len(s) + Len(t)) /\ i <= Len(s)
      /\ \A i \in 1..Len(t) : /\ Len(s) + i \in 1..(Len(s) + Len(t)) /\ ~(Len(s) + i <= Len(s))
                              /\ (Len(s) + i) - Len(s) = i
  <2>1. Len(s) \in Nat /\ Len(t) \in Nat
    BY LenProperties
  <2> QED BY <2>1, SMT
<1> QED BY <1>1, <1>2, Zenon

\* Nonce and tag lie around the plaintext, which is what is between them.
LEMMA BufferTyped ==
  ASSUME NEW plaintext \in Seq(Int)
  PROVE  /\ Buffer(plaintext) \in Seq(Int)
         /\ Len(Buffer(plaintext)) = Len(plaintext) + ExtraCiphertextLen
         /\ ExtraCiphertextLen \in Nat \ {0}
         /\ IntoPlaintext(Buffer(plaintext)) = plaintext
<1> DEFINE nonce == Fill(Random, NonceSize)
           tag == Fill(Zero, TagSize)
           front == nonce \o plaintext
           buffer == Buffer(plaintext)
           n == Len(plaintext)
<1>1. /\ nonce \in Seq(Int) /\ Len(nonce) = NonceSize /\ tag \in Seq(Int) /\ Len(tag) = TagSize
      /\ n \in Nat
  <2>1. Random \in Int /\ Zero \in Int
    BY DEF Random, Zero
  <2>2. /\ Fill(Random, NonceSize) \in Seq(Int) /\ Len(Fill(Random, NonceSize)) = NonceSize
        /\ Fill(Zero, TagSize) \in Seq(Int) /\ Len(Fill(Zero, TagSize)) = TagSize
    <3>1. /\ \A byte \in Int : Fill(byte, NonceSize) \in Seq(Int) /\ Len(Fill(byte, NonceSize)) = NonceSize
          /\ \A byte \in Int : Fill(byte, TagSize) \in Seq(Int) /\ Len(Fill(byte, TagSize)) = TagSize
      BY SizesTyped, FilledTyped
    <3> QED BY <2>1, <3>1
  <2>3. n \in Nat
    BY LenProperties
  <2> QED BY <2>2, <2>3
<1> HIDE DEF nonce, tag
<1>2. /\ front \in Seq(Int) /\ Len(front) = NonceSize + n
      /\ \A i \in 1..n : front[NonceSize + i] = plaintext[i]
  <2>1. /\ front \in Seq(Int) /\ Len(front) = Len(nonce) + Len(plaintext)
        /\ \A i \in 1..Len(plaintext) : front[Len(nonce) + i] = plaintext[i]
    <3>1. nonce \in Seq(Int)
      BY <1>1
    <3> QED BY <3>1, Joined
  <2> QED BY <1>1, <2>1, Zenon
<1> HIDE DEF front
<1>3. /\ buffer \in Seq(Int) /\ Len(buffer) = (NonceSize + n) + TagSize
      /\ \A i \in 1..n : buffer[NonceSize + i] = plaintext[i]
  <2>1. buffer = front \o tag
    BY DEF Buffer, front, nonce, tag
  <2>2. \A i \in 1..n : NonceSize + i \in 1..Len(front)
    BY <1>1, <1>2, SizesTyped, SMT
  <2>3. /\ front \o tag \in Seq(Int) /\ Len(front \o tag) = Len(front) + Len(tag)
        /\ \A i \in 1..Len(front) : (front \o tag)[i] = front[i]
    <3>1. front \in Seq(Int) /\ tag \in Seq(Int)
      BY <1>1, <1>2
    <3> QED BY <3>1, Joined
  <2> HIDE DEF buffer, n
  <2> QED BY <1>1, <1>2, <2>1, <2>2, <2>3
<1> HIDE DEF buffer, n
<1>4. ExtraCiphertextLen \in Nat \ {0} /\ (NonceSize + n) + TagSize = n + ExtraCiphertextLen
  BY <1>1, SizesTyped DEF ExtraCiphertextLen
<1>5. SubSeq(buffer, NonceSize + 1, NonceSize + n) = plaintext
  <2>1. \A i \in (NonceSize + 1)..(NonceSize + n) : buffer[i] \in Int
    BY <1>1, <1>3, SizesTyped, ElementOfSeq
  <2>2. /\ SubSeq(buffer, NonceSize + 1, NonceSize + n) \in Seq(Int)
        /\ Len(SubSeq(buffer, NonceSize + 1, NonceSize + n)) =
              IF NonceSize + 1 <= NonceSize + n THEN (NonceSize + n) - (NonceSize + 1) + 1 ELSE 0
        /\ \A i \in 1..((NonceSize + n) - (NonceSize + 1) + 1) :
              SubSeq(buffer, NonceSize + 1, NonceSize + n)[i] = buffer[(NonceSize + 1) + i - 1]
    <3>1. NonceSize + 1 \in Int /\ NonceSize + n \in Int
      BY <1>1, SizesTyped, SMT
    <3> QED BY <2>1, <3>1, SubSeqProperties
  <2>3. /\ (IF NonceSize + 1 <= NonceSize + n THEN (NonceSize + n) - (NonceSize + 1) + 1 ELSE 0) = n
        /\ (NonceSize + n) - (NonceSize + 1) + 1 = n
        /\ \A i \in 1..n : (NonceSize + 1) + i - 1 = NonceSize + i
    BY <1>1, SizesTyped, SMT
  <2>4. Len(plaintext) = n /\ \A i \in 1..n :
           SubSeq(buffer, NonceSize + 1, NonceSize + n)[i] = plaintext[i]
    BY <1>3, <2>2, <2>3 DEF n
  <2> QED BY <2>2, <2>3, <2>4, SeqEqual
<1>6. Len(buffer) - TagSize = NonceSize + n
  BY <1>1, <1>3, SizesTyped, SMT
<1>7. IntoPlaintext(buffer) = plaintext
  BY <1>5, <1>6, Zenon DEF IntoPlaintext
<1> QED BY <1>3, <1>4, <1>7 DEF buffer, n


-----------------------------------------------------------------------------
(* Encryptions and the parts of them that arrive. *)

\* The bytes of encryptions.
Cells == [key : {DerivedKey(usage) : usage \in Usages}, of : Seq(Int), at : Nat]

\* What arrived is the beginning of what was sent.
BeginsAs(part, whole) ==
    /\ Len(part) <= Len(whole)
    /\ \A i \in 1..Len(part) : part[i] = whole[i]

\* A buffer is encrypted in place: no byte more or less, and each knows what it is of.
LEMMA Sealed ==
  ASSUME NEW buffer \in Seq(Int), NEW usage \in Usages
  PROVE  /\ Encrypt(buffer, usage) \in Seq(Cells)
         /\ Len(Encrypt(buffer, usage)) = Len(buffer)
         /\ \A i \in 1..Len(buffer) : Encrypt(buffer, usage)[i].of = buffer
<1>1. Len(buffer) \in Nat
  BY LenProperties
<1>2. \A i \in 1..Len(buffer) : [key |-> DerivedKey(usage), of |-> buffer, at |-> i] \in Cells
  BY <1>1 DEF Cells
<1> QED BY <1>1, <1>2 DEF Encrypt

\* The whole of an encryption opens to its plaintext.
LEMMA WholeOpens ==
  ASSUME NEW plaintext \in Seq(Int), NEW usage \in Usages
  PROVE  Decrypt(Encrypt(Buffer(plaintext), usage), usage) = Decrypted(plaintext)
<1> DEFINE buffer == Buffer(plaintext)
           c == Encrypt(buffer, usage)
<1>1. /\ buffer \in Seq(Int) /\ Len(buffer) = Len(plaintext) + ExtraCiphertextLen
      /\ ExtraCiphertextLen \in Nat \ {0} /\ IntoPlaintext(buffer) = plaintext
      /\ Len(plaintext) \in Nat
  BY BufferTyped, LenProperties
<1>2. Len(c) = Len(buffer) /\ c[1].of = buffer
  <2> HIDE DEF buffer
  <2>1. 1 \in 1..Len(buffer)
    BY <1>1, SMT
  <2> QED BY <1>1, <2>1, Sealed
<1>3. Len(c) >= ExtraCiphertextLen
  BY <1>1, <1>2, SMT
<1> HIDE DEF buffer
<1> QED BY <1>1, <1>2, <1>3 DEF Decrypt, Authentic, buffer

\* Nothing but the whole of it opens.
LEMMA OnlyWholeOpens ==
  ASSUME NEW plaintext \in Seq(Int), NEW usage \in Usages, NEW part \in Seq(Cells),
         BeginsAs(part, Encrypt(Buffer(plaintext), usage)), Decrypt(part, usage).ok
  PROVE  part = Encrypt(Buffer(plaintext), usage)
<1> DEFINE buffer == Buffer(plaintext)
           c == Encrypt(buffer, usage)
<1>1. buffer \in Seq(Int) /\ ExtraCiphertextLen \in Nat \ {0}
  BY BufferTyped
<1>2. Len(part) >= ExtraCiphertextLen /\ part = Encrypt(part[1].of, usage)
  BY DEF Decrypt, Authentic, DecryptError
<1>3. Len(part) \in Nat /\ 1 \in 1..Len(part) /\ Len(part) <= Len(c)
  BY <1>1, <1>2, LenProperties DEF BeginsAs
<1>4. part[1].of = buffer
  <2>1. Len(c) = Len(buffer) /\ Len(buffer) \in Nat /\ \A i \in 1..Len(buffer) : c[i].of = buffer
    <3> HIDE DEF buffer
    <3> QED BY <1>1, Sealed, LenProperties
  <2>2. 1 \in 1..Len(buffer)
    BY <1>3, <2>1, SMT
  <2>3. part[1] = c[1]
    BY <1>3 DEF BeginsAs
  <2> HIDE DEF c, buffer
  <2> QED BY <2>1, <2>2, <2>3
<1> QED BY <1>2, <1>4

\* What is sent from where the part ends makes it longer.
LEMMA PartGrows ==
  ASSUME NEW part \in Seq(Cells), NEW whole \in Seq(Cells), BeginsAs(part, whole),
         NEW n \in 0..(Len(whole) - Len(part))
  PROVE  /\ part \o SubSeq(whole, Len(part) + 1, Len(part) + n) \in Seq(Cells)
         /\ BeginsAs(part \o SubSeq(whole, Len(part) + 1, Len(part) + n), whole)
<1> DEFINE m == Len(part)
           rest == SubSeq(whole, m + 1, m + n)
           longer == part \o rest
<1>1. m \in Nat /\ Len(whole) \in Nat /\ m <= Len(whole) /\ n \in Nat /\ m + n <= Len(whole)
  BY LenProperties DEF BeginsAs
<1>2. rest \in Seq(Cells) /\ Len(rest) = n /\ \A i \in 1..n : rest[i] = whole[m + i]
  <2>1. \A i \in (m + 1)..(m + n) : whole[i] \in Cells
    BY <1>1, ElementOfSeq
  <2>2. m + 1 \in Int /\ m + n \in Int
    BY <1>1, SMT
  <2> HIDE DEF m
  <2>3. /\ rest \in Seq(Cells)
        /\ Len(rest) = IF m + 1 <= m + n THEN (m + n) - (m + 1) + 1 ELSE 0
        /\ \A i \in 1..((m + n) - (m + 1) + 1) : rest[i] = whole[(m + 1) + i - 1]
    BY SMTT(30), <2>1, <2>2, SubSeqProperties
  <2>4. /\ (IF m + 1 <= m + n THEN (m + n) - (m + 1) + 1 ELSE 0) = n
        /\ (m + n) - (m + 1) + 1 = n
        /\ \A i \in 1..n : (m + 1) + i - 1 = m + i
    BY <1>1, SMT
  <2> HIDE DEF rest
  <2> QED BY <2>3, <2>4
<1> HIDE DEF rest
<1>3. /\ longer \in Seq(Cells) /\ Len(longer) = m + n
      /\ \A i \in 1..m : longer[i] = part[i]
      /\ \A i \in 1..n : longer[m + i] = rest[i]
  <2>1. /\ part \o rest \in Seq(Cells) /\ Len(part \o rest) = Len(part) + Len(rest)
        /\ \A i \in 1..Len(part) : (part \o rest)[i] = part[i]
        /\ \A i \in 1..Len(rest) : (part \o rest)[Len(part) + i] = rest[i]
    <3>1. rest \in Seq(Cells)
      BY <1>2
    <3> QED BY <3>1, Joined
  <2> QED BY <1>2, <2>1, Zenon
<1> HIDE DEF longer
<1>4. ASSUME NEW i \in 1..(m + n) PROVE longer[i] = whole[i]
  <2>1. CASE i \in 1..m
    BY <1>3, <2>1 DEF BeginsAs
  <2>2. CASE i - m \in 1..n
    <3> DEFINE j == i - m
    <3>1. j \in 1..n /\ m + j = i
      BY <1>1, <2>2, SMT
    <3> HIDE DEF j, m
    <3> QED BY <1>2, <1>3, <3>1
  <2>3. i \in 1..m \/ i - m \in 1..n
    BY <1>1, SMT
  <2> QED BY <2>1, <2>2, <2>3
<1> QED BY <1>1, <1>3, <1>4 DEF BeginsAs, longer, rest


-----------------------------------------------------------------------------
(* The transfer. *)

\* The metadata tell the size that was provisioned, and the content is what the uploader read.
FileOK ==
    /\ file \in [provisioned : Nat, size : Nat, read : BOOLEAN]
    /\ metadata = Encrypt(Buffer(<<file.provisioned>>), "Metadata")
    /\ encrypted = IF file.read THEN Encrypt(ReadPlaintextToEnd(file.size), "Content") ELSE <<>>

\* The parts that have arrived are the beginning of the content, wherever the responses
\* broke off, and the downloader knows the length that the content must have.
PartsFit ==
    /\ fileSize \in {0, file.provisioned + ExtraCiphertextLen}
    /\ data \in Seq(Cells) /\ BeginsAs(data, encrypted)
    /\ position \in 0..Len(encrypted)

\* What OutcomeIsTrue says is WrittenIsTheFile, and that the file was read at all.
OutcomeIsTrue ==
    written.state = "Complete" =>
        file.read /\ file.size = file.provisioned /\ written.bytes = Bytes(file.size)

TransferInv == FileOK /\ PartsFit /\ OutcomeIsTrue

-----------------------------------------------------------------------------
(* The signaling messages. *)

\* A sealed message, and what was decoded of it.
SignalInv ==
    \/ signal = NoSignal
    \/ /\ signal.from \in Sides /\ signal.len \in Nat
       /\ signal.ciphertext = Encrypt(FromMessagePadded(signal.len), signal.from)
       /\ heard \in {<<>>, <<Decrypted(Bytes(signal.len))>>}

-----------------------------------------------------------------------------

\* Nothing, and a single number, as sequences.
LEMMA NoneTyped ==
  /\ <<>> \in Seq(Cells) /\ <<>> \in Seq(Int) /\ Len(<<>>) = 0
  /\ \A n \in Int : <<n>> \in Seq(Int) /\ <<n>>[1] = n
OBVIOUS

\* The content is as long as the file that was read, with its nonce and tag.
LEMMA ContentTyped ==
  ASSUME FileOK
  PROVE  /\ encrypted \in Seq(Cells) /\ Len(encrypted) \in Nat
         /\ file.read => /\ encrypted = Encrypt(Buffer(Bytes(file.size)), "Content")
                         /\ Bytes(file.size) \in Seq(Int)
                         /\ Len(encrypted) = file.size + ExtraCiphertextLen
<1>1. CASE file.read
  <2>1. file.size \in Nat /\ encrypted = Encrypt(Buffer(Bytes(file.size)), "Content")
    BY <1>1 DEF FileOK, ReadPlaintextToEnd
  <2>2. Bytes(file.size) \in Seq(Int) /\ Len(Bytes(file.size)) = file.size
    BY <2>1, FilledTyped
  <2>3. /\ Buffer(Bytes(file.size)) \in Seq(Int)
        /\ Len(Buffer(Bytes(file.size))) = file.size + ExtraCiphertextLen
    BY <2>2, BufferTyped
  <2>4. "Content" \in Usages
    BY DEF Usages
  <2>5. encrypted \in Seq(Cells) /\ Len(encrypted) = Len(Buffer(Bytes(file.size)))
    BY <2>1, <2>3, <2>4, Sealed
  <2> QED BY <2>1, <2>2, <2>3, <2>5, LenProperties
<1>2. CASE ~file.read
  BY <1>2, NoneTyped DEF FileOK
<1> QED BY <1>1, <1>2

\* The relay takes the content only from where the download is.
LEMMA AgreedPosition ==
  ASSUME TransferInv, Agreed
  PROVE  position = Len(data)
<1>1. /\ Len(encrypted) \in Nat /\ position \in 0..Len(encrypted)
      /\ Len(data) \in Nat /\ Len(data) <= Len(encrypted)
  BY ContentTyped, LenProperties DEF TransferInv, PartsFit, BeginsAs
<1>2. CASE position < Len(encrypted)
  BY <1>2 DEF Agreed, UploadPositions, ContentRange, DownloadPosition
<1>3. CASE ~(position < Len(encrypted))
  <2>1. Len(data) = Len(encrypted)
    BY <1>3 DEF Agreed, UploadPositions, ContentRange, DownloadPosition
  <2> QED BY <1>1, <1>3, <2>1, SMT
<1> QED BY <1>2, <1>3

\* Whatever arrives goes on where the download is.
LEMMA ArrivedFits ==
  ASSUME TransferInv, Agreed, NEW n \in 0..(Len(encrypted) - position)
  PROVE  Arrived(n) \in Seq(Cells) /\ BeginsAs(Arrived(n), encrypted)
<1>1. position = Len(data)
  BY AgreedPosition
<1>2. /\ encrypted \in Seq(Cells) /\ data \in Seq(Cells) /\ BeginsAs(data, encrypted)
      /\ n \in 0..(Len(encrypted) - Len(data))
  BY <1>1, ContentTyped DEF TransferInv, PartsFit
<1>3. Arrived(n) = data \o SubSeq(encrypted, Len(data) + 1, Len(data) + n)
  BY <1>1 DEF Arrived
<1> QED BY <1>2, <1>3, PartGrows

\* What the downloader takes for complete is the content, which is as long as promised
\* only if the file is.
LEMMA CompleteIsTheFile ==
  ASSUME TransferInv, file.read, fileSize > 0, NEW bytes \in Seq(Cells), BeginsAs(bytes, encrypted),
         Closed(bytes).state = "Complete"
  PROVE  file.size = file.provisioned /\ Closed(bytes).bytes = Bytes(file.size)
<1> DEFINE opened == Decrypt(bytes, "Content")
<1>1. Len(bytes) = fileSize /\ opened.ok
  BY DEF Closed
<1>2. /\ encrypted = Encrypt(Buffer(Bytes(file.size)), "Content")
      /\ Bytes(file.size) \in Seq(Int) /\ Len(encrypted) = file.size + ExtraCiphertextLen
      /\ "Content" \in Usages
  BY ContentTyped DEF TransferInv, Usages
<1>3. bytes = encrypted
  BY <1>1, <1>2, OnlyWholeOpens
<1>4. fileSize = file.provisioned + ExtraCiphertextLen
  BY DEF TransferInv, PartsFit
<1>5. file.size = file.provisioned
  <2>1. file.size \in Nat /\ file.provisioned \in Nat /\ ExtraCiphertextLen \in Nat
    BY SizesTyped DEF TransferInv, FileOK, ExtraCiphertextLen
  <2> QED BY <1>1, <1>2, <1>3, <1>4, <2>1, SMT
<1>6. opened = Decrypted(Bytes(file.size))
  BY <1>2, <1>3, WholeOpens
<1>7. Closed(bytes).bytes = opened.plaintext
  BY <1>1 DEF Closed
<1> QED BY <1>5, <1>6, <1>7 DEF Decrypted

\* Before anything is read, nothing is there to differ from the file.
LEMMA TransferInit == Init => TransferInv
<1> SUFFICES ASSUME Init PROVE TransferInv
  OBVIOUS
<1>1. FileOK
  <2>1. PICK n \in 0..MaxSize : file = [NoFile EXCEPT !.provisioned = n]
    BY DEF Init
  <2>2. file = [provisioned |-> n, size |-> 0, read |-> FALSE]
    BY <2>1 DEF NoFile
  <2>3. n \in Nat
    BY SizesTyped
  <2> QED BY <2>2, <2>3 DEF Init, FileOK
<1>2. PartsFit
  <2>1. BeginsAs(<<>>, <<>>) /\ 0 \in 0..Len(<<>>)
    BY NoneTyped DEF BeginsAs
  <2> QED BY <2>1, NoneTyped DEF Init, PartsFit
<1>3. OutcomeIsTrue
  BY DEF Init, OutcomeIsTrue, NotWritten
<1> QED BY <1>1, <1>2, <1>3 DEF TransferInv

\* Reading, a response that breaks off or ends, and a conflict keep the parts together.
LEMMA TransferStep ==
  ASSUME TransferInv, [Next]_vars
  PROVE  TransferInv'
<1> USE DEF TransferInv
<1>1. CASE UNCHANGED vars
  BY <1>1 DEF vars, transfer, FileOK, PartsFit, OutcomeIsTrue
<1>2. CASE Signaling
  BY <1>2 DEF Signaling, Signals, Hears, Forgets, transfer, FileOK, PartsFit, OutcomeIsTrue
<1>3. ASSUME NEW size \in 0..(MaxSize + 1), EncryptFile(size) PROVE TransferInv'
  <2>1. /\ ~file.read /\ file' = [file EXCEPT !.size = size, !.read = TRUE]
        /\ encrypted' = Encrypt(ReadPlaintextToEnd(size), "Content")
        /\ UNCHANGED <<metadata, position, fileSize, data, written>>
    BY <1>3 DEF EncryptFile
  <2>2. size \in Nat
    BY SizesTyped
  <2>3. file' = [provisioned |-> file.provisioned, size |-> size, read |-> TRUE]
    BY <2>1 DEF FileOK
  <2>4. FileOK'
    BY <2>1, <2>2, <2>3 DEF FileOK
  <2>5. PartsFit'
    <3>1. Len(encrypted) = 0
      BY <2>1, NoneTyped DEF FileOK
    <3>2. Len(data) = 0 /\ position = 0
      BY <3>1, LenProperties DEF PartsFit, BeginsAs
    <3>3. Len(encrypted') \in Nat
      BY <2>4, ContentTyped
    <3>4. BeginsAs(data, encrypted')
      BY <3>2, <3>3 DEF BeginsAs
    <3> QED BY <2>1, <2>3, <3>2, <3>3, <3>4 DEF PartsFit
  <2>6. OutcomeIsTrue'
    BY <2>1 DEF OutcomeIsTrue
  <2> QED BY <2>4, <2>5, <2>6
<1>4. CASE FetchMeta
  <2>1. UNCHANGED <<file, metadata, encrypted, position, data>>
    BY <1>4 DEF FetchMeta
  <2>2. Decrypt(metadata, "Metadata") = Decrypted(<<file.provisioned>>)
    <3>1. file.provisioned \in Int /\ "Metadata" \in Usages
      BY DEF FileOK, Usages
    <3>2. <<file.provisioned>> \in Seq(Int)
      BY <3>1, NoneTyped
    <3> QED BY <3>1, <3>2, WholeOpens DEF FileOK
  <2>3. fileSize' = file.provisioned + ExtraCiphertextLen /\ written' = written
    BY <1>4, <2>2 DEF FetchMeta, Decrypted
  <2> QED BY <2>1, <2>3 DEF FileOK, PartsFit, OutcomeIsTrue
<1>5. CASE Conflict
  <2>1. position' = Len(data) /\ UNCHANGED <<file, metadata, encrypted, fileSize, data, written>>
    BY <1>5 DEF Conflict, DownloadPosition
  <2>2. Len(data) \in 0..Len(encrypted)
    BY ContentTyped, LenProperties DEF PartsFit, BeginsAs
  <2> QED BY <2>1, <2>2 DEF FileOK, PartsFit, OutcomeIsTrue
<1>6. ASSUME NEW n \in 0..(Len(encrypted) - position), Breaks(n) PROVE TransferInv'
  <2>1. /\ Agreed /\ data' = Arrived(n)
        /\ UNCHANGED <<file, metadata, encrypted, position, fileSize, written>>
    BY <1>6 DEF Breaks
  <2>2. data' \in Seq(Cells) /\ BeginsAs(data', encrypted)
    BY <2>1, ArrivedFits
  <2> QED BY <2>1, <2>2 DEF FileOK, PartsFit, OutcomeIsTrue
<1>7. CASE Ends
  <2>1. /\ Agreed /\ data' = Arrived(Len(encrypted) - position) /\ written' = Closed(data')
        /\ UNCHANGED <<file, metadata, encrypted, position, fileSize>>
        /\ file.read /\ fileSize > 0
    BY <1>7 DEF Ends, Transferring
  <2>2. Len(encrypted) - position \in 0..(Len(encrypted) - position)
    BY ContentTyped DEF PartsFit
  <2>3. data' \in Seq(Cells) /\ BeginsAs(data', encrypted)
    BY <2>1, <2>2, ArrivedFits
  <2>4. FileOK' /\ PartsFit'
    BY <2>1, <2>3 DEF FileOK, PartsFit
  <2>5. Closed(data').state = "Complete" =>
          file.size = file.provisioned /\ Closed(data').bytes = Bytes(file.size)
    BY <2>1, <2>3, CompleteIsTheFile
  <2> QED BY <2>1, <2>4, <2>5 DEF OutcomeIsTrue
<1> QED BY <1>1, <1>2, <1>3, <1>4, <1>5, <1>6, <1>7 DEF Next, Transfer

\* A file that is reported complete holds what the uploader read, and is as long as the
\* metadata promised, however often the transfer broke off and wherever it was resumed.
\* (DecryptedFile::poll_flush)
THEOREM CompleteFilesAreTrue == Spec => []WrittenIsTheFile
<1>1. TransferInv => WrittenIsTheFile
  BY DEF TransferInv, OutcomeIsTrue, WrittenIsTheFile
<1>2. TransferInv /\ [Next]_vars => TransferInv'
  BY TransferStep
<1> QED BY <1>1, <1>2, TransferInit, PTL DEF Spec


-----------------------------------------------------------------------------

\* The length is in front of the message, in one byte or in two.
LEMMA EncodedTyped ==
  ASSUME NEW len \in Nat
  PROVE  /\ Delimiter(len) \in Seq(Int) /\ Len(Delimiter(len)) = IF len < VarintBase THEN 1 ELSE 2
         /\ Encoded(len) \in Seq(Int) /\ Len(Encoded(len)) = Len(Delimiter(len)) + len
         /\ \A i \in 1..Len(Delimiter(len)) : Encoded(len)[i] = Delimiter(len)[i]
         /\ \A i \in 1..len : Encoded(len)[Len(Delimiter(len)) + i] = i
<1>1. /\ Delimiter(len) \in Seq(Int)
      /\ Len(Delimiter(len)) = IF len < VarintBase THEN 1 ELSE 2
  <2>1. /\ VarintBase + (len % VarintBase) \in Int /\ len \div VarintBase \in Int
    BY SizesTyped, Remainders
  <2> QED BY <2>1 DEF Delimiter
<1>2. Bytes(len) \in Seq(Int) /\ Len(Bytes(len)) = len /\ \A i \in 1..len : Bytes(len)[i] = i
  BY FilledTyped
<1>3. /\ Encoded(len) \in Seq(Int) /\ Len(Encoded(len)) = Len(Delimiter(len)) + Len(Bytes(len))
      /\ \A i \in 1..Len(Delimiter(len)) : Encoded(len)[i] = Delimiter(len)[i]
      /\ \A i \in 1..Len(Bytes(len)) : Encoded(len)[Len(Delimiter(len)) + i] = Bytes(len)[i]
  <2>1. Delimiter(len) \in Seq(Int) /\ Bytes(len) \in Seq(Int)
    BY <1>1, <1>2
  <2> QED BY <2>1, Joined DEF Encoded
<1> QED BY <1>1, <1>2, <1>3

\* Whatever lies behind it, a message decodes by the length in front of it.
LEMMA MessageDecodes ==
  ASSUME NEW len \in Nat, NEW behind \in Seq(Int)
  PROVE  DecodeLengthDelimited(Encoded(len) \o behind) = Bytes(len)
<1> DEFINE p == Encoded(len) \o behind
           d == Len(Delimiter(len))
<1>1. /\ d = IF len < VarintBase THEN 1 ELSE 2
      /\ Encoded(len) \in Seq(Int) /\ Len(Encoded(len)) = d + len
      /\ \A i \in 1..d : Encoded(len)[i] = Delimiter(len)[i]
      /\ \A i \in 1..len : Encoded(len)[d + i] = i
  BY EncodedTyped
<1> HIDE DEF d
<1>2. /\ \A i \in 1..d : i \in 1..(d + len)
      /\ \A i \in 1..len : d + i \in 1..(d + len)
      /\ d \in Nat
  BY <1>1, SMT
<1>3. /\ \A i \in 1..d : p[i] = Delimiter(len)[i]
      /\ \A i \in 1..len : p[d + i] = i
  <2>1. Encoded(len) \in Seq(Int)
    BY <1>1
  <2>2. \A i \in 1..Len(Encoded(len)) : p[i] = Encoded(len)[i]
    BY <2>1, Joined
  <2> HIDE DEF p
  <2> QED BY <1>1, <1>2, <2>2
<1> HIDE DEF p
<1>4. SubSeq(p, d + 1, d + len) = Bytes(len)
  <2>1. d + 1 \in Int /\ d + len \in Int /\ (d + len) - (d + 1) + 1 = len
    BY <1>2, SMT
  <2>2. \A i \in (d + 1)..(d + len) : p[i] \in Int
    <3> SUFFICES ASSUME NEW i \in (d + 1)..(d + len) PROVE p[i] \in Int
      OBVIOUS
    <3>1. i - d \in 1..len /\ d + (i - d) = i
      BY <1>2, SMT
    <3>2. p[d + (i - d)] = i - d
      BY <1>3, <3>1
    <3> QED BY <3>1, <3>2
  <2>3. /\ SubSeq(p, d + 1, d + len) \in Seq(Int)
        /\ Len(SubSeq(p, d + 1, d + len)) =
              IF d + 1 <= d + len THEN (d + len) - (d + 1) + 1 ELSE 0
        /\ \A i \in 1..((d + len) - (d + 1) + 1) :
              SubSeq(p, d + 1, d + len)[i] = p[(d + 1) + i - 1]
    BY <2>1, <2>2, SubSeqProperties
  <2>4. /\ (IF d + 1 <= d + len THEN (d + len) - (d + 1) + 1 ELSE 0) = len
        /\ \A i \in 1..len : (d + 1) + i - 1 = d + i
    BY <1>2, SMT
  <2>5. /\ Bytes(len) \in Seq(Int) /\ Len(Bytes(len)) = len
        /\ \A i \in 1..len : Bytes(len)[i] = i
    BY FilledTyped
  <2>6. \A i \in 1..len : SubSeq(p, d + 1, d + len)[i] = Bytes(len)[i]
    BY <1>3, <2>1, <2>3, <2>4, <2>5
  <2> QED BY <2>3, <2>4, <2>5, <2>6, SeqEqual
<1>5. CASE len < VarintBase
  <2>1. d = 1 /\ p[1] = len
    <3>1. d = 1 /\ 1 \in 1..d
      BY <1>1, <1>5
    <3> QED BY <1>3, <1>5, <3>1 DEF Delimiter
  <2>2. ~(p[1] >= VarintBase)
    BY <1>5, <2>1, SizesTyped
  <2>3. DecodeLengthDelimited(p) = SubSeq(p, 1 + 1, 1 + p[1])
    BY <2>2 DEF DecodeLengthDelimited
  <2> QED BY <1>4, <2>1, <2>3 DEF p
<1>6. CASE ~(len < VarintBase)
  <2> DEFINE low == len % VarintBase
             high == len \div VarintBase
  <2>1. low \in 0..(VarintBase - 1) /\ high \in Nat /\ len = VarintBase * high + low
        /\ (VarintBase + low) % VarintBase = low
    BY SizesTyped, Remainders
  <2>2. d = 2 /\ p[1] = VarintBase + low /\ p[2] = high
    <3>1. d = 2 /\ 1 \in 1..d /\ 2 \in 1..d
      BY <1>1, <1>6
    <3> QED BY <1>3, <1>6, <3>1 DEF Delimiter
  <2> HIDE DEF low, high
  <2>3. p[1] >= VarintBase
    BY <2>1, <2>2, SizesTyped
  <2>4. (p[1] % VarintBase) + VarintBase * p[2] = len
    <3>1. p[1] % VarintBase = low
      BY <2>1, <2>2
    <3>2. low + VarintBase * high = len
      BY <2>1, SizesTyped, SMT
    <3> QED BY <2>2, <3>1, <3>2
  <2>5. DecodeLengthDelimited(p) =
          SubSeq(p, 2 + 1, 2 + ((p[1] % VarintBase) + VarintBase * p[2]))
    BY <2>3 DEF DecodeLengthDelimited
  <2> QED BY <1>4, <2>2, <2>4, <2>5 DEF p
<1> QED BY <1>5, <1>6

\* A message is sealed in whole blocks, and opens to what it was.
LEMMA SealedMessage ==
  ASSUME NEW len \in Nat, NEW side \in Sides
  PROVE  /\ Len(Encrypt(FromMessagePadded(len), side)) = PaddedLen(Len(Encoded(len))) + ExtraCiphertextLen
         /\ Decrypt(Encrypt(FromMessagePadded(len), side), side).ok
         /\ DecodeLengthDelimited(Decrypt(Encrypt(FromMessagePadded(len), side), side).plaintext)
              = Bytes(len)
<1> DEFINE n == Len(Encoded(len))
           fill == Fill(Zero, PaddedLen(n) - n)
           message == Encoded(len) \o fill
<1>1. Encoded(len) \in Seq(Int) /\ n \in Nat /\ side \in Usages
  BY EncodedTyped, LenProperties DEF Sides, Usages
<1>2. PaddedLen(n) - n \in Nat /\ n + (PaddedLen(n) - n) = PaddedLen(n)
  <2> HIDE DEF n
  <2>1. PaddedLen(n) \in Nat /\ n <= PaddedLen(n)
    BY <1>1, Padding
  <2> QED BY <1>1, <2>1, SMT
<1>3. fill \in Seq(Int) /\ Len(fill) = PaddedLen(n) - n
  <2>1. \A byte \in Int : /\ Fill(byte, PaddedLen(n) - n) \in Seq(Int)
                          /\ Len(Fill(byte, PaddedLen(n) - n)) = PaddedLen(n) - n
    BY <1>2, FilledTyped
  <2>2. Zero \in Int
    BY DEF Zero
  <2> QED BY <2>1, <2>2
<1>4. FromMessagePadded(len) = Buffer(message)
  BY DEF FromMessagePadded
<1> HIDE DEF fill
<1>5. message \in Seq(Int) /\ Len(message) = n + Len(fill)
  <2>1. Encoded(len) \in Seq(Int) /\ fill \in Seq(Int)
    BY <1>1, <1>3
  <2> QED BY <2>1, Joined
<1>6. DecodeLengthDelimited(message) = Bytes(len)
  BY <1>3, MessageDecodes
<1> HIDE DEF message, n
<1>7. /\ Buffer(message) \in Seq(Int) /\ Len(Buffer(message)) = Len(message) + ExtraCiphertextLen
  BY <1>5, BufferTyped
<1>8. Len(Encrypt(Buffer(message), side)) = Len(message) + ExtraCiphertextLen
  BY <1>1, <1>7, Sealed
<1>9. Decrypt(Encrypt(Buffer(message), side), side) = Decrypted(message)
  BY <1>1, <1>5, WholeOpens
<1>10. Len(message) = PaddedLen(n)
  BY <1>2, <1>3, <1>5
<1> QED BY <1>4, <1>6, <1>8, <1>9, <1>10 DEF Decrypted, n

\* What is heard is what was sealed.
LEMMA SignalStep ==
  ASSUME SignalInv, [Next]_vars
  PROVE  SignalInv'
<1>1. CASE UNCHANGED vars \/ Transfer
  <2>1. UNCHANGED <<signal, heard>>
    BY <1>1 DEF vars, signaling, Transfer, EncryptFile, FetchMeta, Conflict, Breaks, Ends
  <2> QED BY <2>1 DEF SignalInv
<1>2. ASSUME NEW side \in Sides, NEW len \in 0..MaxMessage, Signals(side, len) PROVE SignalInv'
  <2>1. len \in Nat
    BY SizesTyped
  <2> QED BY <1>2, <2>1 DEF Signals, SignalInv
<1>3. CASE Hears
  <2>1. /\ signal # NoSignal /\ UNCHANGED signal
        /\ signal.from \in Sides /\ signal.len \in Nat
        /\ signal.ciphertext = Encrypt(FromMessagePadded(signal.len), signal.from)
    BY <1>3 DEF Hears, SignalInv
  <2> DEFINE opened == Decrypt(signal.ciphertext, signal.from)
  <2>2. \E receiver \in Sides \ {signal.from} :
          LET heardBy == Decrypt(signal.ciphertext, Peer(receiver))
          IN  heard' = << IF heardBy.ok THEN Decrypted(DecodeLengthDelimited(heardBy.plaintext))
                                        ELSE DecryptError >>
    BY <1>3 DEF Hears
  <2>3. \A receiver \in Sides \ {signal.from} : Peer(receiver) = signal.from
    BY <2>1 DEF Sides, Peer
  <2>4. opened.ok /\ DecodeLengthDelimited(opened.plaintext) = Bytes(signal.len)
    BY <2>1, SealedMessage
  <2>5. heard' = <<Decrypted(Bytes(signal.len))>>
    <3> HIDE DEF opened
    <3>1. heard' = << IF opened.ok THEN Decrypted(DecodeLengthDelimited(opened.plaintext))
                                   ELSE DecryptError >>
      BY <2>2, <2>3 DEF opened
    <3> QED BY <2>4, <3>1
  <2> QED BY <2>1, <2>5 DEF SignalInv
<1>4. CASE Forgets
  BY <1>4 DEF Forgets, SignalInv
<1> QED BY <1>1, <1>2, <1>3, <1>4 DEF Next, Signaling

\* The peer decodes the message that was sealed, whatever its length is to the block and to
\* the varint in front of it, and the relay in between sees whole blocks only, no more of
\* them than the message needs.  (cipher.rs:226-247)
THEOREM MessagesArriveWhole == Spec => []MessagesComeThrough
<1>1. Init => SignalInv
  BY DEF Init, SignalInv
<1>2. SignalInv /\ [Next]_vars => SignalInv'
  BY SignalStep
<1>3. SignalInv => MessagesComeThrough
  <2> SUFFICES ASSUME SignalInv, signal # NoSignal
               PROVE  LET padded == Len(signal.ciphertext) - ExtraCiphertextLen
                      IN  /\ heard # <<>> => heard[1] = Decrypted(Bytes(signal.len))
                          /\ padded % BlockLen = 0
                          /\ padded - BlockLen < Len(Encoded(signal.len))
    BY DEF MessagesComeThrough
  <2> DEFINE n == Len(Encoded(signal.len))
  <2>1. /\ signal.from \in Sides /\ signal.len \in Nat
        /\ signal.ciphertext = Encrypt(FromMessagePadded(signal.len), signal.from)
        /\ heard # <<>> => heard[1] = Decrypted(Bytes(signal.len))
    BY DEF SignalInv
  <2>2. Len(signal.ciphertext) = PaddedLen(n) + ExtraCiphertextLen
    BY <2>1, SealedMessage
  <2>3. n \in Nat
    BY <2>1, EncodedTyped, LenProperties
  <2> HIDE DEF n
  <2>4. PaddedLen(n) \in Nat /\ PaddedLen(n) % BlockLen = 0 /\ PaddedLen(n) - BlockLen < n
    BY <2>3, Padding
  <2>5. Len(signal.ciphertext) - ExtraCiphertextLen = PaddedLen(n)
    <3>1. ExtraCiphertextLen \in Nat
      BY SizesTyped DEF ExtraCiphertextLen
    <3> QED BY <2>2, <2>4, <3>1, SMT
  <2> QED BY <2>1, <2>4, <2>5, Zenon DEF n
<1> QED BY <1>1, <1>2, <1>3, PTL DEF Spec
=============================================================================
