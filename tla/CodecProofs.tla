------------------------------ MODULE CodecProofs ------------------------------
(***************************************************************************)
(* Proofs about the conversions of Codec, for every length of data.        *)
(***************************************************************************)
EXTENDS Codec, SequenceTheorems, TLAPS

(* The strings that base64encode and base64decode size hold what OpenSSL   *)
(* writes into them, whatever the number of bytes encoded.                 *)
THEOREM Base64Fit ==
  \A n \in Nat : Base64Size(n) <= PemLen(n) /\ DecodedSize(n) <= OrgLen(Base64Size(n))
<1> SUFFICES ASSUME NEW n \in Nat
             PROVE  Base64Size(n) <= PemLen(n) /\ DecodedSize(n) <= OrgLen(Base64Size(n))
  OBVIOUS
<1> DEFINE q == (n + 2) \div 3
           k == (q * 4 + 1) \div 64
           l == (n + 47) \div 48
<1>1. q \in Nat /\ n <= 3 * q
  OBVIOUS
<1>2. k \in Nat /\ q <= 16 * k + 15
  BY <1>1
<1>3. l \in Nat /\ l <= k + 1
  BY <1>1, <1>2
<1>4. Base64Size(n) = q * 4 + l /\ PemLen(n) = q * 4 + 1 + k
  BY DEF Base64Size, PemLen
<1>5. Base64Size(n) <= PemLen(n)
  BY <1>1, <1>2, <1>3, <1>4
<1>6. DecodedSize(n) = q * 3 /\ OrgLen(Base64Size(n)) = ((q * 4 + l + 2) \div 4) * 3 + 1
  BY <1>4 DEF DecodedSize, OrgLen
<1>7. (q * 4 + l + 2) \div 4 >= q
  BY <1>1, <1>3
<1>8. (q * 4 + l + 2) \div 4 \in Nat
  BY <1>1, <1>3
<1>9. QED
  BY <1>1, <1>5, <1>6, <1>7, <1>8

-----------------------------------------------------------------------------
(* Division with remainder.                                                *)
LEMMA DivMod ==
  ASSUME NEW a \in Nat, NEW d \in Nat, d > 0
  PROVE  /\ a \div d \in Nat
         /\ a % d \in 0 .. d - 1
         /\ a = d * (a \div d) + (a % d)
  OBVIOUS

(* The quotient and the remainder are the only ones.                       *)
LEMMA DivModUnique ==
  ASSUME NEW d \in Nat, d > 0, NEW q \in Nat, NEW r \in 0 .. d - 1
  PROVE  (d * q + r) \div d = q /\ (d * q + r) % d = r
<1> DEFINE a == d * q + r
<1>1. a \in Nat
  OBVIOUS
<1>2. a = d * (a \div d) + (a % d) /\ a % d \in 0 .. d - 1 /\ a \div d \in Nat
  BY <1>1, DivMod
<1> DEFINE p == a \div d
           t == a % d
<1> HIDE DEF p, t
<1>3. p \in Nat /\ t \in 0 .. d - 1 /\ d * q + r = d * p + t
  BY <1>2 DEF p, t
<1>4. p = q
  <2>1. CASE p >= q + 1
    <3>1. d * p >= d * (q + 1)
      BY <1>3, <2>1
    <3>2. d * (q + 1) = d * q + d /\ d * q \in Nat /\ d * p \in Nat
      BY <1>3
    <3>3. QED
      BY <1>3, <3>1, <3>2
  <2>2. CASE q >= p + 1
    <3>1. d * q >= d * (p + 1)
      BY <1>3, <2>2
    <3>2. d * (p + 1) = d * p + d /\ d * q \in Nat /\ d * p \in Nat
      BY <1>3
    <3>3. QED
      BY <1>3, <3>1, <3>2
  <2>3. QED
    BY <1>3, <2>1, <2>2
<1>5. t = r
  BY <1>3, <1>4
<1>6. QED
  BY <1>4, <1>5 DEF p, t

(* The length word of a frame says its length as long as the length is     *)
(* within the word's range.                                                *)
THEOREM WordRoundTrip ==
  \A len \in 0 .. WordRange - 1 : Word(LowByte(len), HighByte(len)) = len
<1> SUFFICES ASSUME NEW len \in 0 .. WordRange - 1
             PROVE  Word(LowByte(len), HighByte(len)) = len
  OBVIOUS
<1> DEFINE h == len \div Radix
<1>1. Radix \in Nat /\ Radix > 1 /\ Radix * Radix \in Nat /\ len \in Nat /\ len < Radix * Radix
  BY RadixAssumption DEF WordRange
<1>2. h \in Nat /\ len % Radix \in 0 .. Radix - 1 /\ len = Radix * h + (len % Radix)
  BY <1>1, DivMod
<1> HIDE DEF h
<1>3. h < Radix
  <2>1. CASE h >= Radix
    <3>1. Radix * h >= Radix * Radix
      BY <1>1, <1>2, <2>1
    <3>2. Radix * h \in Nat
      BY <1>1, <1>2
    <3>3. QED
      BY <1>1, <1>2, <3>1, <3>2
  <2>2. QED
    BY <1>1, <1>2, <2>1
<1>4. h % Radix = h
  <2>1. h = Radix * 0 + h /\ h \in 0 .. Radix - 1
    BY <1>1, <1>2, <1>3
  <2>2. (Radix * 0 + h) % Radix = h
    BY <1>1, <2>1, DivModUnique
  <2>3. QED
    BY <2>1, <2>2
<1>5. QED
  BY <1>1, <1>2, <1>4 DEF Word, LowByte, HighByte, h

(* The two digits are bytes of a header, and their word is in its range.   *)
LEMMA WordBounds ==
  ASSUME NEW len \in Nat
  PROVE  /\ LowByte(len) \in 0 .. Radix - 1 /\ HighByte(len) \in 0 .. Radix - 1
         /\ Word(LowByte(len), HighByte(len)) \in 0 .. WordRange - 1
<1>1. Radix \in Nat /\ Radix > 1
  BY RadixAssumption
<1>2. /\ LowByte(len) \in 0 .. Radix - 1
      /\ len \div Radix \in Nat
  BY <1>1, DivMod DEF LowByte
<1>3. HighByte(len) \in 0 .. Radix - 1
  BY <1>1, <1>2, DivMod DEF HighByte
<1>4. \A l, g \in 0 .. Radix - 1 : Word(l, g) \in 0 .. WordRange - 1
  <2> SUFFICES ASSUME NEW l \in 0 .. Radix - 1, NEW g \in 0 .. Radix - 1
               PROVE  Word(l, g) \in 0 .. WordRange - 1
    OBVIOUS
  <2>1. PICK r \in Nat : r = Radix - 1
    BY <1>1
  <2>2. Radix = r + 1 /\ g <= r /\ l <= r /\ g \in Nat /\ l \in Nat
    BY <1>1, <2>1
  <2>3. (r + 1) * g <= (r + 1) * r /\ (r + 1) * g \in Nat /\ (r + 1) * (r + 1) = (r + 1) * r + r + 1
        /\ (r + 1) * r \in Nat
    BY <2>2
  <2>4. l + (r + 1) * g \in 0 .. (r + 1) * (r + 1) - 1
    BY <2>2, <2>3
  <2>5. QED
    BY <2>2, <2>4 DEF Word, WordRange
<1>5. QED
  BY <1>2, <1>3, <1>4

(* What FormatCmd makes of a text that fits the length word, ParseCmd takes *)
(* apart again, and no byte of what follows it in the buffer: a text that   *)
(* json-c understands comes back as its command, with the frame's size.     *)
THEOREM FrameRoundTrip ==
  ASSUME NEW text \in Seq(Nat), NEW rest \in Seq(Nat),
         Len(text) + HeaderSize < WordRange,
         NEW texts, JsonParse(text, texts) # 0,
         NEW known, JsonParse(text, texts) \in known
  PROVE  ParseCmd(FormatCmd(text) \o rest, texts, known) =
           [err |-> "SUCCESS", cmd |-> JsonParse(text, texts), size |-> Len(text) + HeaderSize]
<1> DEFINE len == Len(text) + HeaderSize
           head == <<PreChar, LowByte(len), HighByte(len)>>
           s == FormatCmd(text) \o rest
<1>1. Len(text) \in Nat /\ Len(rest) \in Nat /\ HeaderSize = 3 /\ PreChar = 3 /\ len \in Nat
  BY DEF HeaderSize, PreChar
<1>2. Radix \in Nat /\ Radix > 1 /\ Radix * Radix \in Nat
  BY RadixAssumption
<1>3. LowByte(len) \in Nat /\ HighByte(len) \in Nat
  BY <1>1, <1>2, DivMod DEF LowByte, HighByte
<1>4. Word(LowByte(len), HighByte(len)) = len
  BY <1>1, <1>2, WordRoundTrip DEF WordRange
<1>5. head \in Seq(Nat) /\ Len(head) = 3
  BY <1>1, <1>3
<1>6. FormatCmd(text) = head \o text
  BY DEF FormatCmd
<1> HIDE DEF len
<1>7. /\ s \in Seq(Nat) /\ Len(s) = 3 + Len(text) + Len(rest)
      /\ s[1] = PreChar /\ s[2] = LowByte(len) /\ s[3] = HighByte(len)
      /\ \A i \in 1 .. Len(text) : s[3 + i] = text[i]
  <2>1. head \o text \in Seq(Nat) /\ Len(head \o text) = 3 + Len(text)
    BY <1>5
  <2>2. s \in Seq(Nat) /\ Len(s) = 3 + Len(text) + Len(rest)
    BY <1>6, <2>1
  <2>3. \A i \in 1 .. 3 : s[i] = head[i]
    BY <1>1, <1>5, <1>6, <2>1
  <2>4. \A i \in 1 .. Len(text) : s[3 + i] = text[i]
    BY <1>1, <1>5, <1>6
  <2>5. s[1] = PreChar /\ s[2] = LowByte(len) /\ s[3] = HighByte(len)
    <3>1. 1 \in 1 .. 3 /\ 2 \in 1 .. 3 /\ 3 \in 1 .. 3
      OBVIOUS
    <3>2. s[1] = head[1] /\ s[2] = head[2] /\ s[3] = head[3]
      BY <2>3, <3>1, Zenon
    <3>3. QED
      BY <3>2
  <2>6. QED
    BY <2>2, <2>4, <2>5
<1> HIDE DEF s
<1>8. SubSeq(s, HeaderSize + 1, len) = text
  <2>1. len = 3 + Len(text)
    BY <1>1 DEF len
  <2>2. /\ SubSeq(s, 4, len) \in Seq(Nat)
        /\ Len(SubSeq(s, 4, len)) = Len(text)
        /\ \A i \in 1 .. Len(text) : SubSeq(s, 4, len)[i] = s[3 + i]
    <3>1. \A i \in 4 .. len : s[i] \in Nat
      <4>1. \A i \in 1 .. Len(s) : s[i] \in Nat
        BY <1>7
      <4>2. \A i \in 4 .. len : i \in 1 .. Len(s)
        BY <1>1, <1>7, <2>1
      <4>3. QED
        BY <4>1, <4>2, Zenon
    <3>2. /\ SubSeq(s, 4, len) \in Seq(Nat)
          /\ Len(SubSeq(s, 4, len)) = IF 4 <= len THEN len - 4 + 1 ELSE 0
          /\ \A i \in 1 .. len - 4 + 1 : SubSeq(s, 4, len)[i] = s[4 + i - 1]
      BY <1>1, <2>1, <3>1, SubSeqProperties
    <3>3. QED
      BY <1>1, <2>1, <3>2
  <2>3. SubSeq(s, 4, len) = text
    <3>1. QED
      BY <1>1, <1>7, <2>2, SeqEqual
  <2>4. QED
    BY <1>1, <2>3
<1>9. QED
  <2>1. ~(Len(s) < HeaderSize) /\ ~(len > Len(s)) /\ ~(len < HeaderSize)
    BY <1>1, <1>7 DEF len
  <2>2. Word(s[2], s[3]) = len /\ ~(s[1] # PreChar)
    BY <1>4, <1>7
  <2>3. ParseCmd(s, texts, known) = [err |-> "SUCCESS", cmd |-> JsonParse(text, texts), size |-> len]
    BY <1>8, <2>1, <2>2, Zenon DEF ParseCmd
  <2>4. QED
    BY <2>3 DEF len, s

(* A frame is a sequence of bytes, whatever the length of its text.        *)
LEMMA FrameType == ASSUME NEW text \in Seq(Nat) PROVE FormatCmd(text) \in Seq(Nat)
<1> DEFINE len == Len(text) + HeaderSize
<1>1. len \in Nat /\ Radix \in Nat /\ Radix > 0 /\ PreChar \in Nat
  BY RadixAssumption DEF HeaderSize, PreChar
<1>2. LowByte(len) \in Nat /\ HighByte(len) \in Nat
  BY <1>1, DivMod DEF LowByte, HighByte
<1> HIDE DEF len
<1>3. <<PreChar, LowByte(len), HighByte(len)>> \in Seq(Nat)
  BY <1>1, <1>2
<1>4. QED
  BY <1>3, ConcatProperties DEF FormatCmd, len

(* ParseCmd says how much data a command takes, whatever the data.         *)
LEMMA ParsedSize ==
  ASSUME NEW s \in Seq(Nat), NEW texts, NEW known
  PROVE  ParseCmd(s, texts, known).size \in Nat
<1>1. CASE Len(s) < HeaderSize
  BY <1>1 DEF ParseCmd, Failed
<1>2. CASE ~(Len(s) < HeaderSize)
  <2>1. s[2] \in Nat /\ s[3] \in Nat
    BY <1>2 DEF HeaderSize
  <2>2. Word(s[2], s[3]) \in Nat
    <3>1. Radix * s[3] \in Nat
      BY <2>1, RadixAssumption
    <3>2. QED
      BY <2>1, <3>1 DEF Word
  <2>3. QED
    BY <1>2, <2>2 DEF ParseCmd, Failed
<1>3. QED
  BY <1>1, <1>2
-----------------------------------------------------------------------------
(* fastbuffer.                                                             *)
Buffers == [bytes : Seq(Nat), cap : Nat]

(* append leaves every byte inside the memory: the buffer grows by enough. *)
LEMMA AppendFits ==
  ASSUME NEW b \in Buffers, Fits(b), NEW s \in Seq(Nat)
  PROVE  BufferAppend(b, s) \in Buffers /\ Fits(BufferAppend(b, s))
<1>1. /\ b.bytes \in Seq(Nat) /\ b.cap \in Nat
      /\ Len(b.bytes) \in Nat /\ Len(s) \in Nat /\ Len(b.bytes) <= b.cap
  BY DEF Buffers, Fits
<1>2. b.bytes \o s \in Seq(Nat) /\ Len(b.bytes \o s) = Len(b.bytes) + Len(s)
  BY <1>1, ConcatProperties
<1>3. Grow(b, Len(s)) \in Nat /\ Len(b.bytes) + Len(s) <= Grow(b, Len(s))
  BY <1>1 DEF Grow
<1>4. QED
  BY <1>2, <1>3 DEF BufferAppend, Buffers, Fits

(* read and clear only shorten a buffer.                                   *)
LEMMA ReadFits ==
  ASSUME NEW b \in Buffers, Fits(b), NEW n \in Nat
  PROVE  BufferRead(b, n) \in Buffers /\ Fits(BufferRead(b, n))
<1>1. /\ b.bytes \in Seq(Nat) /\ b.cap \in Nat
      /\ Len(b.bytes) \in Nat /\ Len(b.bytes) <= b.cap
  BY DEF Buffers, Fits
<1> DEFINE d == IF n > Len(b.bytes) THEN <<>> ELSE SubSeq(b.bytes, n + 1, Len(b.bytes))
<1>2. d \in Seq(Nat) /\ Len(d) \in Nat /\ Len(d) <= Len(b.bytes)
  <2>1. CASE n > Len(b.bytes)
    BY <1>1, <2>1
  <2>2. CASE ~(n > Len(b.bytes))
    <3>1. \A i \in n + 1 .. Len(b.bytes) : b.bytes[i] \in Nat
      BY <1>1
    <3>2. n + 1 \in Int /\ Len(b.bytes) \in Int
      BY <1>1
    <3>3. /\ SubSeq(b.bytes, n + 1, Len(b.bytes)) \in Seq(Nat)
          /\ Len(SubSeq(b.bytes, n + 1, Len(b.bytes)))
               = IF n + 1 <= Len(b.bytes) THEN Len(b.bytes) - (n + 1) + 1 ELSE 0
      BY <3>1, <3>2, SubSeqProperties
    <3>4. QED
      BY <1>1, <2>2, <3>3
  <2>3. QED
    BY <2>1, <2>2
<1>3. BufferRead(b, n) = [bytes |-> d, cap |-> b.cap]
  BY DEF BufferRead, Buffers
<1> HIDE DEF d
<1>4. QED
  BY <1>1, <1>2, <1>3 DEF Buffers, Fits

LEMMA ClearFits ==
  ASSUME NEW b \in Buffers, Fits(b)
  PROVE  BufferClear(b) \in Buffers /\ Fits(BufferClear(b))
  BY DEF BufferClear, Buffers, Fits

LEMMA NewFits == NewBuffer \in Buffers /\ Fits(NewBuffer)
  BY DEF NewBuffer, Buffers, Fits
-----------------------------------------------------------------------------
(* A position of the text lies in the block and at the place computed.     *)
LEMMA Place ==
  ASSUME NEW p \in Nat, p > 0
  PROVE  /\ BlockIndex(p) \in Nat
         /\ BlockPlace(p) \in 1 .. BlockSize
         /\ BlockSize * BlockIndex(p) + BlockPlace(p) = p
<1>1. p - 1 \in Nat /\ BlockSize \in Nat /\ BlockSize > 0
  BY BlockSizeAssumption
<1>2. QED
  BY <1>1, DivMod DEF BlockIndex, BlockPlace

LEMMA PlaceUnique ==
  ASSUME NEW j \in Nat, NEW i \in 1 .. BlockSize
  PROVE  BlockIndex(BlockSize * j + i) = j /\ BlockPlace(BlockSize * j + i) = i
<1>1. BlockSize \in Nat /\ BlockSize > 0 /\ i - 1 \in 0 .. BlockSize - 1 /\ BlockSize * j \in Nat
  BY BlockSizeAssumption
<1>2. /\ (BlockSize * j + (i - 1)) \div BlockSize = j
      /\ (BlockSize * j + (i - 1)) % BlockSize = i - 1
  BY <1>1, DivModUnique
<1>3. BlockSize * j + i - 1 = BlockSize * j + (i - 1)
  BY <1>1
<1>4. QED
  BY <1>1, <1>2, <1>3 DEF BlockIndex, BlockPlace

(* The blocks cover a text of n bytes, the last one not in vain.           *)
LEMMA BlocksCover ==
  ASSUME NEW n \in Nat
  PROVE  /\ Blocks(n) \in Nat
         /\ BlockSize * Blocks(n) \in Nat
         /\ n % BlockSize = 0 => BlockSize * Blocks(n) = n
         /\ n % BlockSize # 0 => BlockSize * Blocks(n) = n + BlockSize - (n % BlockSize)
<1> DEFINE B == BlockSize
           k == n \div B
           r == n % B
<1>1. B \in Nat /\ B > 1
  BY BlockSizeAssumption
<1>2. k \in Nat /\ r \in 0 .. B - 1 /\ n = B * k + r /\ B * k \in Nat
  BY <1>1, DivMod
<1> HIDE DEF k, r
<1>3. CASE r = 0
  <2>1. n + B - 1 = B * k + (B - 1) /\ B - 1 \in 0 .. B - 1
    BY <1>1, <1>2, <1>3
  <2>2. Blocks(n) = k
    BY <1>1, <1>2, <2>1, DivModUnique DEF Blocks
  <2>3. QED
    BY <1>1, <1>2, <1>3, <2>2 DEF r
<1>4. CASE r # 0
  <2>1. n + B - 1 = B * (k + 1) + (r - 1) /\ r - 1 \in 0 .. B - 1 /\ k + 1 \in Nat
    BY <1>1, <1>2, <1>4
  <2>2. Blocks(n) = k + 1
    <3> DEFINE q == k + 1
               t == r - 1
    <3>1. q \in Nat /\ t \in 0 .. B - 1 /\ n + B - 1 = B * q + t
      BY <2>1
    <3> HIDE DEF q, t
    <3>2. (B * q + t) \div B = q
      BY <1>1, <3>1, DivModUnique
    <3>3. QED
      BY <3>1, <3>2 DEF Blocks, q
  <2>3. B * (k + 1) = B * k + B
    BY <1>1, <1>2
  <2>4. QED
    BY <1>1, <1>2, <1>4, <2>2, <2>3 DEF r
<1>5. QED
  BY <1>3, <1>4

(* A block consists of bytes: of the text, or of what the buffer held.     *)
LEMMA BlockBytes ==
  ASSUME NEW s \in Seq(Int), NEW left \in [1 .. BlockSize -> Int],
         NEW j \in Nat, NEW i \in 1 .. BlockSize
  PROVE  /\ Block(s, j, left)[i] \in Int
         /\ BlockSize * j + i <= Len(s) => Block(s, j, left)[i] = s[BlockSize * j + i]
<1>1. BlockSize * j \in Nat /\ i \in Nat /\ i > 0 /\ Len(s) \in Nat
  BY BlockSizeAssumption
<1> DEFINE p == BlockSize * j + i
<1>2. p \in Nat /\ p > 0
  BY <1>1
<1>3. Block(s, j, left)[i] = IF p <= Len(s) THEN s[p] ELSE left[i]
  BY DEF Block
<1> HIDE DEF p
<1>4. p <= Len(s) => s[p] \in Int
  BY <1>1, <1>2
<1>5. left[i] \in Int
  OBVIOUS
<1>6. Block(s, j, left)[i] \in Int /\ (p <= Len(s) => Block(s, j, left)[i] = s[p])
  BY <1>3, <1>4, <1>5
<1>7. QED
  BY <1>6 DEF p

(* Encryption is undone byte by byte: the library's part.                  *)
LEMMA EncryptedByte ==
  ASSUME NEW b, NEW key \in Int, NEW i \in 1 .. BlockSize, b[i] \in Int
  PROVE  /\ EncryptBlock(b, key)[BlockSize + 1 - i] = b[i] + key
         /\ EncryptBlock(b, key)[BlockSize + 1 - i] \in Int
<1>1. BlockSize \in Nat /\ BlockSize + 1 - i \in 1 .. BlockSize
      /\ BlockSize + 1 - (BlockSize + 1 - i) = i
  BY BlockSizeAssumption
<1>2. EncryptBlock(b, key)[BlockSize + 1 - i] = b[BlockSize + 1 - (BlockSize + 1 - i)] + key
  BY <1>1 DEF EncryptBlock
<1>3. QED
  BY <1>1, <1>2

(* Decryption under the key of the encryption gives every byte back in its *)
(* place, whatever the length of the text and whatever an unfilled last    *)
(* block holds.                                                            *)
LEMMA AESUndone ==
  ASSUME NEW s \in Seq(Int), NEW key \in Int,
         NEW left \in [1 .. BlockSize -> Int]
  PROVE  /\ AESEncrypt(s, key, left) \in Seq(Int)
         /\ Len(AESEncrypt(s, key, left)) > Len(s)
         /\ AESDecryptOk(AESEncrypt(s, key, left))
         /\ AESDecrypt(AESEncrypt(s, key, left), key) = [p \in 1 .. Len(s) |-> s[p]]
<1> DEFINE B == BlockSize
           n == Len(s)
           m == Blocks(n)
           w == n % B
           z == B * m
           c(p) == EncryptBlock(Block(s, BlockIndex(p), left), key)[BlockPlace(p)]
           body == [p \in 1 .. z |-> c(p)]
           t == AESEncrypt(s, key, left)
<1>1. B \in Nat /\ B > 1 /\ n \in Nat /\ w \in 0 .. B - 1
  BY BlockSizeAssumption, DivMod
<1>2. m \in Nat /\ z \in Nat /\ (w = 0 => z = n) /\ (w # 0 => z = n + B - w)
  BY <1>1, BlocksCover
<1>3. \A p \in 1 .. z : c(p) \in Int
  <2> SUFFICES ASSUME NEW p \in 1 .. z PROVE c(p) \in Int
    OBVIOUS
  <2> DEFINE j == BlockIndex(p)
             i == B + 1 - BlockPlace(p)
  <2>1. p \in Nat /\ p > 0
    BY <1>2
  <2>2. j \in Nat /\ BlockPlace(p) \in 1 .. B
    BY <2>1, Place
  <2>3. i \in 1 .. B /\ BlockPlace(p) = B + 1 - i
    BY <1>1, <2>2
  <2> HIDE DEF i, j
  <2>4. Block(s, j, left)[i] \in Int
    BY <2>2, <2>3, BlockBytes
  <2>5. EncryptBlock(Block(s, j, left), key)[B + 1 - i] \in Int
    BY <2>3, <2>4, EncryptedByte
  <2>6. QED
    BY <2>3, <2>5 DEF j
<1>4. t = <<w>> \o body
  BY DEF AESEncrypt
<1>5. z = B * m
  OBVIOUS
<1> HIDE DEF m, c, w, z
<1>6. body \in Seq(Int) /\ Len(body) = z /\ \A p \in 1 .. z : body[p] = c(p)
  BY <1>2, <1>3
<1> HIDE DEF body, t
<1>7. /\ t \in Seq(Int) /\ Len(t) = 1 + z
      /\ t[1] = w
      /\ \A p \in 1 .. z : t[1 + p] = c(p)
  <2> DEFINE h == <<w>>
  <2>1. h \in Seq(Int) /\ Len(h) = 1 /\ h[1] = w
    BY <1>1
  <2> HIDE DEF h
  <2>2. /\ h \o body \in Seq(Int)
        /\ Len(h \o body) = Len(h) + Len(body)
        /\ \A i \in 1 .. Len(h) + Len(body) :
             (h \o body)[i] = IF i <= Len(h) THEN h[i] ELSE body[i - Len(h)]
    BY <1>6, <2>1, ConcatProperties
  <2>3. t = h \o body
    BY <1>4 DEF h
  <2>4. t \in Seq(Int) /\ Len(t) = 1 + z
    BY <1>6, <2>1, <2>2, <2>3
  <2>5. \A i \in 1 .. 1 + z : t[i] = IF i <= 1 THEN h[i] ELSE body[i - 1]
    BY <1>6, <2>1, <2>2, <2>3
  <2>6. t[1] = w
    BY <1>2, <2>1, <2>5
  <2>7. ASSUME NEW p \in 1 .. z PROVE t[1 + p] = c(p)
    <3>1. 1 + p \in 1 .. 1 + z /\ ~(1 + p <= 1) /\ 1 + p - 1 = p
      BY <1>2
    <3>2. t[1 + p] = body[p]
      BY <2>5, <3>1
    <3>3. QED
      BY <1>6, <3>2
  <2>8. QED
    BY <2>4, <2>6, <2>7
<1>8. AESDecryptOk(t)
  <2>1. 1 \in 0 .. B - 1
    BY <1>1
  <2>2. B \in Nat /\ B > 0 /\ m \in Nat
    BY <1>1, <1>2
  <2>3. (B * m + 1) % B = 1
    BY <2>1, <2>2, DivModUnique
  <2>4. Len(t) = B * m + 1
    BY <1>2, <1>5, <1>7
  <2>5. Len(t) % B = 1
    BY <2>3, <2>4
  <2>6. Len(t) >= 1
    BY <1>2, <1>7
  <2>7. QED
    BY <2>5, <2>6 DEF AESDecryptOk
<1>9. PlainSize(t) = n
  <2>1. CASE w = 0
    BY <1>1, <1>2, <1>7, <2>1 DEF PlainSize
  <2>2. CASE w # 0
    <3>1. Len(t) > 1 /\ Len(t) - 1 - BlockSize + t[1] = n
      BY <1>1, <1>2, <1>7, <2>2
    <3>2. QED
      BY <1>7, <2>2, <3>1 DEF PlainSize
  <2>3. QED
    BY <2>1, <2>2
<1>10. ASSUME NEW p \in 1 .. n
       PROVE  DecryptBlock(CipherBlock(t, BlockIndex(p)), key)[BlockPlace(p)] = s[p]
  <2> DEFINE j == BlockIndex(p)
             i == BlockPlace(p)
             y == B * j
             o == y + (B + 1 - i)
  <2>1. j \in Nat /\ i \in 1 .. B /\ y + i = p
    <3>1. p \in Nat /\ p > 0
      BY <1>1
    <3>2. QED
      BY <3>1, Place, Zenon
  <2> HIDE DEF i, j
  <2>2. y \in Nat /\ y + B = B * (j + 1)
    BY <1>1, <2>1
  <2>3. j < m
    <3>1. j >= m => y >= z
      BY <1>1, <1>2, <1>5, <2>1
    <3> HIDE DEF y
    <3>2. y < z
      BY <1>1, <1>2, <2>1, <2>2
    <3>3. QED
      BY <1>2, <2>1, <2>2, <3>1, <3>2
  <2>4. B * (j + 1) <= B * m
    BY <1>1, <1>2, <2>1, <2>3
  <2>5. y + B <= z
    BY <1>5, <2>2, <2>4
  <2>6. BlockIndex(o) = j /\ BlockPlace(o) = B + 1 - i
    <3>1. B + 1 - i \in 1 .. B
      BY <1>1, <2>1
    <3>2. QED
      BY <2>1, <3>1, PlaceUnique
  <2>7. Block(s, j, left)[i] = s[p]
    <3>1. B * j + i <= Len(s) => Block(s, j, left)[i] = s[B * j + i]
      BY <2>1, BlockBytes
    <3>2. QED
      BY <1>1, <2>1, <3>1
  <2>8. CipherBlock(t, j)[B + 1 - i] = t[1 + o]
    <3>1. B + 1 - i \in 1 .. B
      BY <1>1, <2>1
    <3>2. CipherBlock(t, j)[B + 1 - i] = t[1 + B * j + (B + 1 - i)]
      BY <3>1 DEF CipherBlock
    <3>3. 1 + B * j + (B + 1 - i) = 1 + o
      BY <1>1, <2>1, <2>2
    <3>4. QED
      BY <3>2, <3>3
  <2> HIDE DEF y
  <2>9. o \in 1 .. z
    BY <1>1, <1>2, <2>1, <2>2, <2>5
  <2> HIDE DEF o
  <2>10. t[1 + o] = EncryptBlock(Block(s, j, left), key)[B + 1 - i]
    BY <1>7, <2>6, <2>9 DEF c
  <2>11. s[p] \in Int
    OBVIOUS
  <2>12. t[1 + o] = s[p] + key
    <3>1. Block(s, j, left)[i] \in Int
      BY <2>7, <2>11
    <3>2. EncryptBlock(Block(s, j, left), key)[B + 1 - i] = Block(s, j, left)[i] + key
      BY <2>1, <3>1, EncryptedByte
    <3>3. QED
      BY <2>7, <2>10, <3>2
  <2>13. DecryptBlock(CipherBlock(t, j), key)[i] = CipherBlock(t, j)[B + 1 - i] - key
    BY <2>1 DEF DecryptBlock
  <2>14. DecryptBlock(CipherBlock(t, j), key)[i] = s[p]
    BY <2>8, <2>11, <2>12, <2>13
  <2>15. QED
    BY <2>14 DEF i, j
<1>11. AESDecrypt(t, key) = [p \in 1 .. n |-> s[p]]
  BY <1>9, <1>10 DEF AESDecrypt
<1>12. Len(t) > n
  BY <1>1, <1>2, <1>7
<1>13. QED
  BY <1>7, <1>8, <1>11, <1>12 DEF t

(* AESDecrypt undoes AESEncrypt, whatever the length of the text and       *)
(* whatever an unfilled last block holds: the size of the plaintext and    *)
(* the place of every byte come back.                                      *)
THEOREM AESRoundTrip ==
  ASSUME NEW s \in Seq(Int), NEW key \in Int, NEW left \in [1 .. BlockSize -> Int]
  PROVE  /\ AESEncrypt(s, key, left) \in Seq(Int)
         /\ AESDecryptOk(AESEncrypt(s, key, left))
         /\ AESDecrypt(AESEncrypt(s, key, left), key) = s
<1>1. AESDecrypt(AESEncrypt(s, key, left), key) = [p \in 1 .. Len(s) |-> s[p]]
  BY AESUndone
<1>2. [p \in 1 .. Len(s) |-> s[p]] = s
  OBVIOUS
<1>3. QED
  BY <1>1, <1>2, AESUndone
=============================================================================
