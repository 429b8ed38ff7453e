--------------------------------- MODULE Codec ---------------------------------
(***************************************************************************)
(* The conversions between a command and the bytes of a connection.        *)
(*                                                                         *)
(* Sources: src/src/yymm_svr/jsonprotocol.h (FormatCmd, ParseCmd, Format   *)
(* and UnFormat of YYJson_Comp_AES), src/include/yyssl.h (AESEncrypt,      *)
(* AESDecrypt, base64encode), src/include/fastbuffer.h.                    *)
(*                                                                         *)
(* A byte is a natural number.  The JSON text of a command begins with a   *)
(* byte no other text has and no header holds; what json-c makes of a text *)
(* is JsonParse.  The length word of a frame has two digits to the base    *)
(* Radix.                                                                  *)
(***************************************************************************)
EXTENDS Integers, Sequences

CONSTANTS
  Radix,       (* values of a byte of the length word: 256 in the code     *)
  BlockSize    (* AES_BLOCK_SIZE, or kBytes of YYRSA                       *)

ASSUME RadixAssumption == Radix \in Nat /\ Radix > 1
ASSUME BlockSizeAssumption == BlockSize \in Nat /\ BlockSize > 1

-----------------------------------------------------------------------------
(* fastbuffer: its bytes and the size of the memory it holds (_bufsize).   *)
NewBuffer == [bytes |-> <<>>, cap |-> 0]

(* Mutant: the buffer grows to twice its size, however much is appended.   *)
GrowTwice(b, bz) == IF b.cap - Len(b.bytes) < bz THEN b.cap * 2 + 1 ELSE b.cap

Grow(b, bz) == IF b.cap - Len(b.bytes) < bz THEN (b.cap + bz) * 2 ELSE b.cap

BufferAppend(b, s) == [bytes |-> b.bytes \o s, cap |-> Grow(b, Len(s))]

BufferRead(b, n) ==
  [bytes |-> IF n > Len(b.bytes) THEN <<>> ELSE SubSeq(b.bytes, n + 1, Len(b.bytes)),
   cap |-> b.cap]

BufferClear(b) == [bytes |-> <<>>, cap |-> b.cap]

(* No byte of the buffer lies outside its memory.                          *)
Fits(b) == Len(b.bytes) <= b.cap
-----------------------------------------------------------------------------
(* The frame of a JSON text: PRE_CHAR, the length of the frame as a WORD,  *)
(* the text.  The WORD keeps the length modulo its range.                  *)
PreChar == 3
HeaderSize == 3
WordRange == Radix * Radix

LowByte(len) == len % Radix
HighByte(len) == (len \div Radix) % Radix
Word(low, high) == low + Radix * high

FormatCmd(text) ==
  LET len == Len(text) + HeaderSize
  IN  <<PreChar, LowByte(len), HighByte(len)>> \o text

(* Mutant: json_tokener_continue, an incomplete text, passes for success.  *)
JsonParseLax(js, texts) ==
  LET Begins(n) == js # <<>> /\ texts[n] # <<>> /\ js[1] = texts[n][1]
  IN  IF \E n \in DOMAIN texts : Begins(n)
      THEN CHOOSE n \in DOMAIN texts : Begins(n)
      ELSE 0

(* json-c on the text it is given: the command whose text it starts with   *)
(* (what follows a complete object is not looked at), or 0.                *)
JsonParse(js, texts) ==
  LET Begins(n) == Len(texts[n]) <= Len(js) /\ SubSeq(js, 1, Len(texts[n])) = texts[n]
  IN  IF \E n \in DOMAIN texts : Begins(n)
      THEN CHOOSE n \in DOMAIN texts : Begins(n)
      ELSE 0

Failed(err) == [err |-> err, cmd |-> 0, size |-> 0]

(* Mutant: the length word is taken for the length of the text alone.      *)
ParseCmdText(s, texts, known) ==
  IF Len(s) < HeaderSize THEN Failed("BUFSIZE")
  ELSE IF s[1] # PreChar THEN Failed("ESC")
  ELSE LET jsize == Word(s[2], s[3]) + HeaderSize IN
       IF jsize > Len(s) THEN Failed("BUFSIZE")
       ELSE LET n == JsonParse(SubSeq(s, HeaderSize + 1, jsize), texts) IN
            CASE n = 0 -> Failed("JSON")
              [] n # 0 /\ n \notin known -> Failed("UNKNOWED")
              [] n # 0 /\ n \in known -> [err |-> "SUCCESS", cmd |-> n, size |-> jsize]

(* ParseCmd: the error or the command, and how much of the data it takes.  *)
(* A length word below the header's own size makes jsize - 3 negative, and *)
(* std::string::append throws, which nobody catches.  A text that parses   *)
(* is a command when LookforMap has its id.                                *)
ParseCmd(s, texts, known) ==
  IF Len(s) < HeaderSize THEN Failed("BUFSIZE")
  ELSE IF s[1] # PreChar THEN Failed("ESC")
  ELSE LET jsize == Word(s[2], s[3]) IN
       IF jsize > Len(s) THEN Failed("BUFSIZE")
       ELSE IF jsize < HeaderSize THEN Failed("THROW")
       ELSE LET n == JsonParse(SubSeq(s, HeaderSize + 1, jsize), texts) IN
            CASE n = 0 -> Failed("JSON")
              [] n # 0 /\ n \notin known -> Failed("UNKNOWED")
              [] n # 0 /\ n \in known -> [err |-> "SUCCESS", cmd |-> n, size |-> jsize]
-----------------------------------------------------------------------------
(* AESEncrypt and AESDecrypt (YYRSA's pair has the same shape).  One byte  *)
(* in front says how much of the last block counts, 0 for all of it.       *)

(* OpenSSL's AES_encrypt and AES_decrypt of one block: some permutation of *)
(* the blocks for every key.  Nothing is decrypted here under another key  *)
(* than its own: what that gives could be any block (UnFormat of Wire).    *)
EncryptBlock(b, key) == [i \in 1 .. BlockSize |-> b[BlockSize + 1 - i] + key]
DecryptBlock(b, key) == [i \in 1 .. BlockSize |-> b[BlockSize + 1 - i] - key]

Blocks(n) == (n + BlockSize - 1) \div BlockSize
BlockIndex(p) == (p - 1) \div BlockSize
BlockPlace(p) == ((p - 1) % BlockSize) + 1

(* The j-th block of s; past its end the buffer holds what was there.      *)
Block(s, j, left) ==
  [i \in 1 .. BlockSize |->
     IF BlockSize * j + i <= Len(s) THEN s[BlockSize * j + i] ELSE left[i]]

AESEncrypt(s, key, left) ==
  <<Len(s) % BlockSize>> \o
    [p \in 1 .. BlockSize * Blocks(Len(s)) |->
       EncryptBlock(Block(s, BlockIndex(p), left), key)[BlockPlace(p)]]

AESDecryptOk(t) == Len(t) >= 1 /\ Len(t) % BlockSize = 1

(* Mutant: the byte in front is taken to count the padding.                *)
PlainSizePad(t) == Len(t) - 1 - t[1]

(* How much the blocks of t decrypt to.                                    *)
PlainSize(t) ==
  IF t[1] # 0 /\ Len(t) > 1 THEN Len(t) - 1 - BlockSize + t[1] ELSE Len(t) - 1

(* Block j behind the byte in front.                                       *)
CipherBlock(t, j) == [i \in 1 .. BlockSize |-> t[1 + BlockSize * j + i]]

AESDecrypt(t, key) ==
  [p \in 1 .. PlainSize(t) |-> DecryptBlock(CipherBlock(t, BlockIndex(p)), key)[BlockPlace(p)]]
-----------------------------------------------------------------------------
(* Mutant: no room for the terminator.                                     *)
PemLenTight(n) ==
  LET base64Len == ((n + 2) \div 3) * 4
  IN  base64Len + base64Len \div 64

(* base64encode of n bytes: pemLen, the size of the string it writes to,   *)
(* and what OpenSSL writes: four characters for three bytes, a newline for *)
(* every line of 48 bytes begun, and a terminating NUL.                    *)
PemLen(n) ==
  LET base64Len == ((n + 2) \div 3) * 4 + 1
  IN  base64Len + base64Len \div 64

Base64Size(n) == ((n + 2) \div 3) * 4 + (n + 47) \div 48

(* base64decode of m characters: orgLen, the size of the string it writes  *)
(* to, and what OpenSSL writes there for the code of n bytes: three bytes  *)
(* for four characters, those of the padding included.                     *)
OrgLen(m) == ((m + 2) \div 4) * 3 + 1

DecodedSize(n) == ((n + 2) \div 3) * 3
=============================================================================
