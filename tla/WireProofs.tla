------------------------------- MODULE WireProofs -------------------------------
(***************************************************************************)
(* Proofs about one connection's bytes, for every set of commands, every   *)
(* size of a read and every way the stream is cut: no buffer and no base64 *)
(* string is written past its end; commands are executed in order, at most *)
(* once, and, while every read ends with a frame, all of them; the server  *)
(* closes the connection, and the process ends, only for cause; and no     *)
(* overlong command is executed.                                           *)
(***************************************************************************)
EXTENDS Wire, CodecProofs, FiniteSetTheorems

(* The buffers whose bytes lie in their memory.                            *)
FitBuffers == {b \in Buffers : Fits(b)}

(* A command sent.                                                         *)
Command == [kind : CmdKinds, len : Nat, key : Nat, text : Nat, ser : Seq(Int)]

(* The invariant of the buffers.                                           *)
WireInv ==
  /\ cmds \in Seq(Command)
  /\ stream \in Seq(Nat)
  /\ readbuffer \in FitBuffers
  /\ jobs \in Seq(FitBuffers)
  /\ sess \in [on : BOOLEAN, readbuffer : FitBuffers, key : Nat]
  /\ buf \in FitBuffers
  /\ parsed.size \in Nat
  /\ logins \in Nat

(* A buffer fits after append, ...                                         *)
LEMMA FitAppend ==
  ASSUME NEW b \in FitBuffers, NEW s \in Seq(Nat) PROVE BufferAppend(b, s) \in FitBuffers
  BY AppendFits DEF FitBuffers

(* ... after read, ...                                                     *)
LEMMA FitRead ==
  ASSUME NEW b \in FitBuffers, NEW n \in Nat PROVE BufferRead(b, n) \in FitBuffers
  BY ReadFits DEF FitBuffers

(* ... and after clear.                                                    *)
LEMMA FitClear == ASSUME NEW b \in FitBuffers PROVE BufferClear(b) \in FitBuffers
  BY ClearFits DEF FitBuffers

(* A buffer just made.                                                     *)
LEMMA FitNew == NewBuffer \in FitBuffers
  BY NewFits DEF FitBuffers

(* A buffer holds bytes.                                                   *)
LEMMA FitBytes == ASSUME NEW b \in FitBuffers PROVE b.bytes \in Seq(Nat)
  BY DEF FitBuffers, Buffers

(* The k bytes of a string that follow its first j.                        *)
LEMMA PartOf ==
  ASSUME NEW s \in Seq(Nat), NEW j \in Nat, NEW k \in Nat, j + k <= Len(s)
  PROVE  /\ SubSeq(s, j + 1, j + k) \in Seq(Nat)
         /\ Len(SubSeq(s, j + 1, j + k)) = k
         /\ \A i \in 1 .. k : SubSeq(s, j + 1, j + k)[i] = s[j + i]
<1>1. Len(s) \in Nat /\ \A i \in 1 .. Len(s) : s[i] \in Nat
  OBVIOUS
<1>2. PICK m \in Int, n \in Int : m = j + 1 /\ n = j + k
  OBVIOUS
<1>3. \A i \in m .. n : i \in 1 .. Len(s)
  BY <1>1, <1>2
<1>4. \A i \in m .. n : s[i] \in Nat
  BY <1>1, <1>3, Zenon
<1>5. PICK z : z = SubSeq(s, m, n)
  OBVIOUS
<1>6. /\ z \in Seq(Nat) /\ Len(z) = (IF m <= n THEN n - m + 1 ELSE 0)
      /\ \A i \in 1 .. n - m + 1 : z[i] = s[m + i - 1]
  BY <1>4, <1>5, SubSeqProperties
<1>7. n - m + 1 = k /\ (m <= n <=> k > 0) /\ \A i \in 1 .. k : m + i - 1 = j + i
  BY <1>2
<1>8. Len(z) = k
  BY <1>6, <1>7
<1>9. \A i \in 1 .. k : z[i] = s[j + i]
  BY <1>6, <1>7
<1>10. QED
  BY <1>2, <1>5, <1>6, <1>8, <1>9, Zenon

(* The first k bytes of a string.                                          *)
LEMMA PrefixOf ==
  ASSUME NEW s \in Seq(Nat), NEW k \in Nat, k <= Len(s), NEW z, z = SubSeq(s, 1, k)
  PROVE  z \in Seq(Nat) /\ Len(z) = k /\ \A i \in 1 .. k : z[i] = s[i]
<1>1. 0 \in Nat /\ 0 + 1 = 1 /\ 0 + k = k /\ \A i \in 1 .. k : 0 + i = i
  OBVIOUS
<1>2. 0 + k <= Len(s)
  BY <1>1, Zenon
<1>3. /\ SubSeq(s, 0 + 1, 0 + k) \in Seq(Nat)
      /\ Len(SubSeq(s, 0 + 1, 0 + k)) = k
      /\ \A i \in 1 .. k : SubSeq(s, 0 + 1, 0 + k)[i] = s[0 + i]
  BY <1>1, <1>2, PartOf, Zenon
<1>4. SubSeq(s, 0 + 1, 0 + k) = z
  BY <1>1, Zenon
<1>5. QED
  BY <1>1, <1>3, <1>4, Zenon

(* The bytes of a frame behind its header.                                 *)
LEMMA BodyOf ==
  ASSUME NEW s \in Seq(Nat), NEW w \in Nat, w >= 3, w <= Len(s), NEW z, z = SubSeq(s, 4, w)
  PROVE  z \in Seq(Nat) /\ Len(z) = w - 3 /\ \A i \in 1 .. w - 3 : z[i] = s[i + 3]
<1>1. PICK k \in Nat : k = w - 3
  OBVIOUS
<1>2. 3 \in Nat /\ 3 + 1 = 4 /\ 3 + k = w /\ \A i \in 1 .. k : 3 + i = i + 3
  BY <1>1
<1>3. 3 + k <= Len(s)
  BY <1>2, Zenon
<1>4. /\ SubSeq(s, 3 + 1, 3 + k) \in Seq(Nat)
      /\ Len(SubSeq(s, 3 + 1, 3 + k)) = k
      /\ \A i \in 1 .. k : SubSeq(s, 3 + 1, 3 + k)[i] = s[3 + i]
  BY <1>2, <1>3, PartOf, Zenon
<1>5. SubSeq(s, 3 + 1, 3 + k) = z
  BY <1>2, Zenon
<1>6. QED
  BY <1>1, <1>2, <1>4, <1>5, Zenon

(* What is left of a string without its first k bytes.                     *)
LEMMA RestOf ==
  ASSUME NEW s \in Seq(Nat), NEW k \in Nat, k <= Len(s), NEW z, z = SubSeq(s, k + 1, Len(s))
  PROVE  z \in Seq(Nat) /\ Len(z) = Len(s) - k /\ \A i \in 1 .. Len(s) - k : z[i] = s[k + i]
<1>1. PICK j \in Nat : j = Len(s) - k
  OBVIOUS
<1>2. k + j = Len(s) /\ k + j <= Len(s)
  BY <1>1
<1>3. /\ SubSeq(s, k + 1, k + j) \in Seq(Nat)
      /\ Len(SubSeq(s, k + 1, k + j)) = j
      /\ \A i \in 1 .. j : SubSeq(s, k + 1, k + j)[i] = s[k + i]
  BY <1>2, PartOf, Zenon
<1>4. QED
  BY <1>1, <1>2, <1>3, Zenon

(* A piece of the stream is bytes.                                         *)
LEMMA Pieces ==
  ASSUME NEW s \in Seq(Nat), NEW k \in Nat, k <= Len(s)
  PROVE  SubSeq(s, 1, k) \in Seq(Nat) /\ SubSeq(s, k + 1, Len(s)) \in Seq(Nat)
  BY PrefixOf, RestOf, Zenon

(* A byte of a text is above the bytes of a header.                        *)
LEMMA FirstByteType ==
  ASSUME NEW n \in Nat
  PROVE  FirstByte(n) \in Nat /\ FirstByte(n) = Radix + 3 + 2 * n
  BY RadixAssumption DEF FirstByte, HeaderSize

(* A text is bytes.                                                        *)
LEMMA TextType == ASSUME NEW n \in Nat, NEW len \in Nat PROVE Text(n, len) \in Seq(Nat)
<1> DEFINE x(i) == CASE i = 1 -> FirstByte(n)
                     [] i # 1 /\ i \in Escs /\ i < len - 1 -> PreChar
                     [] OTHER -> FirstByte(n) + 1
<1>1. FirstByte(n) \in Nat /\ FirstByte(n) + 1 \in Nat /\ PreChar \in Nat
  BY FirstByteType DEF PreChar
<1>2. \A i \in 1 .. len : x(i) \in Nat
  BY <1>1
<1>3. Text(n, len) = [i \in 1 .. len |-> x(i)]
  BY DEF Text
<1> HIDE DEF x
<1>4. QED
  BY <1>2, <1>3

(* What a wrapped command carries is a sequence of bytes.                  *)
LEMMA SealedType ==
  ASSUME NEW n \in Nat, NEW len \in Nat, NEW key \in Nat
  PROVE  Sealed(n, len, key) \in Seq(Int)
<1>1. FormatCmd(Text(n, len)) \in Seq(Nat)
  BY TextType, FrameType
<1>2. FormatCmd(Text(n, len)) \in Seq(Int)
  BY <1>1
<1>3. Left \in [1 .. BlockSize -> Int]
  BY DEF Left, PreChar
<1>4. key \in Int
  OBVIOUS
<1>5. QED
  BY <1>2, <1>3, <1>4, AESRoundTrip DEF Sealed

(* The size of a base64 string.                                            *)
LEMMA Base64SizeType == ASSUME NEW n \in Nat PROVE Base64Size(n) \in Nat
  BY DEF Base64Size
-----------------------------------------------------------------------------
(* JsonProcess goes on with b, or returns.                                 *)
LEMMA ReturnKeeps ==
  ASSUME NEW b \in FitBuffers, NEW s \in [on : BOOLEAN, readbuffer : FitBuffers, key : Nat],
         Return(b, s)
  PROVE  /\ parsed'.size \in Nat
         /\ buf' \in FitBuffers
         /\ sess' \in [on : BOOLEAN, readbuffer : FitBuffers, key : Nat]
<1>1. parsed'.size \in Nat
  BY DEF Return, Failed
<1>2. CASE b.bytes # <<>>
  BY <1>1, <1>2 DEF Return
<1>3. CASE b.bytes = <<>>
  BY <1>1, <1>3, FitNew DEF Return
<1>4. QED
  BY <1>2, <1>3

(* The same after a command is consumed.                                   *)
LEMMA ConsumeKeeps ==
  ASSUME WireInv, NEW s \in [on : BOOLEAN, readbuffer : FitBuffers, key : Nat], Consume(s)
  PROVE  /\ parsed'.size \in Nat
         /\ buf' \in FitBuffers
         /\ sess' \in [on : BOOLEAN, readbuffer : FitBuffers, key : Nat]
<1>1. BufferRead(buf, parsed.size) \in FitBuffers
  BY FitRead DEF WireInv
<1>2. Return(BufferRead(buf, parsed.size), s)
  BY DEF Consume
<1>3. QED
  BY <1>1, <1>2, ReturnKeeps

(* The invariant of the buffers holds at first, and every step keeps it.   *)
LEMMA WireInvInit == WireInit => WireInv
<1> SUFFICES ASSUME WireInit PROVE WireInv
  OBVIOUS
<1>1. parsed.size \in Nat
  BY DEF WireInit, Failed
<1>2. sess \in [on : BOOLEAN, readbuffer : FitBuffers, key : Nat]
  BY FitNew DEF WireInit, NoSession
<1>3. QED
  BY <1>1, <1>2, FitNew DEF WireInit, WireInv
-----------------------------------------------------------------------------
(* A command sent.                                                         *)
LEMMA PeerSendKeeps ==
  ASSUME WireInv, NEW p \in Sends, NEW key \in 0 .. logins, PeerSend(p[1], p[2], key)
  PROVE  WireInv'
<1> DEFINE n == Len(cmds) + 1
           kind == p[1]
           len == p[2]
           ser == IF kind \in Wraps THEN Sealed(n, len, key) ELSE <<>>
           text == IF kind \in Wraps THEN Base64Size(Len(ser)) ELSE len
           cmd == [kind |-> kind, len |-> len, key |-> key, text |-> text, ser |-> ser]
           frame == FormatCmd(Text(n, text))
<1>1. kind \in CmdKinds /\ len \in Nat
  BY SendsAssumption
<1>2. n \in Nat /\ key \in Nat
  BY DEF WireInv
<1>3. cmds' = Append(cmds, cmd) /\ stream' = stream \o frame
  BY DEF PeerSend
<1> HIDE DEF n, kind, len
<1>4. ser \in Seq(Int)
  BY <1>1, <1>2, SealedType
<1> HIDE DEF ser
<1>5. text \in Nat
  BY <1>1, <1>4, Base64SizeType
<1> HIDE DEF text
<1>6. cmd \in Command
  BY <1>1, <1>2, <1>4, <1>5 DEF Command
<1>7. frame \in Seq(Nat)
  BY <1>2, <1>5, TextType, FrameType
<1> HIDE DEF cmd, frame
<1>8. cmds' \in Seq(Command)
  BY <1>3, <1>6, AppendProperties DEF WireInv
<1>9. stream' \in Seq(Nat)
  BY <1>3, <1>7, ConcatProperties DEF WireInv
<1>10. QED
  BY <1>8, <1>9 DEF PeerSend, WireInv

(* A read that is to be followed by another.                               *)
LEMMA RecvFullKeeps == ASSUME WireInv, RecvFull PROVE WireInv'
<1>1. Chunk \in Nat /\ stream \in Seq(Nat) /\ Len(stream) \in Nat /\ Len(stream) > Chunk
  BY WireBoundsAssumption DEF WireInv, RecvFull
<1>2. SubSeq(stream, 1, Chunk) \in Seq(Nat) /\ SubSeq(stream, Chunk + 1, Len(stream)) \in Seq(Nat)
  BY <1>1, Pieces
<1>3. readbuffer' \in FitBuffers /\ stream' \in Seq(Nat)
  BY <1>2, FitAppend DEF RecvFull, WireInv
<1>4. QED
  BY <1>3 DEF RecvFull, WireInv

(* The last read of a job.                                                 *)
LEMMA RecvLastKeeps ==
  ASSUME WireInv, NEW k \in 1 .. Chunk, k <= Len(stream), RecvLast(k) PROVE WireInv'
<1>1. k \in Nat /\ stream \in Seq(Nat)
  BY WireBoundsAssumption DEF WireInv
<1>2. SubSeq(stream, 1, k) \in Seq(Nat) /\ SubSeq(stream, k + 1, Len(stream)) \in Seq(Nat)
  BY <1>1, Pieces
<1>3. BufferAppend(readbuffer, SubSeq(stream, 1, k)) \in FitBuffers
  BY <1>2, FitAppend DEF WireInv
<1>4. jobs' \in Seq(FitBuffers)
  BY <1>3, AppendProperties DEF RecvLast, WireInv
<1>5. stream' \in Seq(Nat) /\ readbuffer' \in FitBuffers
  BY <1>2, FitNew DEF RecvLast
<1>6. QED
  BY <1>4, <1>5 DEF RecvLast, WireInv

(* A job taken.                                                            *)
LEMMA TakeJobKeeps == ASSUME WireInv, TakeJob PROVE WireInv'
<1>1. Head(jobs) \in FitBuffers /\ Tail(jobs) \in Seq(FitBuffers)
  BY HeadTailProperties DEF TakeJob, WireInv
<1>2. sess.readbuffer \in FitBuffers
  BY DEF WireInv
<1>3. BufferAppend(sess.readbuffer, Head(jobs).bytes) \in FitBuffers
  BY <1>1, <1>2, FitAppend, FitBytes
<1>4. buf' \in FitBuffers
  BY <1>1, <1>3 DEF TakeJob
<1>5. QED
  BY <1>1, <1>4 DEF TakeJob, WireInv, inVars

(* Every step of JsonProcess.                                              *)
LEMMA JsonProcessKeeps == ASSUME WireInv, JsonProcess PROVE WireInv'
<1>1. CASE TakeJob
  BY <1>1, TakeJobKeeps
<1>2. CASE Parse
  <2>1. parsed'.size \in Nat
    BY <1>2, FitBytes, ParsedSize DEF Parse, WireInv
  <2>2. QED
    BY <1>2, <2>1 DEF Parse, WireInv, inVars
<1>3. CASE Login
  <2> DEFINE t == [LoginState EXCEPT !.key = logins + 1]
  <2>1. LoginState \in [on : BOOLEAN, readbuffer : FitBuffers, key : Nat]
    BY FitNew DEF WireInv, NoSession, LoginState
  <2>2. t \in [on : BOOLEAN, readbuffer : FitBuffers, key : Nat]
    <3>1. logins + 1 \in Nat
      BY DEF WireInv
    <3>2. QED
      BY <2>1, <3>1
  <2>3. (sql /\ Consume(t) /\ logins' = logins + 1) \/ (Consume(LoginState) /\ logins' = logins)
    BY <1>3, Zenon DEF Login
  <2> HIDE DEF t
  <2>4. parsed'.size \in Nat /\ buf' \in FitBuffers
        /\ sess' \in [on : BOOLEAN, readbuffer : FitBuffers, key : Nat]
    BY <2>1, <2>2, <2>3, ConsumeKeeps, Zenon
  <2>5. logins' \in Nat
    BY <2>3 DEF WireInv
  <2>6. QED
    BY <1>3, <2>4, <2>5 DEF Login, WireInv, inVars
<1>4. CASE NotLogin
  BY <1>4 DEF NotLogin, WireInv, inVars
<1>5. CASE Plain
  <2>1. sess \in [on : BOOLEAN, readbuffer : FitBuffers, key : Nat] /\ Consume(sess)
    BY <1>5 DEF Plain, WireInv
  <2>2. QED
    BY <1>5, <2>1, ConsumeKeeps DEF Plain, WireInv, inVars
<1>6. CASE Logout
  <2>1. DelState \in [on : BOOLEAN, readbuffer : FitBuffers, key : Nat]
    BY FitNew DEF WireInv, NoSession, DelState
  <2>2. Consume(DelState)
    BY <1>6 DEF Logout
  <2>3. QED
    BY <1>6, <2>1, <2>2, ConsumeKeeps DEF Logout, WireInv, inVars
<1>7. CASE Wrapped
  <2>1. sess \in [on : BOOLEAN, readbuffer : FitBuffers, key : Nat]
    BY DEF WireInv
  <2>2. DelState \in [on : BOOLEAN, readbuffer : FitBuffers, key : Nat]
    BY FitNew DEF WireInv, NoSession, DelState
  <2>3. UNCHANGED <<sess, buf, parsed>> \/ Consume(sess) \/ Consume(DelState)
    BY <1>7, Zenon DEF Wrapped
  <2>4. parsed'.size \in Nat /\ buf' \in FitBuffers
        /\ sess' \in [on : BOOLEAN, readbuffer : FitBuffers, key : Nat]
    <3>1. CASE UNCHANGED <<sess, buf, parsed>>
      BY <3>1 DEF WireInv
    <3>2. CASE Consume(sess) \/ Consume(DelState)
      BY <2>1, <2>2, <3>2, ConsumeKeeps, Zenon
    <3>3. QED
      BY <2>3, <3>1, <3>2
  <2>5. QED
    BY <1>7, <2>4 DEF Wrapped, WireInv, inVars
<1>8. CASE Refuse
  <2>1. BufferClear(buf) \in FitBuffers /\ Return(BufferClear(buf), sess)
    BY <1>8, FitClear DEF Refuse, WireInv
  <2>2. sess \in [on : BOOLEAN, readbuffer : FitBuffers, key : Nat]
    BY DEF WireInv
  <2>3. QED
    BY <1>8, <2>1, <2>2, ReturnKeeps DEF Refuse, WireInv, inVars
<1>9. CASE Throw
  BY <1>9 DEF Throw, WireInv, inVars
<1>10. QED
  BY <1>1, <1>2, <1>3, <1>4, <1>5, <1>6, <1>7, <1>8, <1>9 DEF JsonProcess

(* Every step of the connection.                                           *)
LEMMA WireInvNext == WireInv /\ [WireNext]_wireVars => WireInv'
<1> SUFFICES ASSUME WireInv, [WireNext]_wireVars PROVE WireInv'
  OBVIOUS
<1>1. CASE \E p \in Sends, key \in 0 .. logins : PeerSend(p[1], p[2], key)
  BY <1>1, PeerSendKeeps
<1>2. CASE Reading
  BY <1>2, RecvFullKeeps, RecvLastKeeps DEF Reading
<1>3. CASE JsonProcess
  BY <1>3, JsonProcessKeeps
<1>4. CASE UNCHANGED wireVars
  BY <1>4 DEF wireVars, WireInv
<1>5. QED
  BY <1>1, <1>2, <1>3, <1>4 DEF WireNext
-----------------------------------------------------------------------------
(* However many commands are sent, however the stream is cut into reads    *)
(* and however often a session's readbuffer is consumed and filled again,  *)
(* append never writes past the memory of a fastbuffer.                    *)
THEOREM BuffersAlwaysFit == WireSpec => []BuffersFit
<1>1. WireInv => BuffersFit
  <2> SUFFICES ASSUME WireInv PROVE BuffersFit
    OBVIOUS
  <2>1. Fits(readbuffer) /\ Fits(buf) /\ Fits(sess.readbuffer)
    BY DEF WireInv, FitBuffers
  <2>2. \A i \in 1 .. Len(jobs) : jobs[i] \in FitBuffers
    BY DEF WireInv
  <2>3. QED
    BY <2>1, <2>2 DEF BuffersFit, FitBuffers
<1>2. QED
  BY <1>1, WireInvInit, WireInvNext, PTL DEF WireSpec

(* Whatever is sealed, base64encode and base64decode stay within the       *)
(* strings they size.                                                      *)
THEOREM Base64AlwaysFits == WireSpec => []Base64Fits
<1>1. WireInv => Base64Fits
  <2> SUFFICES ASSUME WireInv, NEW n \in 1 .. Len(cmds)
               PROVE  LET size == Len(cmds[n].ser) IN
                      /\ Base64Size(size) <= PemLen(size)
                      /\ DecodedSize(size) <= OrgLen(Base64Size(size))
    BY DEF Base64Fits
  <2>1. cmds[n] \in Command
    BY DEF WireInv
  <2>2. Len(cmds[n].ser) \in Nat
    BY <2>1 DEF Command
  <2>3. QED
    BY <2>2, Base64Fit
<1>2. QED
  BY <1>1, WireInvInit, WireInvNext, PTL DEF WireSpec
-----------------------------------------------------------------------------
(* The stream as a whole.  h is everything the client has sent, st[n] the  *)
(* place in it where the frame of command n begins, jp[i] the place where  *)
(* the i-th job waiting begins: ghosts, of which the invariant says that   *)
(* they exist.                                                             *)

(* Byte i of the frame of command n, whose text has k bytes.               *)
FrameByte(n, k, i) ==
  IF i = 1 THEN PreChar
  ELSE IF i = 2 THEN LowByte(k + HeaderSize)
  ELSE IF i = 3 THEN HighByte(k + HeaderSize)
  ELSE IF i = 4 THEN FirstByte(n)
  ELSE IF i - 3 \in Escs /\ i - 3 < k - 1 THEN PreChar
  ELSE FirstByte(n) + 1

FrameSize(n) == HeaderSize + cmds[n].text

(* What is known of the commands sent.                                     *)
Sound(n) ==
  /\ cmds[n].len > 0 /\ cmds[n].text > 0
  /\ cmds[n].kind \in Wraps =>
       /\ cmds[n].ser = Sealed(n, cmds[n].len, cmds[n].key)
       /\ cmds[n].text = Base64Size(Len(cmds[n].ser))

(* The frames of the commands, one behind the other, make up h.            *)
Hist(h, st) ==
  /\ h \in Seq(Nat)
  /\ st \in [1 .. Len(cmds) + 1 -> Nat]
  /\ st[1] = 0 /\ st[Len(cmds) + 1] = Len(h)
  /\ \A n \in 1 .. Len(cmds) : st[n + 1] = st[n] + FrameSize(n)
  /\ \A a, b \in 1 .. Len(cmds) + 1 : a < b => st[a] < st[b]
  /\ \A q \in 1 .. Len(h) : \E n \in 1 .. Len(cmds) : st[n] < q /\ q <= st[n + 1]
  /\ \A n \in 1 .. Len(cmds) : \A i \in 1 .. FrameSize(n) :
       h[st[n] + i] = FrameByte(n, cmds[n].text, i)
  /\ ends = {st[n] : n \in 1 .. Len(cmds) + 1}

(* s is what stands in h behind place p.                                   *)
Window(s, h, p) ==
  /\ p \in Nat /\ p + Len(s) <= Len(h)
  /\ \A i \in 1 .. Len(s) : s[i] = h[p + i]

(* Where the buffer of JsonProcess begins: it ends where the next job does *)
(* begin.                                                                  *)
At(jp) == jp[1] - Len(buf.bytes)

(* The bytes under way are consecutive pieces of h.                        *)
Flow(h, jp) ==
  /\ Window(stream, h, taken) /\ taken + Len(stream) = Len(h)
  /\ jp \in [1 .. Len(jobs) + 1 -> Nat]
  /\ \A i \in 1 .. Len(jobs) :
       /\ jp[i + 1] = jp[i] + Len(jobs[i].bytes)
       /\ Len(jobs[i].bytes) > 0 /\ Window(jobs[i].bytes, h, jp[i])
  /\ jp[Len(jobs) + 1] + Len(readbuffer.bytes) = taken
  /\ Window(readbuffer.bytes, h, jp[Len(jobs) + 1])
  /\ Window(buf.bytes, h, At(jp))
  /\ pc # "idle" => Len(buf.bytes) > 0
  /\ pc = "idle" => buf = NewBuffer
  /\ sess.readbuffer.bytes = <<>>

(* The commands executed: in order, behind the place where JsonProcess is, *)
(* none overlong; and every LOGIN among them made a key, which the session *)
(* has, or, without MySQL, was refused.                                    *)
Did(st, jp) ==
  /\ done \in Seq(Nat)
  /\ \A i \in 1 .. Len(done) :
       /\ done[i] \in 1 .. Len(cmds) /\ i <= done[i]
       /\ st[done[i] + 1] <= At(jp)
       /\ ~Overlong(cmds[done[i]])
  /\ \A i, j \in 1 .. Len(done) : i < j => done[i] < done[j]
  /\ logins <= Len(done) /\ sess.key = logins /\ (~sql => logins = 0)
  /\ \A n \in 1 .. Len(cmds) : cmds[n].key <= logins

(* While every job ends with a frame, no command is overlong and no id is  *)
(* unknown.                                                                *)
Good == cut = 0 /\ ~SomeOverlong /\ ~SomeUnknown

(* There is a cause for the exception.                                     *)
ThrowCause == SomeOverlong \/ \E n \in 1 .. Len(cmds) : KeyReplaced(n)

(* ParseCmd has found the frame that the buffer begins with, or an error   *)
(* there is a cause for.                                                   *)
Found(st, jp) ==
  LET n == parsed.cmd IN
  /\ n \in 1 .. Len(cmds) /\ st[n] = At(jp)
  /\ parsed.size = FrameSize(n) /\ parsed.size <= Len(buf.bytes)
  /\ ~Overlong(cmds[n])

Read(st, jp) ==
  /\ parsed.cmd \in 0 .. Len(cmds)
  /\ pc = "switch" =>
       /\ parsed.err = "SUCCESS" => Found(st, jp)
       /\ parsed.err = "THROW" => SomeOverlong
       /\ Good => parsed.err = "SUCCESS"
  /\ pc = "thrown" => ThrowCause

Ran(n) == \E i \in 1 .. Len(done) : done[i] = n
LoginsBefore(m) == {l \in 1 .. m - 1 : cmds[l].kind = "LOGIN"}

(* Then JsonProcess stands between two frames, and every command before is *)
(* executed, or was wrapped under a key that was no longer the session's.  *)
Whole(st, jp) ==
  Good =>
    /\ refused => LoginRefused
    /\ \A i \in 1 .. Len(jobs) + 1 : jp[i] \in ends
    /\ \E m \in 1 .. Len(cmds) + 1 :
         /\ st[m] = At(jp)
         /\ sql => logins = Cardinality(LoginsBefore(m))
         /\ \A n \in 1 .. m - 1 : Ran(n) \/ StaleKey(n)

(* Names and counters.                                                     *)
Counters ==
  /\ Len(cmds) <= MaxCmds
  /\ sql \in BOOLEAN /\ taken \in Nat /\ cut \in 0 .. MaxCuts /\ refused \in BOOLEAN
  /\ state \in {"none", "live", "gone"}
  /\ pc \in {"idle", "loop", "switch", "spin", "thrown"}
  /\ \A n \in 1 .. Len(cmds) : Sound(n)

Ghosts(h, st, jp) ==
  Counters /\ Hist(h, st) /\ Flow(h, jp) /\ Did(st, jp) /\ Read(st, jp) /\ Whole(st, jp)

(* The invariant of the stream.                                            *)
StreamInv == WireInv /\ \E h, st, jp : Ghosts(h, st, jp)
-----------------------------------------------------------------------------
(* Byte i of a text of k bytes.                                            *)
TextByte(n, k, i) ==
  IF i = 1 THEN FirstByte(n)
  ELSE IF i \in Escs /\ i < k - 1 THEN PreChar
  ELSE FirstByte(n) + 1

LEMMA TextBytes ==
  ASSUME NEW n \in Nat, NEW k \in Nat
  PROVE  /\ Text(n, k) \in Seq(Nat) /\ Len(Text(n, k)) = k
         /\ \A i \in 1 .. k : Text(n, k)[i] = TextByte(n, k, i)
<1> DEFINE t == Text(n, k)
<1>1. t \in Seq(Nat)
  BY TextType
<1>2. DOMAIN t = 1 .. k
  BY DEF Text
<1>3. \A i \in 1 .. k : t[i] = TextByte(n, k, i)
  BY DEF Text, TextByte
<1>4. Len(t) \in Nat /\ DOMAIN t = 1 .. Len(t)
  BY <1>1
<1> HIDE DEF t
<1>5. Len(t) \in Nat /\ \A i \in Int : i \in 1 .. Len(t) <=> i \in 1 .. k
  BY <1>2, <1>4
<1>6. (k \in 1 .. k <=> k \in 1 .. Len(t)) /\ (Len(t) \in 1 .. Len(t) <=> Len(t) \in 1 .. k)
  BY <1>5
<1>7. Len(t) = k
  BY <1>5, <1>6
<1>8. QED
  BY <1>1, <1>3, <1>7 DEF t

(* The bytes of a frame.                                                   *)
LEMMA FrameBytes ==
  ASSUME NEW n \in Nat, NEW k \in Nat
  PROVE  /\ FormatCmd(Text(n, k)) \in Seq(Nat) /\ Len(FormatCmd(Text(n, k))) = HeaderSize + k
         /\ \A i \in 1 .. HeaderSize + k : FormatCmd(Text(n, k))[i] = FrameByte(n, k, i)
<1> DEFINE t == Text(n, k)
           len == k + HeaderSize
           head == <<PreChar, LowByte(len), HighByte(len)>>
<1>1. t \in Seq(Nat) /\ Len(t) = k /\ \A i \in 1 .. k : t[i] = TextByte(n, k, i)
  BY TextBytes
<1>2. HeaderSize = 3 /\ PreChar = 3 /\ len \in Nat
  BY DEF HeaderSize, PreChar
<1>3. LowByte(len) \in Nat /\ HighByte(len) \in Nat
  BY <1>2, WordBounds
<1>4. FormatCmd(t) = head \o t
  BY <1>1 DEF FormatCmd
<1> HIDE DEF t, len
<1>5. head \in Seq(Nat) /\ Len(head) = 3
      /\ head[1] = PreChar /\ head[2] = LowByte(len) /\ head[3] = HighByte(len)
  BY <1>2, <1>3
<1> HIDE DEF head
<1>6. /\ head \o t \in Seq(Nat) /\ Len(head \o t) = 3 + k
      /\ \A i \in 1 .. 3 + k : (head \o t)[i] = IF i <= 3 THEN head[i] ELSE t[i - 3]
  <2>1. /\ head \o t \in Seq(Nat) /\ Len(head \o t) = Len(head) + Len(t)
        /\ \A i \in 1 .. Len(head) + Len(t) :
             (head \o t)[i] = IF i <= Len(head) THEN head[i] ELSE t[i - Len(head)]
    BY <1>1, <1>5, ConcatProperties
  <2>2. Len(head) = 3 /\ Len(t) = k
    BY <1>1, <1>5
  <2>3. QED
    BY <2>1, <2>2
<1>7. ASSUME NEW i \in 1 .. 3 + k
      PROVE  (head \o t)[i] = FrameByte(n, k, i)
  <2>1. CASE i \in {1, 2, 3}
    <3>1. i <= 3
      BY <2>1
    <3>2. (head \o t)[i] = head[i]
      BY <1>6, <3>1, Zenon
    <3>3. FrameByte(n, k, i) = IF i = 1 THEN PreChar ELSE IF i = 2 THEN LowByte(len) ELSE HighByte(len)
      BY <2>1 DEF FrameByte, len
    <3>4. QED
      BY <1>5, <2>1, <3>2, <3>3
  <2>2. CASE i = 4
    BY <1>1, <1>6, <2>2 DEF FrameByte, TextByte
  <2>3. CASE i > 4
    <3>1. i - 3 \in 1 .. k /\ i - 3 # 1
      BY <2>3
    <3>2. (head \o t)[i] = TextByte(n, k, i - 3)
      BY <1>1, <1>6, <2>3, <3>1
    <3>3. FrameByte(n, k, i) = TextByte(n, k, i - 3)
      BY <2>3, <3>1 DEF FrameByte, TextByte
    <3>4. QED
      BY <3>2, <3>3
  <2>4. i \in {1, 2, 3} \/ i = 4 \/ i > 4
    OBVIOUS
  <2>5. QED
    BY <2>1, <2>2, <2>3, <2>4
<1>8. QED
  BY <1>2, <1>4, <1>6, <1>7 DEF t

(* A byte of a frame is one of the header's or one of the text's.          *)
LEMMA FrameByteIs ==
  ASSUME NEW n \in Nat, NEW k \in Nat, NEW i \in Nat \ {0}
  PROVE  /\ i = 1 => FrameByte(n, k, i) = 3
         /\ i \in {1, 2, 3} => FrameByte(n, k, i) <= 3 \/ FrameByte(n, k, i) < Radix
         /\ i = 2 => FrameByte(n, k, i) = LowByte(k + 3)
         /\ i = 3 => FrameByte(n, k, i) = HighByte(k + 3)
         /\ i = 4 => FrameByte(n, k, i) = Radix + 3 + 2 * n
         /\ i > 4 => FrameByte(n, k, i) = Radix + 4 + 2 * n \/ (FrameByte(n, k, i) = 3 /\ i < k + 2)
         /\ FrameByte(n, k, i) \in Nat
<1>1. HeaderSize = 3 /\ PreChar = 3 /\ Radix \in Nat /\ k + 3 \in Nat
  BY RadixAssumption DEF HeaderSize, PreChar
<1>2. LowByte(k + 3) \in 0 .. Radix - 1 /\ HighByte(k + 3) \in 0 .. Radix - 1
  BY <1>1, WordBounds
<1>3. FirstByte(n) = Radix + 3 + 2 * n
  BY FirstByteType
<1>4. QED
  BY <1>1, <1>2, <1>3 DEF FrameByte

(* The header of a frame and the first byte of its text.                   *)
LEMMA HeaderBytes ==
  ASSUME NEW n \in Nat, NEW k \in Nat
  PROVE  /\ FrameByte(n, k, 1) = 3 /\ FrameByte(n, k, 2) = LowByte(k + 3)
         /\ FrameByte(n, k, 3) = HighByte(k + 3) /\ FrameByte(n, k, 4) = Radix + 3 + 2 * n
  BY FirstByteType DEF FrameByte, PreChar, HeaderSize

(* The types of a command.                                                 *)
LEMMA CmdOf ==
  ASSUME WireInv, Counters, NEW n \in 1 .. Len(cmds)
  PROVE  /\ cmds[n] \in Command /\ cmds[n].text \in Nat /\ cmds[n].len \in Nat /\ cmds[n].key \in Nat
         /\ cmds[n].text > 0 /\ cmds[n].len > 0
         /\ FrameSize(n) \in Nat /\ FrameSize(n) = 3 + cmds[n].text
         /\ n \in Nat \ {0} /\ n + 1 \in 1 .. Len(cmds) + 1 /\ n \in 1 .. Len(cmds) + 1
         /\ Overlong(cmds[n]) <=> FrameSize(n) >= WordRange
<1>1. cmds \in Seq(Command)
  BY DEF WireInv
<1>2. cmds[n] \in Command /\ Len(cmds) \in Nat
  BY <1>1
<1>3. cmds[n].text \in Nat /\ cmds[n].len \in Nat /\ cmds[n].key \in Nat
  BY <1>2 DEF Command
<1>4. cmds[n].text > 0 /\ cmds[n].len > 0
  BY DEF Counters, Sound
<1>5. FrameSize(n) \in Nat /\ FrameSize(n) = 3 + cmds[n].text
  BY <1>3 DEF FrameSize, HeaderSize
<1>6. Overlong(cmds[n]) <=> FrameSize(n) >= WordRange
  BY <1>3, <1>5 DEF Overlong, HeaderSize
<1>7. QED
  BY <1>2, <1>3, <1>4, <1>5, <1>6

(* Every byte sent is a byte of a frame.                                   *)
LEMMA HistByte ==
  ASSUME WireInv, Counters, NEW h, NEW st, Hist(h, st), NEW q \in 1 .. Len(h)
  PROVE  \E n \in 1 .. Len(cmds) : \E i \in 1 .. FrameSize(n) :
           q = st[n] + i /\ h[q] = FrameByte(n, cmds[n].text, i)
<1>1. PICK n \in 1 .. Len(cmds) : st[n] < q /\ q <= st[n + 1]
  BY DEF Hist
<1>2. /\ st[n] \in Nat /\ st[n + 1] = st[n] + FrameSize(n) /\ FrameSize(n) \in Nat
  BY CmdOf DEF Hist
<1>3. q - st[n] \in 1 .. FrameSize(n) /\ q = st[n] + (q - st[n])
  <2>1. q \in Int
    OBVIOUS
  <2>2. QED
    BY <1>1, <1>2, <2>1
<1>4. \A i \in 1 .. FrameSize(n) : h[st[n] + i] = FrameByte(n, cmds[n].text, i)
  BY DEF Hist
<1>5. QED
  BY <1>3, <1>4

(* The first byte of a text stands only where that text begins.            *)
LEMMA FirstByteAt ==
  ASSUME WireInv, Counters, NEW h, NEW st, Hist(h, st), NEW q \in 1 .. Len(h),
         NEW n \in 1 .. Len(cmds), h[q] = FirstByte(n)
  PROVE  q = st[n] + 4
<1>1. PICK m \in 1 .. Len(cmds) : \E i \in 1 .. FrameSize(m) :
        q = st[m] + i /\ h[q] = FrameByte(m, cmds[m].text, i)
  BY HistByte
<1>2. PICK i \in 1 .. FrameSize(m) : q = st[m] + i /\ h[q] = FrameByte(m, cmds[m].text, i)
  BY <1>1
<1>3. /\ m \in Nat /\ n \in Nat /\ n > 0 /\ i \in Nat \ {0} /\ cmds[m].text \in Nat
      /\ Radix \in Nat
  BY CmdOf, RadixAssumption
<1>4. h[q] = Radix + 3 + 2 * n
  BY <1>3, FirstByteType
<1>5. PICK x : x = FrameByte(m, cmds[m].text, i)
  OBVIOUS
<1>6. /\ i \in {1, 2, 3} => x <= 3 \/ x < Radix
      /\ i = 4 => x = Radix + 3 + 2 * m
      /\ i > 4 => x = Radix + 4 + 2 * m \/ x = 3
      /\ x \in Nat /\ x = Radix + 3 + 2 * n
  BY <1>2, <1>3, <1>4, <1>5, FrameByteIs
<1>7. i = 4 /\ m = n
  <2>1. x > 3 /\ ~(x < Radix) /\ x # Radix + 4 + 2 * m
    <3>1. x \in Nat /\ m \in Nat /\ n \in Nat /\ Radix \in Nat /\ x = Radix + 3 + 2 * n /\ n > 0
      BY <1>3, <1>6
    <3>2. QED
      BY <3>1
  <2>2. ~(i \in {1, 2, 3}) /\ ~(i > 4)
    BY <1>6, <2>1
  <2>3. i = 4
    BY <1>3, <2>2
  <2>4. Radix + 3 + 2 * m = Radix + 3 + 2 * n
    BY <1>6, <2>3
  <2>5. QED
    BY <1>3, <2>3, <2>4
<1>8. QED
  BY <1>2, <1>7
-----------------------------------------------------------------------------
(* What JsonParse and ParseCmd say of a string.                            *)
LEMMA JsonFacts ==
  ASSUME NEW js, NEW texts, JsonParse(js, texts) # 0
  PROVE  LET n == JsonParse(js, texts) IN
         n \in DOMAIN texts /\ Len(texts[n]) <= Len(js) /\ SubSeq(js, 1, Len(texts[n])) = texts[n]
<1> DEFINE Begins(n) == Len(texts[n]) <= Len(js) /\ SubSeq(js, 1, Len(texts[n])) = texts[n]
<1>1. \E n \in DOMAIN texts : Begins(n)
  BY Zenon DEF JsonParse
<1>2. JsonParse(js, texts) = CHOOSE n \in DOMAIN texts : Begins(n)
  BY <1>1, Zenon DEF JsonParse
<1> HIDE DEF Begins
<1>3. JsonParse(js, texts) \in DOMAIN texts /\ Begins(JsonParse(js, texts))
  BY <1>1, <1>2, Zenon
<1>4. QED
  BY <1>3, Zenon DEF Begins

(* JsonParse finds a command that the string begins with.                  *)
LEMMA JsonFinds ==
  ASSUME NEW js, NEW texts, 0 \notin DOMAIN texts, NEW n \in DOMAIN texts,
         Len(texts[n]) <= Len(js), SubSeq(js, 1, Len(texts[n])) = texts[n]
  PROVE  JsonParse(js, texts) # 0
<1> DEFINE Begins(i) == Len(texts[i]) <= Len(js) /\ SubSeq(js, 1, Len(texts[i])) = texts[i]
<1>1. Begins(n)
  OBVIOUS
<1>2. JsonParse(js, texts) = CHOOSE i \in DOMAIN texts : Begins(i)
  BY <1>1, Zenon DEF JsonParse
<1> HIDE DEF Begins
<1>3. JsonParse(js, texts) \in DOMAIN texts
  BY <1>1, <1>2, Zenon
<1>4. QED
  BY <1>3

(* The cases of ParseCmd.                                                  *)
LEMMA ParseFacts ==
  ASSUME NEW s \in Seq(Nat), NEW texts, NEW known
  PROVE  LET r == ParseCmd(s, texts, known)
             w == Word(s[2], s[3])
             n == JsonParse(SubSeq(s, 4, w), texts)
         IN
         /\ r.err \in {"SUCCESS", "BUFSIZE", "ESC", "JSON", "UNKNOWED", "THROW"}
         /\ r.err = "SUCCESS" =>
              /\ Len(s) >= 3 /\ s[1] = 3 /\ w >= 3 /\ w <= Len(s) /\ r.size = w
              /\ r.cmd = n /\ n # 0 /\ n \in known
         /\ r.err = "THROW" => Len(s) >= 3 /\ s[1] = 3 /\ w < 3
         /\ r.err # "SUCCESS" => r.cmd = 0
         /\ Len(s) >= 3 /\ s[1] = 3 /\ w >= 3 /\ w <= Len(s) /\ n # 0 /\ n \in known => r.err = "SUCCESS"
<1> DEFINE r == ParseCmd(s, texts, known)
           w == Word(s[2], s[3])
           n == JsonParse(SubSeq(s, 4, w), texts)
<1>0. HeaderSize = 3 /\ PreChar = 3 /\ HeaderSize + 1 = 4 /\ Len(s) \in Nat
  BY DEF HeaderSize, PreChar
<1>1. CASE Len(s) < 3
  BY <1>0, <1>1 DEF ParseCmd, Failed
<1>2. CASE Len(s) >= 3 /\ s[1] # 3
  BY <1>0, <1>2 DEF ParseCmd, Failed
<1>3. CASE Len(s) >= 3 /\ s[1] = 3
  <2>0. w \in Nat
    <3>1. s[2] \in Nat /\ s[3] \in Nat /\ Radix \in Nat
      BY <1>3, RadixAssumption
    <3>2. PICK a \in Nat, c \in Nat : a = s[2] /\ c = Radix * s[3]
      BY <3>1
    <3>3. w = a + c
      BY <3>2, Zenon DEF Word
    <3>4. QED
      BY <3>3
  <2>1. r = IF w > Len(s) THEN Failed("BUFSIZE")
            ELSE IF w < 3 THEN Failed("THROW")
            ELSE IF n = 0 THEN Failed("JSON")
            ELSE IF n \notin known THEN Failed("UNKNOWED")
            ELSE [err |-> "SUCCESS", cmd |-> n, size |-> w]
    <3>1. ~(Len(s) < HeaderSize) /\ ~(s[1] # PreChar)
      BY <1>0, <1>3
    <3>2. r = IF w > Len(s) THEN Failed("BUFSIZE")
              ELSE IF w < HeaderSize THEN Failed("THROW")
              ELSE LET n0 == JsonParse(SubSeq(s, HeaderSize + 1, w), texts) IN
                   CASE n0 = 0 -> Failed("JSON")
                     [] n0 # 0 /\ n0 \notin known -> Failed("UNKNOWED")
                     [] n0 # 0 /\ n0 \in known -> [err |-> "SUCCESS", cmd |-> n0, size |-> w]
      BY <3>1, Zenon DEF ParseCmd
    <3>3. r = IF w > Len(s) THEN Failed("BUFSIZE")
              ELSE IF w < 3 THEN Failed("THROW")
              ELSE CASE n = 0 -> Failed("JSON")
                     [] n # 0 /\ n \notin known -> Failed("UNKNOWED")
                     [] n # 0 /\ n \in known -> [err |-> "SUCCESS", cmd |-> n, size |-> w]
      BY <1>0, <3>2
    <3> HIDE DEF r, w, n
    <3>4. QED
      BY <3>3
  <2> HIDE DEF r, w, n
  <2>2. QED
    <3>1. CASE w > Len(s)
      BY <1>0, <1>3, <2>0, <2>1, <3>1 DEF Failed, r, w, n
    <3>2. CASE ~(w > Len(s)) /\ w < 3
      <4>1. r = Failed("THROW")
        BY <2>1, <3>2
      <4>2. r.err = "THROW" /\ r.cmd = 0
        BY <4>1 DEF Failed
      <4>3. QED
        BY <1>3, <2>0, <3>2, <4>2 DEF r, w, n
    <3>3. CASE ~(w > Len(s)) /\ ~(w < 3) /\ (n = 0 \/ n \notin known)
      <4>1. r = Failed("JSON") \/ r = Failed("UNKNOWED")
        BY <2>1, <3>3
      <4>2. r.err \in {"JSON", "UNKNOWED"} /\ r.cmd = 0
        BY <4>1 DEF Failed
      <4>3. QED
        BY <1>3, <3>3, <4>2 DEF r, w, n
    <3>4. CASE ~(w > Len(s)) /\ ~(w < 3) /\ n # 0 /\ n \in known
      <4>1. r = [err |-> "SUCCESS", cmd |-> n, size |-> w]
        BY <2>1, <3>4
      <4>2. r.err = "SUCCESS" /\ r.cmd = n /\ r.size = w
        BY <4>1
      <4>3. QED
        BY <1>0, <1>3, <2>0, <3>4, <4>2 DEF r, w, n
    <3>5. QED
      BY <3>1, <3>2, <3>3, <3>4
<1>4. QED
  BY <1>0, <1>1, <1>2, <1>3
-----------------------------------------------------------------------------
(* The texts json-c knows.                                                 *)
LEMMA TextFacts ==
  ASSUME NEW n \in Nat, NEW k \in Nat, k > 0
  PROVE  /\ Text(n, k) \in Seq(Nat) /\ Len(Text(n, k)) = k
         /\ Text(n, k)[1] = FirstByte(n)
         /\ \A i \in 1 .. k : Text(n, k)[i] = FrameByte(n, k, i + 3)
<1> DEFINE t == Text(n, k)
<1>1. t \in Seq(Nat) /\ Len(t) = k /\ \A i \in 1 .. k : t[i] = TextByte(n, k, i)
  BY TextBytes
<1> HIDE DEF t
<1>2. t[1] = FirstByte(n)
  BY <1>1 DEF TextByte
<1>3. ASSUME NEW i \in 1 .. k PROVE t[i] = FrameByte(n, k, i + 3)
  <2>1. i + 3 > 3 /\ (i + 3 = 4 <=> i = 1) /\ (i + 3) - 3 = i
    OBVIOUS
  <2>2. FrameByte(n, k, i + 3) = TextByte(n, k, i)
    BY <2>1 DEF FrameByte, TextByte
  <2>3. QED
    BY <1>1, <2>2
<1>4. QED
  BY <1>1, <1>2, <1>3 DEF t

(* A window of the stream, byte by byte of the frame that it begins with.  *)
LEMMA WindowFrame ==
  ASSUME WireInv, Counters, NEW h, NEW st, Hist(h, st), NEW s, NEW n \in 1 .. Len(cmds),
         Window(s, h, st[n]), NEW i \in 1 .. Len(s), i <= FrameSize(n)
  PROVE  s[i] = FrameByte(n, cmds[n].text, i)
<1>1. i \in 1 .. FrameSize(n)
  BY CmdOf
<1>2. s[i] = h[st[n] + i]
  BY DEF Window
<1>3. QED
  BY <1>1, <1>2 DEF Hist

(* The word of a frame, and what it says when the frame is overlong.       *)
LEMMA FrameWord ==
  ASSUME WireInv, Counters, NEW h, NEW st, Hist(h, st), NEW s \in Seq(Nat), NEW n \in 1 .. Len(cmds),
         Window(s, h, st[n]), Len(s) >= 3
  PROVE  /\ s[1] = 3
         /\ Word(s[2], s[3]) \in 0 .. WordRange - 1
         /\ ~Overlong(cmds[n]) => Word(s[2], s[3]) = FrameSize(n)
<1> DEFINE k == cmds[n].text
<1>1. k \in Nat /\ k > 0 /\ n \in Nat /\ FrameSize(n) = 3 + k /\ FrameSize(n) \in Nat
  BY CmdOf
<1>2. 1 \in 1 .. Len(s) /\ 2 \in 1 .. Len(s) /\ 3 \in 1 .. Len(s)
      /\ 1 <= FrameSize(n) /\ 2 <= FrameSize(n) /\ 3 <= FrameSize(n)
  BY <1>1
<1> HIDE DEF k
<1>3. s[1] = FrameByte(n, k, 1) /\ s[2] = FrameByte(n, k, 2) /\ s[3] = FrameByte(n, k, 3)
  BY <1>2, WindowFrame DEF k
<1>4. s[1] = 3 /\ s[2] = LowByte(k + 3) /\ s[3] = HighByte(k + 3)
  BY <1>1, <1>3, HeaderBytes
<1>5. Word(LowByte(k + 3), HighByte(k + 3)) \in 0 .. WordRange - 1
  BY <1>1, WordBounds
<1>6. ~Overlong(cmds[n]) => k + 3 \in 0 .. WordRange - 1
  <2>1. WordRange \in Nat
    BY RadixAssumption DEF WordRange
  <2>2. Overlong(cmds[n]) <=> FrameSize(n) >= WordRange
    BY CmdOf
  <2>3. QED
    BY <1>1, <2>1, <2>2
<1>7. QED
  BY <1>1, <1>4, <1>5, <1>6, WordRoundTrip

(* ParseCmd succeeds only on the frame that the window begins with, which  *)
(* is not overlong, and takes exactly that frame.                          *)
LEMMA ParsedFrame ==
  ASSUME WireInv, Counters, NEW h, NEW st, Hist(h, st), NEW s \in Seq(Nat), NEW p,
         Window(s, h, p), ParseCmd(s, OuterTexts, Known).err = "SUCCESS"
  PROVE  LET r == ParseCmd(s, OuterTexts, Known) IN
         /\ r.cmd \in 1 .. Len(cmds) /\ st[r.cmd] = p
         /\ r.size = FrameSize(r.cmd) /\ r.size <= Len(s)
         /\ ~Overlong(cmds[r.cmd])
<1> DEFINE r == ParseCmd(s, OuterTexts, Known)
           w == Word(s[2], s[3])
           js == SubSeq(s, 4, w)
<1>1. Len(s) >= 3 /\ w >= 3 /\ w <= Len(s) /\ r.size = w /\ r.cmd = JsonParse(js, OuterTexts) /\ r.cmd # 0
  BY ParseFacts
<1>2. PICK n : n = r.cmd
  OBVIOUS
<1> HIDE DEF r
<1>3. DOMAIN OuterTexts = 1 .. Len(cmds)
  BY DEF OuterTexts
<1>4. n \in 1 .. Len(cmds)
  BY <1>1, <1>2, <1>3, JsonFacts
<1> DEFINE k == cmds[n].text
           t == Text(n, k)
<1>5. OuterTexts[n] = t
  BY <1>4 DEF OuterTexts
<1>6. k \in Nat /\ k > 0 /\ n \in Nat /\ FrameSize(n) = 3 + k
  BY <1>4, CmdOf
<1> HIDE DEF k
<1>7. t \in Seq(Nat) /\ Len(t) = k /\ t[1] = FirstByte(n)
  BY <1>6, TextFacts
<1> HIDE DEF t
<1>8. k <= Len(js) /\ SubSeq(js, 1, k) = t
  BY <1>1, <1>2, <1>5, <1>7, JsonFacts
<1>9. Len(s) \in Nat /\ w \in Nat /\ p \in Nat /\ p + Len(s) <= Len(h) /\ Len(h) \in Nat
  <2>1. s[2] \in Nat /\ s[3] \in Nat /\ Radix \in Nat /\ Len(s) \in Nat
    BY <1>1, RadixAssumption
  <2>2. Radix * s[3] \in Nat
    BY <2>1
  <2>3. w \in Nat
    <3>1. PICK a \in Nat, c \in Nat : a = s[2] /\ c = Radix * s[3]
      BY <2>1, <2>2
    <3>2. w = a + c
      BY <3>1, Zenon DEF Word
    <3>3. QED
      BY <3>2
  <2>4. p \in Nat /\ p + Len(s) <= Len(h)
    BY DEF Window
  <2>5. h \in Seq(Nat)
    BY DEF Hist
  <2>6. QED
    BY <2>1, <2>3, <2>4, <2>5
<1> HIDE DEF w
<1>10. js \in Seq(Nat) /\ Len(js) = w - 3 /\ \A i \in 1 .. w - 3 : js[i] = s[i + 3]
  <2>1. w \in Nat /\ w >= 3 /\ w <= Len(s)
    BY <1>1, <1>9, Zenon
  <2>2. QED
    BY <2>1, BodyOf, Zenon
<1> HIDE DEF js
<1>11. w >= 4 /\ Len(js) = w - 3 /\ js[1] = s[4] /\ k <= w - 3
  <2>1. w >= 4 /\ k <= w - 3 /\ 1 \in 1 .. w - 3 /\ 1 + 3 = 4
    BY <1>6, <1>8, <1>9, <1>10
  <2>2. js[1] = s[1 + 3]
    BY <1>10, <2>1, Zenon
  <2>3. QED
    BY <1>10, <2>1, <2>2, Zenon
<1>12. t[1] = js[1]
  <2>1. 1 \in 1 .. k /\ k <= Len(js)
    BY <1>6, <1>8
  <2>2. \A i \in 1 .. k : t[i] = js[i]
    BY <1>6, <1>8, <1>10, PrefixOf, Zenon
  <2>3. QED
    BY <2>1, <2>2, Zenon
<1>13. s[4] = h[p + 4] /\ p + 4 \in 1 .. Len(h)
  <2>1. 4 \in 1 .. Len(s) /\ p + 4 \in 1 .. Len(h)
    <3>1. w <= Len(s) /\ w >= 4
      BY <1>1, <1>11, Zenon
    <3>2. QED
      BY <1>9, <3>1
  <2>2. \A i \in 1 .. Len(s) : s[i] = h[p + i]
    BY Zenon DEF Window
  <2>3. QED
    BY <2>1, <2>2, Zenon
<1>14. p + 4 = st[n] + 4
  <2>1. PICK q \in 1 .. Len(h) : q = p + 4
    BY <1>13
  <2>2. h[q] = FirstByte(n)
    BY <1>7, <1>11, <1>12, <1>13, <2>1
  <2>3. q = st[n] + 4
    BY <1>4, <2>2, FirstByteAt
  <2>4. QED
    BY <2>1, <2>3
<1>15. st[n] \in Nat
  BY <1>4, CmdOf DEF Hist
<1>16. st[n] = p
  BY <1>9, <1>14, <1>15
<1>17. Window(s, h, st[n])
  BY <1>16
<1>18. w \in 0 .. WordRange - 1 /\ (~Overlong(cmds[n]) => w = FrameSize(n))
  BY <1>1, <1>4, <1>17, FrameWord DEF w
<1>19. ~Overlong(cmds[n])
  <2>1. WordRange \in Nat
    BY RadixAssumption DEF WordRange
  <2>2. ~(FrameSize(n) >= WordRange)
    BY <1>6, <1>9, <1>11, <1>18, <2>1
  <2>3. QED
    BY <1>4, <2>2, CmdOf
<1>20. QED
  BY <1>1, <1>2, <1>4, <1>16, <1>18, <1>19 DEF r

(* A product is no less than its factor.                                   *)
LEMMA Times ==
  ASSUME NEW a \in Nat, a > 0, NEW x \in Nat
  PROVE  a * x \in Nat /\ a * x >= x
<1> DEFINE r == a - 1
<1>1. r \in Nat /\ a = r + 1
  OBVIOUS
<1> HIDE DEF r
<1>2. r * x \in Nat /\ (r + 1) * x = r * x + x
  BY <1>1
<1>3. a * x = (r + 1) * x
  BY <1>1
<1>4. QED
  BY <1>2, <1>3

(* The place behind a place that is c behind b.                             *)
LEMMA NextPlace ==
  ASSUME NEW a \in Nat, NEW b \in Nat, NEW c \in Nat, a + 1 = b + c
  PROVE  a + 2 = b + (c + 1)
OBVIOUS

(* A length word below the size of the header is that of an overlong       *)
(* frame: digits and texts that are taken for a header say more, also      *)
(* where a text holds PRE_CHAR.                                            *)
LEMMA ParsedThrow ==
  ASSUME WireInv, Counters, NEW h, NEW st, Hist(h, st), NEW s \in Seq(Nat), NEW p,
         Window(s, h, p), ParseCmd(s, OuterTexts, Known).err = "THROW"
  PROVE  SomeOverlong
<1> DEFINE w == Word(s[2], s[3])
<1>1. Len(s) >= 3 /\ s[1] = 3 /\ w < 3 /\ Len(s) \in Nat
  BY ParseFacts
<1>2. s[2] \in Nat /\ s[3] \in Nat /\ Radix \in Nat /\ Radix > 1 /\ w = s[2] + Radix * s[3]
  BY <1>1, RadixAssumption DEF Word
<1> HIDE DEF w
<1>3. Radix * s[3] \in Nat /\ Radix * s[3] >= s[3]
  <2>1. Radix \in Nat /\ Radix > 0 /\ s[3] \in Nat
    BY <1>2
  <2>2. QED
    BY <2>1, Times
<1>4. s[2] < 3 /\ s[3] < 3
  <2>1. PICK a \in Nat, b \in Nat, c \in Nat : a = s[2] /\ b = s[3] /\ c = Radix * s[3]
    BY <1>2, <1>3
  <2>2. a + c < 3 /\ c >= b
    BY <1>1, <1>2, <1>3, <2>1
  <2>3. a < 3 /\ b < 3
    BY <2>2
  <2>4. QED
    BY <2>1, <2>3
<1>5. p \in Nat /\ Len(h) \in Nat /\ p + 3 <= Len(h)
  <2>1. p \in Nat /\ p + Len(s) <= Len(h)
    BY DEF Window
  <2>2. h \in Seq(Nat)
    BY DEF Hist
  <2>3. QED
    BY <1>1, <2>1, <2>2
<1>6. s[1] = h[p + 1] /\ s[2] = h[p + 2] /\ s[3] = h[p + 3]
  <2>1. 1 \in 1 .. Len(s) /\ 2 \in 1 .. Len(s) /\ 3 \in 1 .. Len(s)
    BY <1>1
  <2>2. \A i \in 1 .. Len(s) : s[i] = h[p + i]
    BY Zenon DEF Window
  <2>3. QED
    BY <2>1, <2>2, Zenon
<1>7. PICK m \in 1 .. Len(cmds) : \E i \in 1 .. FrameSize(m) :
        p + 1 = st[m] + i /\ h[p + 1] = FrameByte(m, cmds[m].text, i)
  <2>1. PICK q \in 1 .. Len(h) : q = p + 1
    BY <1>5
  <2>2. \E n \in 1 .. Len(cmds) : \E i \in 1 .. FrameSize(n) :
          q = st[n] + i /\ h[q] = FrameByte(n, cmds[n].text, i)
    BY HistByte
  <2>3. QED
    BY <2>1, <2>2
<1>8. PICK i \in 1 .. FrameSize(m) : p + 1 = st[m] + i /\ h[p + 1] = FrameByte(m, cmds[m].text, i)
  BY <1>7
<1> DEFINE k == cmds[m].text
<1>9. k \in Nat /\ k > 0 /\ m \in Nat /\ m > 0 /\ FrameSize(m) = 3 + k /\ st[m] \in Nat /\ i \in Nat \ {0}
  <2>1. /\ k \in Nat /\ k > 0 /\ m \in Nat \ {0} /\ FrameSize(m) = 3 + k /\ FrameSize(m) \in Nat
        /\ m \in 1 .. Len(cmds) + 1
    BY CmdOf
  <2>2. st[m] \in Nat
    BY <2>1 DEF Hist
  <2>3. i \in Nat \ {0}
    BY <2>1
  <2>4. QED
    BY <2>1, <2>2, <2>3
<1>10. 4 \in 1 .. FrameSize(m) /\ \A j \in 1 .. FrameSize(m) : h[st[m] + j] = FrameByte(m, k, j)
  <2>1. 4 \in 1 .. FrameSize(m)
    BY <1>9
  <2>2. \A j \in 1 .. FrameSize(m) : h[st[m] + j] = FrameByte(m, k, j)
    BY Zenon DEF Hist
  <2>3. QED
    BY <2>1, <2>2
<1> HIDE DEF k
<1>11. h[st[m] + 4] = Radix + 3 + 2 * m
  BY <1>9, <1>10, HeaderBytes
<1>12. i \in {1, 2, 3} \/ (i > 4 /\ i < k + 2)
  <2>1. PICK x : x = FrameByte(m, k, i)
    OBVIOUS
  <2>2. /\ x = 3 /\ (i = 4 => x = Radix + 3 + 2 * m)
        /\ i > 4 => x = Radix + 4 + 2 * m \/ i < k + 2
    BY <1>1, <1>6, <1>8, <1>9, <2>1, FrameByteIs DEF k
  <2>3. QED
    BY <1>2, <1>9, <2>2
<1>13. CASE i = 1
  <2>1. p = st[m]
    BY <1>5, <1>8, <1>9, <1>13
  <2>2. ~Overlong(cmds[m]) => w = FrameSize(m)
    BY <1>1, <2>1, FrameWord DEF w
  <2>3. Overlong(cmds[m])
    BY <1>1, <1>9, <2>2
  <2>4. QED
    BY <2>3 DEF SomeOverlong
<1>14. CASE i = 2
  <2>1. p + 3 = st[m] + 4
    <3>1. p \in Nat /\ st[m] \in Nat /\ p + 1 = st[m] + 2
      BY <1>5, <1>8, <1>9, <1>14
    <3>2. QED
      BY <3>1
  <2>2. QED
    BY <1>2, <1>4, <1>6, <1>9, <1>11, <2>1
<1>15. CASE i = 3
  <2>1. p + 2 = st[m] + 4
    <3>1. p \in Nat /\ st[m] \in Nat /\ p + 1 = st[m] + 3
      BY <1>5, <1>8, <1>9, <1>15
    <3>2. QED
      BY <3>1
  <2>2. QED
    BY <1>2, <1>4, <1>6, <1>9, <1>11, <2>1
<1>16. CASE i > 4 /\ i < k + 2
  <2>1. i + 1 \in 1 .. FrameSize(m) /\ i + 1 > 4 /\ i + 1 \in Nat \ {0} /\ p + 2 = st[m] + (i + 1)
    <3>1. k \in Nat /\ FrameSize(m) = 3 + k /\ i \in Nat /\ i > 4 /\ i < k + 2
      BY <1>9, <1>16
    <3>2. p \in Nat /\ st[m] \in Nat /\ p + 1 = st[m] + i
      BY <1>5, <1>8, <1>9
    <3>3. i + 1 \in Nat \ {0} /\ i + 1 > 4 /\ i + 1 <= 3 + k
      BY <3>1
    <3>4. p + 2 = st[m] + (i + 1)
      BY <3>1, <3>2, NextPlace
    <3>5. i + 1 \in 1 .. FrameSize(m)
      BY <3>1, <3>3
    <3>6. QED
      BY <3>3, <3>4, <3>5
  <2>2. PICK x : x = FrameByte(m, k, i + 1)
    OBVIOUS
  <2>3. x = h[p + 2]
    BY <1>10, <2>1, <2>2
  <2>4. x = Radix + 4 + 2 * m \/ x = 3
    BY <1>9, <2>1, <2>2, FrameByteIs
  <2>5. x < 3
    BY <1>4, <1>6, <2>3
  <2>6. QED
    BY <1>2, <1>9, <2>4, <2>5
<1>17. QED
  BY <1>12, <1>13, <1>14, <1>15, <1>16

(* ParseCmd succeeds on a whole frame that is not overlong, when every id  *)
(* is known.                                                               *)
LEMMA WholeFrame ==
  ASSUME WireInv, Counters, NEW h, NEW st, Hist(h, st), NEW s \in Seq(Nat), NEW n \in 1 .. Len(cmds),
         Window(s, h, st[n]), FrameSize(n) <= Len(s), ~Overlong(cmds[n]), ~SomeUnknown
  PROVE  ParseCmd(s, OuterTexts, Known).err = "SUCCESS"
<1> DEFINE k == cmds[n].text
           w == Word(s[2], s[3])
           js == SubSeq(s, 4, w)
           t == Text(n, k)
<1>1. k \in Nat /\ k > 0 /\ n \in Nat /\ FrameSize(n) = 3 + k /\ Len(s) \in Nat
  BY CmdOf
<1>2. s[1] = 3 /\ w = 3 + k /\ Len(s) >= 3
  <2>1. Len(s) >= 3
    BY <1>1
  <2>2. s[1] = 3 /\ w = FrameSize(n)
    BY <2>1, FrameWord
  <2>3. QED
    BY <1>1, <2>1, <2>2
<1>3. DOMAIN OuterTexts = 1 .. Len(cmds) /\ OuterTexts[n] = t
  BY DEF OuterTexts
<1> HIDE DEF k, w
<1>4. /\ js \in Seq(Nat) /\ Len(js) = k
      /\ \A i \in 1 .. k : js[i] = s[i + 3]
  <2>1. w \in Nat /\ w >= 3 /\ w <= Len(s) /\ w - 3 = k
    BY <1>1, <1>2
  <2>2. js \in Seq(Nat) /\ Len(js) = w - 3 /\ \A i \in 1 .. w - 3 : js[i] = s[i + 3]
    BY <2>1, BodyOf, Zenon
  <2> HIDE DEF js
  <2>3. QED
    BY <2>1, <2>2, Zenon
<1>5. t \in Seq(Nat) /\ Len(t) = k /\ \A i \in 1 .. k : t[i] = FrameByte(n, k, i + 3)
  BY <1>1, TextFacts
<1> HIDE DEF t, js
<1>6. \A i \in 1 .. k : s[i + 3] = FrameByte(n, k, i + 3)
  <2> SUFFICES ASSUME NEW i \in 1 .. k PROVE s[i + 3] = FrameByte(n, k, i + 3)
    OBVIOUS
  <2>1. i + 3 \in 1 .. Len(s) /\ i + 3 <= FrameSize(n)
    BY <1>1
  <2>2. QED
    BY <2>1, WindowFrame DEF k
<1>7. js = t
  BY <1>1, <1>4, <1>5, <1>6, SeqEqual
<1>8. SubSeq(js, 1, Len(t)) = t
  <2>1. PICK z : z = SubSeq(t, 1, k)
    OBVIOUS
  <2>2. z \in Seq(Nat) /\ Len(z) = k /\ \A i \in 1 .. k : z[i] = t[i]
    <3>1. k \in Nat /\ t \in Seq(Nat) /\ k <= Len(t)
      BY <1>1, <1>5
    <3>2. QED
      BY <2>1, <3>1, PrefixOf, Zenon
  <2>3. z = t
    BY <1>1, <1>5, <2>2, SeqEqual
  <2>4. QED
    BY <1>5, <1>7, <2>1, <2>3, Zenon
<1>9. JsonParse(js, OuterTexts) # 0
  <2>1. 0 \notin DOMAIN OuterTexts /\ n \in DOMAIN OuterTexts /\ Len(OuterTexts[n]) <= Len(js)
    BY <1>1, <1>3, <1>4, <1>5
  <2>2. SubSeq(js, 1, Len(OuterTexts[n])) = OuterTexts[n]
    BY <1>3, <1>8
  <2>3. QED
    BY <2>1, <2>2, JsonFinds
<1>10. w >= 3 /\ w <= Len(s)
  BY <1>1, <1>2
<1>11. QED
  <2>1. JsonParse(js, OuterTexts) \in 1 .. Len(cmds)
    BY <1>3, <1>9, JsonFacts
  <2>2. JsonParse(js, OuterTexts) \in Known
    BY <2>1, Zenon DEF Known, SomeUnknown
  <2>3. QED
    BY <1>2, <1>9, <1>10, <2>2, ParseFacts DEF js, w
-----------------------------------------------------------------------------
(* Wrapped commands.                                                       *)

(* base64 never shortens.                                                  *)
LEMMA Base64Grows == ASSUME NEW x \in Nat PROVE Base64Size(x) >= x
<1>1. ((x + 2) \div 3) * 4 >= x /\ (x + 47) \div 48 >= 0
  OBVIOUS
<1>2. QED
  BY <1>1 DEF Base64Size

(* The text inside a wrapped command is that command's.                    *)
LEMMA InnerText ==
  ASSUME WireInv, Counters, NEW n \in 1 .. Len(cmds)
  PROVE  JsonParse(Text(n, cmds[n].len), InnerTexts) = n
<1> DEFINE t(m) == Text(m, cmds[m].len)
           j == JsonParse(t(n), InnerTexts)
<1>1. DOMAIN InnerTexts = 1 .. Len(cmds) /\ \A m \in 1 .. Len(cmds) : InnerTexts[m] = t(m)
  BY DEF InnerTexts
<1>2. \A m \in 1 .. Len(cmds) :
        /\ t(m) \in Seq(Nat) /\ Len(t(m)) = cmds[m].len /\ t(m)[1] = FirstByte(m)
        /\ Len(t(m)) \in Nat /\ Len(t(m)) > 0
  <2> SUFFICES ASSUME NEW m \in 1 .. Len(cmds)
               PROVE  /\ t(m) \in Seq(Nat) /\ Len(t(m)) = cmds[m].len /\ t(m)[1] = FirstByte(m)
                      /\ Len(t(m)) \in Nat /\ Len(t(m)) > 0
    OBVIOUS
  <2>1. m \in Nat /\ cmds[m].len \in Nat /\ cmds[m].len > 0
    BY CmdOf
  <2>2. QED
    BY <2>1, TextFacts
<1>3. \A m \in 1 .. Len(cmds) : m \in Nat /\ FirstByte(m) = Radix + 3 + 2 * m /\ Radix \in Nat
  BY FirstByteType, RadixAssumption
<1> HIDE DEF t
<1>4. ASSUME NEW x \in Seq(Nat), NEW k \in Nat, k > 0, k <= Len(x)
      PROVE  SubSeq(x, 1, k)[1] = x[1] /\ (k = Len(x) => SubSeq(x, 1, k) = x)
  <2>2. PICK z : z = SubSeq(x, 1, k)
    OBVIOUS
  <2>4. z \in Seq(Nat) /\ Len(z) = k /\ \A i \in 1 .. k : z[i] = x[i]
    BY <1>4, <2>2, PrefixOf, Zenon
  <2>5. z[1] = x[1]
    BY <1>4, <2>4
  <2>6. k = Len(x) => z = x
    BY <2>4, SeqEqual
  <2>7. QED
    BY <2>2, <2>5, <2>6
<1>5. j # 0
  <2>1. PICK x : x = t(n)
    OBVIOUS
  <2>2. x \in Seq(Nat) /\ Len(x) \in Nat /\ Len(x) > 0 /\ InnerTexts[n] = x
    BY <1>1, <1>2, <2>1
  <2>3. SubSeq(x, 1, Len(x)) = x
    BY <1>4, <2>2
  <2>4. 0 \notin DOMAIN InnerTexts /\ n \in DOMAIN InnerTexts
    BY <1>1
  <2>5. JsonParse(x, InnerTexts) # 0
    BY <2>2, <2>3, <2>4, JsonFinds
  <2>6. QED
    BY <2>1, <2>5
<1>6. j \in 1 .. Len(cmds) /\ Len(t(j)) <= Len(t(n)) /\ SubSeq(t(n), 1, Len(t(j))) = t(j)
  <2>1. /\ j \in DOMAIN InnerTexts /\ Len(InnerTexts[j]) <= Len(t(n))
        /\ SubSeq(t(n), 1, Len(InnerTexts[j])) = InnerTexts[j]
    BY <1>5, JsonFacts
  <2> HIDE DEF j
  <2>2. QED
    BY <1>1, <2>1
<1> HIDE DEF j
<1>7. t(j)[1] = t(n)[1]
  <2>1. t(n) \in Seq(Nat) /\ Len(t(j)) \in Nat /\ Len(t(j)) > 0
    BY <1>2, <1>6
  <2>2. SubSeq(t(n), 1, Len(t(j)))[1] = t(n)[1]
    BY <1>4, <1>6, <2>1
  <2>3. QED
    BY <1>6, <2>2
<1>8. FirstByte(j) = FirstByte(n)
  BY <1>2, <1>6, <1>7
<1>9. j = n
  BY <1>3, <1>6, <1>8
<1>10. QED
  BY <1>9 DEF j, t

(* UnFormat succeeds when the session has the key that the command was     *)
(* wrapped under, and then returns that command; it throws only under      *)
(* another key.                                                            *)
LEMMA UnFormats ==
  ASSUME WireInv, Counters, NEW n \in 1 .. Len(cmds), cmds[n].kind \in Wraps, ~Overlong(cmds[n]),
         NEW r \in UnFormat(n)
  PROVE  /\ r.err = "THROW" => sess.key # cmds[n].key
         /\ sess.key = cmds[n].key => r.err = "SUCCESS"
         /\ r.err = "SUCCESS" => r.cmd = n
<1> DEFINE len == cmds[n].len
           key == cmds[n].key
           f == FormatCmd(Text(n, len))
           ser == cmds[n].ser
<1>1. n \in Nat /\ len \in Nat /\ len > 0 /\ key \in Nat /\ key \in Int
  BY CmdOf DEF WireInv
<1>2. ser = AESEncrypt(f, key, Left)
  BY DEF Counters, Sound, Sealed
<1> HIDE DEF len, key, ser
<1>3. f \in Seq(Nat) /\ Len(f) = 3 + len
  <2>1. HeaderSize = 3
    BY DEF HeaderSize
  <2>2. QED
    BY <1>1, <2>1, FrameBytes
<1>4. f \in Seq(Int) /\ Left \in [1 .. BlockSize -> Int]
  <2>1. f \in Seq(Int)
    BY <1>3
  <2>2. QED
    BY <2>1 DEF Left, PreChar
<1> HIDE DEF f
<1>5. AESDecryptOk(ser) /\ Len(ser) > Len(f) /\ ser \in Seq(Int) /\ AESDecrypt(ser, key) = f
  BY <1>1, <1>2, <1>4, AESUndone, AESRoundTrip
<1>6. CASE key = sess.key
  <2>1. r = ParseCmd(f, InnerTexts, Known)
    <3>1. UnFormat(n) = {ParseCmd(AESDecrypt(ser, sess.key), InnerTexts, Known)}
      BY <1>5, <1>6, Zenon DEF UnFormat, ser, key
    <3>2. AESDecrypt(ser, sess.key) = f
      BY <1>5, <1>6
    <3>3. QED
      BY <3>1, <3>2
  <2>2. len + HeaderSize < WordRange
    <3>1. cmds[n].text = Base64Size(Len(ser)) /\ cmds[n].text \in Nat
      BY CmdOf DEF Counters, Sound, ser
    <3>2. Base64Size(Len(ser)) >= Len(ser) /\ Len(ser) \in Nat
      BY <1>5, Base64Grows
    <3>3. WordRange \in Nat
      BY RadixAssumption DEF WordRange
    <3>4. ~(cmds[n].text + HeaderSize >= WordRange)
      BY DEF Overlong
    <3>5. HeaderSize = 3
      BY DEF HeaderSize
    <3>6. QED
      BY <1>1, <1>3, <1>5, <3>1, <3>2, <3>3, <3>4, <3>5
  <2>3. Text(n, len) \in Seq(Nat) /\ Len(Text(n, len)) = len
    BY <1>1, TextFacts
  <2>4. JsonParse(Text(n, len), InnerTexts) = n
    BY InnerText DEF len
  <2>5. ParseCmd(FormatCmd(Text(n, len)) \o <<>>, InnerTexts, Known) =
          [err |-> "SUCCESS", cmd |-> n, size |-> len + HeaderSize]
    <3>1. <<>> \in Seq(Nat) /\ n # 0 /\ n \in Known
      BY <1>1 DEF Known, Wraps
    <3>2. JsonParse(Text(n, len), InnerTexts) # 0 /\ JsonParse(Text(n, len), InnerTexts) \in Known
      BY <2>4, <3>1
    <3>3. ParseCmd(FormatCmd(Text(n, len)) \o <<>>, InnerTexts, Known) =
            [err |-> "SUCCESS", cmd |-> JsonParse(Text(n, len), InnerTexts),
             size |-> Len(Text(n, len)) + HeaderSize]
      BY <2>2, <2>3, <3>1, <3>2, FrameRoundTrip
    <3>4. QED
      BY <2>3, <2>4, <3>3
  <2>6. FormatCmd(Text(n, len)) \o <<>> = f
    BY <1>3 DEF f
  <2>7. r = [err |-> "SUCCESS", cmd |-> n, size |-> len + HeaderSize]
    BY <2>1, <2>5, <2>6
  <2>8. r.err = "SUCCESS" /\ r.cmd = n
    BY <2>7
  <2>9. QED
    BY <2>8
<1>7. CASE key # sess.key
  <2>1. UnFormat(n) = Garbled
    BY <1>5, <1>7, Zenon DEF UnFormat, ser, key
  <2>2. r.err # "SUCCESS"
    BY <2>1 DEF Garbled, Failed
  <2>3. QED
    BY <1>7, <2>2 DEF key
<1>8. QED
  BY <1>6, <1>7
-----------------------------------------------------------------------------
(* Windows.                                                                *)

(* A window stays one when more is sent.                                   *)
LEMMA WindowLonger ==
  ASSUME NEW s \in Seq(Nat), NEW h \in Seq(Nat), NEW g \in Seq(Nat), NEW p, Window(s, h, p)
  PROVE  Window(s, h \o g, p)
<1>1. /\ Len(h \o g) = Len(h) + Len(g) /\ Len(h) \in Nat /\ Len(g) \in Nat /\ Len(s) \in Nat
      /\ \A i \in 1 .. Len(h) + Len(g) : (h \o g)[i] = IF i <= Len(h) THEN h[i] ELSE g[i - Len(h)]
  BY ConcatProperties
<1>2. p \in Nat /\ p + Len(s) <= Len(h) /\ \A i \in 1 .. Len(s) : s[i] = h[p + i]
  BY DEF Window
<1>3. p + Len(s) <= Len(h \o g)
  BY <1>1, <1>2
<1>4. ASSUME NEW i \in 1 .. Len(s) PROVE s[i] = (h \o g)[p + i]
  <2>0. p \in Nat /\ p + Len(s) <= Len(h) /\ Len(s) \in Nat /\ Len(h) \in Nat /\ Len(g) \in Nat
    BY <1>1, <1>2, Zenon
  <2>1. p + i \in 1 .. Len(h) + Len(g) /\ p + i <= Len(h)
    BY <2>0
  <2>2. (h \o g)[p + i] = h[p + i]
    BY <1>1, <2>1
  <2>3. QED
    BY <1>2, <2>2
<1>5. QED
  BY <1>2, <1>3, <1>4 DEF Window

(* Two windows that meet are one.                                          *)
LEMMA WindowJoin ==
  ASSUME NEW s \in Seq(Nat), NEW t \in Seq(Nat), NEW h, NEW p, NEW q,
         Window(s, h, p), Window(t, h, q), q = p + Len(s)
  PROVE  Window(s \o t, h, p) /\ Len(s \o t) = Len(s) + Len(t)
<1>1. /\ Len(s \o t) = Len(s) + Len(t) /\ Len(s) \in Nat /\ Len(t) \in Nat
      /\ \A i \in 1 .. Len(s) + Len(t) : (s \o t)[i] = IF i <= Len(s) THEN s[i] ELSE t[i - Len(s)]
  BY ConcatProperties
<1>2. /\ p \in Nat /\ q + Len(t) <= Len(h)
      /\ \A i \in 1 .. Len(s) : s[i] = h[p + i]
      /\ \A i \in 1 .. Len(t) : t[i] = h[q + i]
  BY DEF Window
<1>3. p + (Len(s) + Len(t)) = q + Len(t)
  BY <1>1, <1>2
<1>4. ASSUME NEW i \in 1 .. Len(s) + Len(t) PROVE (s \o t)[i] = h[p + i]
  <2>1. CASE i <= Len(s)
    BY <1>1, <1>2, <2>1
  <2>2. CASE ~(i <= Len(s))
    <3>1. i - Len(s) \in 1 .. Len(t) /\ q + (i - Len(s)) = p + i
      BY <1>1, <1>2, <2>2
    <3>2. (s \o t)[i] = t[i - Len(s)]
      BY <1>1, <2>2
    <3>3. t[i - Len(s)] = h[q + (i - Len(s))]
      BY <1>2, <3>1
    <3>4. QED
      BY <3>1, <3>2, <3>3
  <2>3. QED
    BY <2>1, <2>2
<1>5. p + Len(s \o t) <= Len(h)
  BY <1>1, <1>2, <1>3
<1>6. QED
  BY <1>1, <1>2, <1>4, <1>5 DEF Window

(* A window cut in two is two windows.                                     *)
LEMMA WindowParts ==
  ASSUME NEW s \in Seq(Nat), NEW h \in Seq(Nat), NEW p, Window(s, h, p), NEW k \in Nat, k <= Len(s)
  PROVE  /\ Window(SubSeq(s, 1, k), h, p) /\ Len(SubSeq(s, 1, k)) = k
         /\ Window(SubSeq(s, k + 1, Len(s)), h, p + k)
         /\ Len(SubSeq(s, k + 1, Len(s))) = Len(s) - k
         /\ SubSeq(s, 1, k) \in Seq(Nat) /\ SubSeq(s, k + 1, Len(s)) \in Seq(Nat)
<1> DEFINE n == Len(s)
<1>1. n \in Nat /\ p \in Nat /\ p + n <= Len(h) /\ Len(h) \in Nat /\ \A i \in 1 .. n : s[i] = h[p + i]
  <2>1. p \in Nat /\ p + Len(s) <= Len(h) /\ \A i \in 1 .. Len(s) : s[i] = h[p + i]
    BY Zenon DEF Window
  <2>2. Len(s) \in Nat /\ Len(h) \in Nat
    OBVIOUS
  <2>3. QED
    BY <2>1, <2>2, Zenon
<1>3. PICK a : a = SubSeq(s, 1, k)
  OBVIOUS
<1>4. PICK b : b = SubSeq(s, k + 1, n)
  OBVIOUS
<1>7. a \in Seq(Nat) /\ Len(a) = k /\ \A i \in 1 .. k : a[i] = s[i]
  BY <1>3, PrefixOf, Zenon
<1>8. b \in Seq(Nat) /\ Len(b) = n - k /\ \A i \in 1 .. n - k : b[i] = s[k + i]
  BY <1>4, RestOf, Zenon
<1> HIDE DEF n
<1>9. Window(a, h, p)
  <2>1. p + k <= Len(h) /\ \A i \in 1 .. k : a[i] = h[p + i]
    <3>1. p + k <= Len(h) /\ k <= n
      BY <1>1 DEF n
    <3>2. ASSUME NEW i \in 1 .. k PROVE a[i] = h[p + i]
      <4>1. i \in 1 .. n
        BY <1>1, <3>1
      <4>2. QED
        BY <1>1, <1>7, <4>1
    <3>3. QED
      BY <3>1, <3>2
  <2>2. QED
    BY <1>1, <1>7, <2>1 DEF Window
<1>10. Window(b, h, p + k)
  <2>1. p + k \in Nat /\ p + k + (n - k) <= Len(h)
    BY <1>1
  <2>2. ASSUME NEW i \in 1 .. n - k PROVE b[i] = h[p + k + i]
    <3>1. k + i \in 1 .. n /\ p + (k + i) = p + k + i
      BY <1>1
    <3>2. QED
      BY <1>1, <1>8, <3>1
  <2>3. QED
    BY <1>8, <2>1, <2>2 DEF Window
<1>11. QED
  BY <1>3, <1>4, <1>7, <1>8, <1>9, <1>10 DEF n

(* No byte is a window everywhere.                                         *)
LEMMA WindowEmpty ==
  ASSUME NEW h \in Seq(Nat), NEW p \in Nat, p <= Len(h)
  PROVE  Window(<<>>, h, p)
  BY DEF Window

(* The bytes of the buffers on the way.                                    *)
LEMMA FlowTypes ==
  ASSUME WireInv, NEW h, NEW jp, Flow(h, jp)
  PROVE  /\ stream \in Seq(Nat) /\ Len(stream) \in Nat
         /\ readbuffer.bytes \in Seq(Nat) /\ Len(readbuffer.bytes) \in Nat
         /\ buf.bytes \in Seq(Nat) /\ Len(buf.bytes) \in Nat
         /\ Len(jobs) \in Nat
         /\ \A i \in 1 .. Len(jobs) : jobs[i].bytes \in Seq(Nat) /\ Len(jobs[i].bytes) \in Nat
         /\ \A i \in 1 .. Len(jobs) + 1 : jp[i] \in Nat
         /\ jp[1] \in Nat /\ At(jp) \in Nat /\ At(jp) + Len(buf.bytes) = jp[1]
<1>1. stream \in Seq(Nat) /\ readbuffer \in FitBuffers /\ buf \in FitBuffers /\ jobs \in Seq(FitBuffers)
  BY DEF WireInv
<1>2. readbuffer.bytes \in Seq(Nat) /\ buf.bytes \in Seq(Nat)
  BY <1>1, FitBytes
<1>3. \A i \in 1 .. Len(jobs) : jobs[i].bytes \in Seq(Nat)
  <2> SUFFICES ASSUME NEW i \in 1 .. Len(jobs) PROVE jobs[i].bytes \in Seq(Nat)
    OBVIOUS
  <2>1. jobs[i] \in FitBuffers
    BY <1>1
  <2>2. QED
    BY <2>1, FitBytes
<1>4. Len(jobs) \in Nat /\ \A i \in 1 .. Len(jobs) + 1 : jp[i] \in Nat
  BY <1>1 DEF Flow
<1>5. jp[1] \in Nat
  BY <1>4
<1>6. At(jp) \in Nat
  BY DEF Flow, Window
<1>7. Len(buf.bytes) \in Nat
  BY <1>2
<1>8. At(jp) + Len(buf.bytes) = jp[1]
  BY <1>5, <1>7 DEF At
<1>9. QED
  BY <1>1, <1>2, <1>3, <1>4, <1>5, <1>6, <1>7, <1>8
-----------------------------------------------------------------------------
(* Nothing sent, nothing under way.                                        *)
LEMMA StreamInitial == WireInit => StreamInv
<1> SUFFICES ASSUME WireInit PROVE StreamInv
  OBVIOUS
<1> DEFINE z == [i \in 1 .. 1 |-> 0]
<1>1. /\ cmds = <<>> /\ stream = <<>> /\ taken = 0 /\ ends = {0} /\ readbuffer = NewBuffer /\ jobs = <<>>
      /\ sess = NoSession /\ state = "none" /\ buf = NewBuffer /\ parsed = Failed("BUFSIZE")
      /\ pc = "idle" /\ done = <<>> /\ refused = FALSE /\ cut = 0 /\ logins = 0
  BY DEF WireInit
<1>2. Len(cmds) = 0 /\ Len(jobs) = 0 /\ Len(stream) = 0 /\ Len(done) = 0
      /\ readbuffer.bytes = <<>> /\ buf.bytes = <<>> /\ sess.readbuffer.bytes = <<>> /\ sess.key = 0
      /\ parsed.cmd = 0 /\ Len(buf.bytes) = 0
  BY <1>1 DEF NewBuffer, NoSession, Failed
<1>3. z \in [1 .. 1 -> Nat] /\ z[1] = 0 /\ <<>> \in Seq(Nat)
  OBVIOUS
<1> HIDE DEF z
<1>4. At(z) = 0
  <2>1. z[1] - Len(buf.bytes) = 0
    <3>1. z[1] = 0 /\ Len(buf.bytes) = 0
      BY <1>2, <1>3, Zenon
    <3>2. z[1] - Len(buf.bytes) = 0 - 0
      BY <3>1, Zenon
    <3>3. QED
      BY <3>2
  <2>2. QED
    BY <2>1, Zenon DEF At
<1>5. Counters
  <2>1. Len(cmds) <= MaxCmds /\ taken \in Nat /\ cut \in 0 .. MaxCuts
    BY <1>1, <1>2, WireBoundsAssumption
  <2>2. \A n \in 1 .. Len(cmds) : Sound(n)
    BY <1>2
  <2>3. refused \in BOOLEAN /\ sql \in BOOLEAN
    BY <1>1, Zenon DEF WireInit
  <2>4. QED
    BY <1>1, <2>1, <2>2, <2>3 DEF Counters
<1>6. Hist(<<>>, z)
  <2>1. 1 .. Len(cmds) + 1 = 1 .. 1 /\ 1 .. Len(cmds) = {} /\ Len(cmds) + 1 = 1
    BY <1>2
  <2>2. ends = {z[n] : n \in 1 .. 1}
    BY <1>1, <1>3
  <2>3. \A a, b \in 1 .. 1 : ~(a < b)
    OBVIOUS
  <2>4. QED
    BY <1>3, <2>1, <2>2, <2>3 DEF Hist
<1>7. Flow(<<>>, z)
  <2>1. Window(<<>>, <<>>, 0)
    <3>1. Len(<<>>) = 0 /\ 0 \in Nat /\ 0 <= 0
      OBVIOUS
    <3>2. QED
      BY <1>3, <3>1 DEF Window
  <2>2. QED
    BY <1>1, <1>2, <1>3, <1>4, <2>1 DEF Flow
<1>8. Did(z, z)
  BY <1>1, <1>2, <1>3 DEF Did
<1>9. Read(z, z)
  BY <1>1, <1>2 DEF Read
<1>10. Whole(z, z)
  <2>1. LoginsBefore(1) = {}
    BY DEF LoginsBefore
  <2>2. Cardinality(LoginsBefore(1)) = 0
    BY <2>1, FS_EmptySet
  <2>3. 1 \in 1 .. Len(cmds) + 1 /\ 1 .. Len(jobs) + 1 = 1 .. 1 /\ 1 .. 1 - 1 = {}
    BY <1>2
  <2>4. \A i \in 1 .. 1 : z[i] \in ends
    BY <1>1, <1>3
  <2>5. \E m \in 1 .. Len(cmds) + 1 :
          /\ z[m] = At(z) /\ (sql => logins = Cardinality(LoginsBefore(m)))
          /\ \A n \in 1 .. m - 1 : Ran(n) \/ StaleKey(n)
    <3>1. WITNESS 1 \in 1 .. Len(cmds) + 1
    <3>2. QED
      BY <1>1, <1>3, <1>4, <2>2, <2>3
  <2>6. refused => LoginRefused
    BY <1>1
  <2>7. QED
    BY <2>3, <2>4, <2>5, <2>6 DEF Whole
<1>11. Ghosts(<<>>, z, z)
  BY <1>5, <1>6, <1>7, <1>8, <1>9, <1>10 DEF Ghosts
<1>12. QED
  BY <1>11, WireInvInit DEF StreamInv

-----------------------------------------------------------------------------
(* A command more, the others as they were.                                *)
Sends1 ==
  /\ Len(cmds) \in Nat /\ Len(cmds') = Len(cmds) + 1
  /\ \A n \in 1 .. Len(cmds) : cmds'[n] = cmds[n]

(* What was known of the commands before still is.                         *)
LEMMA StaleKeeps ==
  ASSUME Sends1, NEW n \in 1 .. Len(cmds) PROVE StaleKey(n) => StaleKey(n)'
<1>1. cmds'[n] = cmds[n] /\ n <= Len(cmds')
  BY DEF Sends1
<1>2. {m \in 1 .. n - 1 : cmds'[m].kind = "LOGIN"} = {m \in 1 .. n - 1 : cmds[m].kind = "LOGIN"}
  <2>1. \A m \in 1 .. n - 1 : m \in 1 .. Len(cmds)
    BY DEF Sends1
  <2>2. \A m \in 1 .. n - 1 : cmds'[m] = cmds[m]
    BY <2>1 DEF Sends1
  <2>3. QED
    BY <2>2
<1>3. QED
  BY <1>1, <1>2, Zenon DEF StaleKey

(* The LOGINs before a command stay.                                       *)
LEMMA LoginsKeep ==
  ASSUME Sends1, NEW m \in 1 .. Len(cmds) + 1 PROVE LoginsBefore(m)' = LoginsBefore(m)
<1>1. \A l \in 1 .. m - 1 : l \in 1 .. Len(cmds)
  BY DEF Sends1
<1>2. \A l \in 1 .. m - 1 : cmds'[l] = cmds[l]
  BY <1>1 DEF Sends1
<1>3. QED
  BY <1>2 DEF LoginsBefore

(* An overlong command stays.                                              *)
LEMMA OverlongKeeps == ASSUME Sends1 PROVE SomeOverlong => SomeOverlong'
<1> SUFFICES ASSUME SomeOverlong PROVE SomeOverlong'
  OBVIOUS
<1>1. PICK n \in 1 .. Len(cmds) : Overlong(cmds[n])
  BY DEF SomeOverlong
<1>2. n \in 1 .. Len(cmds') /\ cmds'[n] = cmds[n]
  BY DEF Sends1
<1>3. Overlong(cmds'[n])
  BY <1>1, <1>2
<1>4. QED
  BY <1>2, <1>3 DEF SomeOverlong, Overlong

(* An unknown id stays.                                                    *)
LEMMA UnknownKeeps == ASSUME Sends1 PROVE SomeUnknown => SomeUnknown'
<1> SUFFICES ASSUME SomeUnknown PROVE SomeUnknown'
  OBVIOUS
<1>1. PICK n \in 1 .. Len(cmds) : cmds[n].kind = "UNKNOWN"
  BY DEF SomeUnknown
<1>2. n \in 1 .. Len(cmds') /\ cmds'[n] = cmds[n]
  BY DEF Sends1
<1>3. QED
  BY <1>1, <1>2 DEF SomeUnknown

(* So does the cause of an exception, ...                                  *)
LEMMA CauseKeeps == ASSUME Sends1, logins' = logins PROVE ThrowCause => ThrowCause'
<1> SUFFICES ASSUME ThrowCause PROVE ThrowCause'
  OBVIOUS
<1>1. CASE SomeOverlong
  BY <1>1, OverlongKeeps DEF ThrowCause
<1>2. CASE \E n \in 1 .. Len(cmds) : KeyReplaced(n)
  <2>1. PICK n \in 1 .. Len(cmds) : KeyReplaced(n)
    BY <1>2
  <2>2. n \in 1 .. Len(cmds') /\ cmds'[n] = cmds[n]
    BY DEF Sends1
  <2>3. KeyReplaced(n)'
    BY <2>1, <2>2 DEF KeyReplaced
  <2>4. QED
    BY <2>2, <2>3 DEF ThrowCause
<1>3. QED
  BY <1>1, <1>2 DEF ThrowCause

(* ... and a LOGIN refused.                                                *)
LEMMA RefusalKeeps ==
  ASSUME Sends1, UNCHANGED <<sql, done>>, \A i \in 1 .. Len(done) : done[i] \in 1 .. Len(cmds)
  PROVE  LoginRefused => LoginRefused'
<1> SUFFICES ASSUME LoginRefused PROVE LoginRefused'
  OBVIOUS
<1>1. PICK i \in 1 .. Len(done) : cmds[done[i]].kind = "LOGIN"
  BY DEF LoginRefused
<1>2. cmds'[done[i]] = cmds[done[i]]
  BY DEF Sends1
<1>3. cmds'[done'[i]].kind = "LOGIN" /\ i \in 1 .. Len(done')
  BY <1>1, <1>2
<1>4. QED
  BY <1>3, Zenon DEF LoginRefused

(* The new frame stands behind everything sent before.                     *)
LEMMA HistSends ==
  ASSUME WireInv, Counters, NEW h, NEW st, Hist(h, st), Sends1, NEW N, N = Len(cmds),
         NEW k \in Nat, k > 0, cmds'[N + 1].text = k,
         NEW f, f = FormatCmd(Text(N + 1, k)), ends' = ends \cup {Len(h) + Len(f)}
  PROVE  \E st2 : Hist(h \o f, st2)' /\ \A n \in 1 .. N + 1 : st2[n] = st[n]
<1> DEFINE h2 == h \o f
           st2 == [n \in 1 .. N + 2 |-> IF n = N + 2 THEN Len(h2) ELSE st[n]]
<1>0. N \in Nat /\ N + 1 \in Nat /\ Len(cmds') = N + 1
  BY DEF Sends1
<1>1. f \in Seq(Nat) /\ Len(f) = 3 + k /\ \A i \in 1 .. 3 + k : f[i] = FrameByte(N + 1, k, i)
  <2>1. HeaderSize = 3
    BY DEF HeaderSize
  <2>2. PICK K \in Nat : K = N + 1
    BY <1>0
  <2>3. /\ FormatCmd(Text(K, k)) \in Seq(Nat) /\ Len(FormatCmd(Text(K, k))) = HeaderSize + k
        /\ \A i \in 1 .. HeaderSize + k : FormatCmd(Text(K, k))[i] = FrameByte(K, k, i)
    BY FrameBytes, Zenon
  <2>4. f = FormatCmd(Text(K, k))
    BY <2>2
  <2>5. QED
    BY <2>1, <2>2, <2>3, <2>4, Zenon
<1>2. /\ h \in Seq(Nat) /\ Len(h) \in Nat /\ st[1] = 0 /\ st[N + 1] = Len(h)
      /\ \A n \in 1 .. N + 1 : st[n] \in Nat
      /\ \A n \in 1 .. N : st[n + 1] = st[n] + FrameSize(n)
      /\ \A a, b \in 1 .. N + 1 : a < b => st[a] < st[b]
      /\ \A q \in 1 .. Len(h) : \E n \in 1 .. N : st[n] < q /\ q <= st[n + 1]
      /\ \A n \in 1 .. N : \A i \in 1 .. FrameSize(n) : h[st[n] + i] = FrameByte(n, cmds[n].text, i)
      /\ ends = {st[n] : n \in 1 .. N + 1}
  <2>1. h \in Seq(Nat) /\ st \in [1 .. N + 1 -> Nat]
    BY DEF Hist
  <2>2. st[1] = 0 /\ st[N + 1] = Len(h) /\ ends = {st[n] : n \in 1 .. N + 1}
    BY DEF Hist
  <2>3. /\ \A n \in 1 .. N : st[n + 1] = st[n] + FrameSize(n)
        /\ \A a, b \in 1 .. N + 1 : a < b => st[a] < st[b]
    BY DEF Hist
  <2>4. /\ \A q \in 1 .. Len(h) : \E n \in 1 .. N : st[n] < q /\ q <= st[n + 1]
        /\ \A n \in 1 .. N : \A i \in 1 .. FrameSize(n) : h[st[n] + i] = FrameByte(n, cmds[n].text, i)
    BY DEF Hist
  <2>5. Len(h) \in Nat
    BY <2>1
  <2>6. \A n \in 1 .. N + 1 : st[n] \in Nat
    BY <2>1
  <2>7. QED
    BY <2>1, <2>2, <2>3, <2>4, <2>5, <2>6, Zenon
<1>3. /\ h2 \in Seq(Nat) /\ Len(h2) = Len(h) + 3 + k
      /\ \A i \in 1 .. Len(h) : h2[i] = h[i]
      /\ \A i \in 1 .. 3 + k : h2[Len(h) + i] = f[i]
  <2>1. /\ h2 \in Seq(Nat) /\ Len(h2) = Len(h) + Len(f)
        /\ \A i \in 1 .. Len(h) + Len(f) : h2[i] = IF i <= Len(h) THEN h[i] ELSE f[i - Len(h)]
    BY <1>1, <1>2, ConcatProperties
  <2> HIDE DEF h2
  <2>2. \A i \in 1 .. Len(h) : h2[i] = h[i]
    <3> SUFFICES ASSUME NEW i \in 1 .. Len(h) PROVE h2[i] = h[i]
      OBVIOUS
    <3>1. i \in 1 .. Len(h) + Len(f) /\ i <= Len(h)
      BY <1>1, <1>2
    <3>2. QED
      BY <2>1, <3>1
  <2>3. ASSUME NEW i \in 1 .. 3 + k PROVE h2[Len(h) + i] = f[i]
    <3>1. Len(h) + i \in 1 .. Len(h) + Len(f) /\ ~(Len(h) + i <= Len(h)) /\ Len(h) + i - Len(h) = i
      BY <1>1, <1>2
    <3>2. PICK j \in 1 .. Len(h) + Len(f) : j = Len(h) + i /\ ~(j <= Len(h)) /\ j - Len(h) = i
      BY <3>1
    <3>3. h2[j] = f[j - Len(h)]
      BY <2>1, <3>2, Zenon
    <3>4. QED
      BY <3>2, <3>3, Zenon
  <2>4. QED
    BY <1>1, <1>2, <2>1, <2>2, <2>3
<1> HIDE DEF h2
<1>4. /\ st2 \in [1 .. N + 2 -> Nat] /\ st2[N + 2] = Len(h2)
      /\ \A n \in 1 .. N + 1 : st2[n] = st[n]
  <2>1. Len(h2) \in Nat
    BY <1>2, <1>3
  <2>2. \A n \in 1 .. N + 2 : n # N + 2 => n \in 1 .. N + 1
    BY <1>0
  <2>3. \A n \in 1 .. N + 1 : n \in 1 .. N + 2 /\ n # N + 2
    BY <1>0
  <2>4. N + 2 \in 1 .. N + 2
    BY <1>0
  <2>5. \A n \in 1 .. N + 2 : (IF n = N + 2 THEN Len(h2) ELSE st[n]) \in Nat
    BY <1>2, <2>1, <2>2
  <2>6. QED
    BY <2>3, <2>4, <2>5
<1> HIDE DEF st2
<1>5. /\ \A n \in 1 .. N : FrameSize(n)' = FrameSize(n) /\ cmds'[n].text = cmds[n].text
      /\ \A n \in 1 .. N + 1 : FrameSize(n)' = 3 + cmds'[n].text
      /\ \A n \in 1 .. N : FrameSize(n) \in Nat
  <2>1. \A n \in 1 .. N : cmds'[n] = cmds[n]
    BY DEF Sends1
  <2>2. \A n \in 1 .. N : FrameSize(n) \in Nat
    BY CmdOf
  <2>3. \A n : FrameSize(n)' = 3 + cmds'[n].text /\ FrameSize(n) = 3 + cmds[n].text
    BY DEF FrameSize, HeaderSize
  <2>4. QED
    BY <2>1, <2>2, <2>3
<1>6. st2[1] = 0
  <2>1. 1 \in 1 .. N + 1
    BY <1>0
  <2>2. QED
    BY <1>2, <1>4, <2>1
<1>7. ASSUME NEW n \in 1 .. N + 1 PROVE st2[n + 1] = st2[n] + FrameSize(n)'
  <2>1. CASE n \in 1 .. N
    <3>1. n \in 1 .. N + 1 /\ n + 1 \in 1 .. N + 1
      BY <1>0, <2>1
    <3>2. QED
      BY <1>2, <1>4, <1>5, <2>1, <3>1
  <2>2. CASE n = N + 1
    <3>1. n + 1 = N + 2 /\ N + 1 \in 1 .. N + 1
      BY <1>0, <2>2
    <3>2. st2[N + 1] = Len(h)
      BY <1>2, <1>4, <3>1
    <3>3. FrameSize(n)' = 3 + k
      BY <1>5, <2>2
    <3>4. st2[n + 1] = Len(h) + 3 + k /\ st2[n] = Len(h)
      BY <1>3, <1>4, <2>2, <3>1, <3>2
    <3>5. QED
      BY <1>2, <3>3, <3>4
  <2>3. QED
    BY <1>0, <2>1, <2>2
<1>8. ASSUME NEW a \in 1 .. N + 2, NEW b \in 1 .. N + 2, a < b PROVE st2[a] < st2[b]
  <2>1. a \in 1 .. N + 1
    BY <1>0, <1>8
  <2>2. st2[a] = st[a] /\ st[a] \in Nat
    BY <1>2, <1>4, <2>1
  <2>3. CASE b \in 1 .. N + 1
    BY <1>2, <1>4, <1>8, <2>1, <2>3
  <2>4. CASE b = N + 2
    <3>1. st[a] <= Len(h)
      <4>1. CASE a = N + 1
        BY <1>2, <4>1
      <4>2. CASE a < N + 1
        <5>1. N + 1 \in 1 .. N + 1
          BY <1>0
        <5>2. st[a] < st[N + 1]
          BY <1>2, <2>1, <4>2, <5>1
        <5>3. QED
          BY <1>2, <2>2, <5>2
      <4>3. QED
        BY <1>0, <2>1, <4>1, <4>2
    <3>2. QED
      BY <1>2, <1>3, <1>4, <2>2, <2>4, <3>1
  <2>5. QED
    BY <1>0, <2>3, <2>4
<1>9. ASSUME NEW q \in 1 .. Len(h2) PROVE \E n \in 1 .. N + 1 : st2[n] < q /\ q <= st2[n + 1]
  <2>1. CASE q <= Len(h)
    <3>1. q \in 1 .. Len(h)
      BY <1>2, <1>3, <2>1
    <3>2. PICK n \in 1 .. N : st[n] < q /\ q <= st[n + 1]
      BY <1>2, <3>1
    <3>3. n \in 1 .. N + 1 /\ n + 1 \in 1 .. N + 1
      BY <1>0
    <3>4. st2[n] = st[n] /\ st2[n + 1] = st[n + 1]
      BY <1>4, <3>3
    <3>5. QED
      BY <3>2, <3>3, <3>4
  <2>2. CASE q > Len(h)
    <3>1. N + 1 \in 1 .. N + 1 /\ (N + 1) + 1 = N + 2
      BY <1>0
    <3>2. st2[N + 1] = Len(h) /\ st2[(N + 1) + 1] = Len(h2)
      BY <1>2, <1>4, <3>1
    <3>3. st2[N + 1] < q /\ q <= st2[(N + 1) + 1]
      BY <1>2, <1>3, <2>2, <3>2
    <3>4. QED
      BY <3>1, <3>3
  <2>3. QED
    BY <1>2, <1>3, <2>1, <2>2
<1>10. ASSUME NEW n \in 1 .. N + 1, NEW i \in 1 .. FrameSize(n)'
       PROVE  h2[st2[n] + i] = FrameByte(n, cmds'[n].text, i)
  <2>1. CASE n \in 1 .. N
    <3>1. i \in 1 .. FrameSize(n) /\ n \in 1 .. N + 1 /\ n + 1 \in 1 .. N + 1 /\ i \in Nat
      BY <1>0, <1>5, <2>1
    <3>2. st2[n] = st[n] /\ st[n] \in Nat /\ st[n + 1] \in Nat /\ st[n + 1] = st[n] + FrameSize(n)
      BY <1>2, <1>4, <2>1, <3>1
    <3>3. st[n + 1] <= Len(h)
      <4>1. CASE n + 1 = N + 1
        BY <1>2, <4>1
      <4>2. CASE n + 1 < N + 1
        <5>1. N + 1 \in 1 .. N + 1
          BY <1>0
        <5>2. st[n + 1] < st[N + 1]
          BY <1>2, <3>1, <4>2, <5>1
        <5>3. QED
          BY <1>2, <3>2, <5>2
      <4>3. QED
        BY <1>0, <3>1, <4>1, <4>2
    <3>4. st[n] + i \in 1 .. Len(h)
      <4>1. FrameSize(n) \in Nat /\ Len(h) \in Nat
        BY <1>2, <1>5, <2>1
      <4>2. QED
        BY <3>1, <3>2, <3>3, <4>1
    <3>5. h2[st[n] + i] = h[st[n] + i]
      BY <1>3, <3>4
    <3>6. h[st[n] + i] = FrameByte(n, cmds[n].text, i)
      BY <1>2, <2>1, <3>1
    <3>7. QED
      BY <1>5, <2>1, <3>2, <3>5, <3>6
  <2>2. CASE n = N + 1
    <3>1. st2[n] = Len(h) /\ i \in 1 .. 3 + k
      <4>1. N + 1 \in 1 .. N + 1
        BY <1>0
      <4>2. FrameSize(n)' = 3 + k
        BY <1>5, <2>2, <4>1
      <4>3. QED
        BY <1>2, <1>4, <2>2, <4>1, <4>2
    <3>2. h2[Len(h) + i] = f[i] /\ f[i] = FrameByte(N + 1, k, i)
      BY <1>1, <1>3, <3>1
    <3>3. cmds'[n].text = k
      BY <2>2
    <3>4. QED
      BY <2>2, <3>1, <3>2, <3>3
  <2>3. QED
    BY <1>0, <2>1, <2>2
<1>11. ends' = {st2[n] : n \in 1 .. N + 2}
  <2>1. ends' = {st[n] : n \in 1 .. N + 1} \cup {Len(h2)}
    <3>1. Len(h) + Len(f) = Len(h2)
      <4>1. Len(f) = 3 + k /\ Len(h) \in Nat /\ Len(h2) = Len(h) + 3 + k
        BY <1>1, <1>2, <1>3, Zenon
      <4>2. QED
        BY <4>1
    <3>2. QED
      BY <1>2, <3>1
  <2>2. \A n \in 1 .. N + 2 : n \in 1 .. N + 1 \/ n = N + 2
    BY <1>0
  <2>3. \A n \in 1 .. N + 1 : n \in 1 .. N + 2
    BY <1>0
  <2>4. N + 2 \in 1 .. N + 2
    BY <1>0
  <2>5. PICK E : E = {st2[n] : n \in 1 .. N + 2}
    OBVIOUS
  <2>6. \A n \in 1 .. N + 1 : st2[n] = st[n]
    BY <1>4
  <2>7. st2[N + 2] = Len(h2)
    BY <1>4, <2>4
  <2>8. \A x : x \in E <=> \E n \in 1 .. N + 2 : x = st2[n]
    BY <2>5
  <2>9. \A x : x \in ends' <=> (\E n \in 1 .. N + 1 : x = st[n]) \/ x = Len(h2)
    BY <2>1
  <2>10. \A x : x \in ends' <=> x \in E
    <3>1. ASSUME NEW x \in ends' PROVE x \in E
      <4>1. CASE \E n \in 1 .. N + 1 : x = st[n]
        BY <2>3, <2>6, <2>8, <4>1, Zenon
      <4>2. CASE x = Len(h2)
        BY <2>4, <2>7, <2>8, <4>2, Zenon
      <4>3. QED
        BY <2>9, <4>1, <4>2, Zenon
    <3>2. ASSUME NEW x \in E PROVE x \in ends'
      <4>1. PICK n \in 1 .. N + 2 : x = st2[n]
        BY <2>8, Zenon
      <4>2. CASE n \in 1 .. N + 1
        BY <2>6, <2>9, <4>1, <4>2, Zenon
      <4>3. CASE n = N + 2
        BY <2>7, <2>9, <4>1, <4>3, Zenon
      <4>4. QED
        BY <2>2, <4>2, <4>3, Zenon
    <3>3. QED
      BY <3>1, <3>2, Zenon
  <2>11. ends' = E
    BY <2>10, Zenon
  <2>12. QED
    BY <2>5, <2>11
<1>12. Hist(h2, st2)'
  <2>1. Len(cmds') = N + 1 /\ Len(cmds') + 1 = N + 2
    BY <1>0
  <2>2. /\ \A n \in 1 .. N + 1 : st2[n + 1] = st2[n] + FrameSize(n)'
        /\ \A a, b \in 1 .. N + 2 : a < b => st2[a] < st2[b]
        /\ \A q \in 1 .. Len(h2) : \E n \in 1 .. N + 1 : st2[n] < q /\ q <= st2[n + 1]
        /\ \A n \in 1 .. N + 1 : \A i \in 1 .. FrameSize(n)' :
             h2[st2[n] + i] = FrameByte(n, cmds'[n].text, i)
    BY <1>7, <1>8, <1>9, <1>10, Zenon
  <2>3. /\ h2 \in Seq(Nat) /\ st2 \in [1 .. Len(cmds') + 1 -> Nat]
        /\ st2[1] = 0 /\ st2[Len(cmds') + 1] = Len(h2)
    BY <1>3, <1>4, <1>6, <2>1
  <2>4. \A n : \A i : (FrameByte(n, cmds[n].text, i))' = FrameByte(n, cmds'[n].text, i)
    BY DEF FrameByte, FirstByte, PreChar, LowByte, HighByte
  <2>5. QED
    BY <1>11, <2>1, <2>2, <2>3, <2>4, Zenon DEF Hist
<1>13. QED
  BY <1>4, <1>12 DEF h2
-----------------------------------------------------------------------------
(* A command sent says nothing new of the others.                          *)
LEMMA SendKeeps ==
  ASSUME WireInv, Counters, NEW st, NEW jp, NEW st2, Did(st, jp), Read(st, jp), Whole(st, jp),
         Sends1, NEW N, N = Len(cmds), \A n \in 1 .. N + 1 : st2[n] = st[n],
         UNCHANGED <<sql, jobs, sess, buf, parsed, pc, done, refused, cut, logins>>,
         ends \subseteq ends', cmds'[N + 1].key <= logins
  PROVE  Did(st2, jp)' /\ Read(st2, jp)' /\ Whole(st2, jp)'
<1>0. N \in Nat /\ Len(cmds') = N + 1 /\ \A n \in 1 .. N : cmds'[n] = cmds[n]
  BY DEF Sends1
<1>1. At(jp)' = At(jp)
  BY DEF At
<1>2. \A n \in 1 .. N : /\ n \in 1 .. N + 1 /\ n + 1 \in 1 .. N + 1
                        /\ st2[n] = st[n] /\ st2[n + 1] = st[n + 1]
                        /\ (Overlong(cmds'[n]) <=> Overlong(cmds[n]))
                        /\ FrameSize(n)' = FrameSize(n)
  <2> SUFFICES ASSUME NEW n \in 1 .. N
               PROVE  /\ n \in 1 .. N + 1 /\ n + 1 \in 1 .. N + 1
                      /\ st2[n] = st[n] /\ st2[n + 1] = st[n + 1]
                      /\ (Overlong(cmds'[n]) <=> Overlong(cmds[n]))
                      /\ FrameSize(n)' = FrameSize(n)
    OBVIOUS
  <2>1. n \in 1 .. N + 1 /\ n + 1 \in 1 .. N + 1
    BY <1>0
  <2>2. cmds'[n] = cmds[n]
    BY <1>0
  <2>3. QED
    BY <2>1, <2>2, Zenon DEF FrameSize
<1>3. \A n \in 1 .. N + 1 : cmds'[n].key <= logins
  <2>1. \A n \in 1 .. N : cmds[n].key <= logins
    BY DEF Did
  <2>2. \A n \in 1 .. N + 1 : n \in 1 .. N \/ n = N + 1
    BY <1>0
  <2>3. QED
    BY <1>0, <2>1, <2>2
<1>4. Did(st2, jp)'
  <2>1. \A i \in 1 .. Len(done) : done[i] \in 1 .. N /\ i <= done[i] /\ st[done[i] + 1] <= At(jp)
                                   /\ ~Overlong(cmds[done[i]])
    BY DEF Did
  <2>2. \A i \in 1 .. Len(done) : done[i] \in 1 .. N + 1 /\ i <= done[i] /\ st2[done[i] + 1] <= At(jp)
                                   /\ ~Overlong(cmds'[done[i]])
    BY <1>2, <2>1
  <2>3. /\ done' = done /\ logins' = logins /\ sess' = sess
        /\ done \in Seq(Nat) /\ (\A i, j \in 1 .. Len(done) : i < j => done[i] < done[j])
        /\ logins <= Len(done) /\ sess.key = logins /\ (~sql' => logins = 0)
    BY DEF Did
  <2>4. QED
    BY <1>0, <1>1, <1>3, <2>2, <2>3, Zenon DEF Did, Overlong
<1>5. (SomeOverlong => SomeOverlong') /\ (SomeUnknown => SomeUnknown') /\ (ThrowCause => ThrowCause')
  BY OverlongKeeps, UnknownKeeps, CauseKeeps
<1>6. Good' => Good
  BY <1>5 DEF Good
<1>7. Read(st2, jp)'
  <2>1. parsed' = parsed /\ pc' = pc /\ buf' = buf
    OBVIOUS
  <2>2. parsed.cmd \in 0 .. N /\ (pc = "thrown" => ThrowCause)
    BY DEF Read
  <2>3. parsed'.cmd \in 0 .. N + 1
    BY <1>0, <2>1, <2>2
  <2>4. ASSUME Found(st, jp) PROVE Found(st2, jp)'
    <3>1. PICK n : n = parsed.cmd
      OBVIOUS
    <3>2. /\ n \in 1 .. N /\ st[n] = At(jp) /\ parsed.size = FrameSize(n)
          /\ parsed.size <= Len(buf.bytes) /\ ~Overlong(cmds[n])
      BY <2>4, <3>1 DEF Found
    <3>3. /\ n \in 1 .. Len(cmds') /\ st2[n] = At(jp)' /\ parsed'.size = FrameSize(n)'
          /\ parsed'.size <= Len(buf'.bytes) /\ ~Overlong(cmds'[n])
      BY <1>0, <1>1, <1>2, <2>1, <3>2
    <3>4. parsed'.cmd = n
      BY <2>1, <3>1
    <3>5. QED
      BY <3>3, <3>4, Zenon DEF Found, Overlong, FrameSize
  <2>5. pc = "switch" => /\ parsed.err = "SUCCESS" => Found(st, jp)
                         /\ parsed.err = "THROW" => SomeOverlong
                         /\ Good => parsed.err = "SUCCESS"
    BY DEF Read
  <2>6. QED
    BY <1>0, <1>5, <1>6, <2>1, <2>2, <2>3, <2>4, <2>5, Zenon DEF Read
<1>8. Whole(st2, jp)'
  <2> SUFFICES ASSUME Good'
               PROVE  /\ refused' => LoginRefused'
                      /\ \A i \in 1 .. Len(jobs') + 1 : jp[i] \in ends'
                      /\ \E m \in 1 .. Len(cmds') + 1 :
                           /\ st2[m] = At(jp)' /\ (sql' => logins' = Cardinality(LoginsBefore(m)'))
                           /\ \A n \in 1 .. m - 1 : (Ran(n) \/ StaleKey(n))'
    BY Zenon DEF Whole
  <2>1. /\ (refused => LoginRefused) /\ \A i \in 1 .. Len(jobs) + 1 : jp[i] \in ends
        /\ \E m \in 1 .. N + 1 :
             /\ st[m] = At(jp) /\ (sql => logins = Cardinality(LoginsBefore(m)))
             /\ \A n \in 1 .. m - 1 : Ran(n) \/ StaleKey(n)
    BY <1>6 DEF Whole
  <2>2. PICK m \in 1 .. N + 1 :
             /\ st[m] = At(jp) /\ (sql => logins = Cardinality(LoginsBefore(m)))
             /\ \A n \in 1 .. m - 1 : Ran(n) \/ StaleKey(n)
    BY <2>1
  <2>3. m \in 1 .. Len(cmds') + 1 /\ st2[m] = At(jp)'
    BY <1>0, <1>1, <2>2
  <2>4. LoginsBefore(m)' = LoginsBefore(m)
    BY LoginsKeep
  <2>5. \A n \in 1 .. m - 1 : (Ran(n) \/ StaleKey(n))'
    <3> SUFFICES ASSUME NEW n \in 1 .. m - 1 PROVE (Ran(n) \/ StaleKey(n))'
      OBVIOUS
    <3>1. n \in 1 .. Len(cmds)
      BY <1>0
    <3>2. StaleKey(n) => StaleKey(n)'
      BY <3>1, StaleKeeps
    <3>3. Ran(n) => Ran(n)'
      BY DEF Ran
    <3>4. QED
      BY <2>2, <3>2, <3>3
  <2>6. LoginRefused => LoginRefused'
    <3>1. \A i \in 1 .. Len(done) : done[i] \in 1 .. Len(cmds)
      BY DEF Did
    <3>2. QED
      BY <3>1, RefusalKeeps
  <2>7. QED
    BY <2>1, <2>2, <2>3, <2>4, <2>5, <2>6
<1>9. QED
  BY <1>4, <1>7, <1>8

(* The client sends a command.                                             *)
LEMMA PeerSendGhosts ==
  ASSUME WireInv, NEW h, NEW st, NEW jp, Ghosts(h, st, jp),
         NEW p \in Sends, NEW key \in 0 .. logins, PeerSend(p[1], p[2], key)
  PROVE  \E h2, st2, jp2 : Ghosts(h2, st2, jp2)'
<1>0. Counters /\ Hist(h, st) /\ Flow(h, jp) /\ Did(st, jp) /\ Read(st, jp) /\ Whole(st, jp)
  BY DEF Ghosts
<1>1. PICK N \in Nat : N = Len(cmds)
  BY DEF WireInv
<1>2. PICK kind : kind = p[1]
  OBVIOUS
<1>3. PICK len \in Nat : len = p[2] /\ len > 0
  BY SendsAssumption
<1>4. kind \in CmdKinds /\ key \in Nat /\ key <= logins
  BY <1>2, SendsAssumption DEF WireInv
<1>5. PICK ser : ser = IF kind \in Wraps THEN Sealed(N + 1, len, key) ELSE <<>>
  OBVIOUS
<1>6. PICK text : text = IF kind \in Wraps THEN Base64Size(Len(ser)) ELSE len
  OBVIOUS
<1>7. PICK f : f = FormatCmd(Text(N + 1, text))
  OBVIOUS
<1>8. PICK cmd : cmd = [kind |-> kind, len |-> len, key |-> key, text |-> text, ser |-> ser]
  OBVIOUS
<1>9. /\ N < MaxCmds /\ cmds' = Append(cmds, cmd) /\ stream' = stream \o f
      /\ ends' = ends \cup {taken + Len(stream) + Len(f)}
      /\ UNCHANGED <<sql, taken, readbuffer, jobs, sess, state, buf, parsed, pc, done, refused, cut, logins>>
  BY <1>1, <1>2, <1>3, <1>5, <1>6, <1>7, <1>8, Zenon DEF PeerSend
<1>10. text \in Nat /\ text > 0
  <2>1. CASE kind \in Wraps
    <3>1. PICK g : g = FormatCmd(Text(N + 1, len))
      OBVIOUS
    <3>2. g \in Seq(Nat) /\ Len(g) = HeaderSize + len
      BY <3>1, FrameBytes
    <3>3. g \in Seq(Int) /\ Left \in [1 .. BlockSize -> Int] /\ key \in Int /\ Len(g) \in Nat
      <4>1. g \in Seq(Int)
        BY <3>2
      <4>2. Len(g) \in Nat
        BY <3>2
      <4>3. QED
        BY <1>4, <4>1, <4>2 DEF Left, PreChar
    <3>4. ser = AESEncrypt(g, key, Left)
      BY <1>5, <2>1, <3>1 DEF Sealed
    <3>5. ser \in Seq(Int) /\ Len(ser) > Len(g)
      BY <3>3, <3>4, AESUndone
    <3>6. Len(ser) \in Nat /\ Len(ser) > 0
      BY <3>3, <3>5
    <3>7. Base64Size(Len(ser)) \in Nat /\ Base64Size(Len(ser)) >= Len(ser)
      BY <3>6, Base64SizeType, Base64Grows
    <3>8. QED
      BY <1>6, <2>1, <3>6, <3>7
  <2>2. CASE kind \notin Wraps
    BY <1>3, <1>6, <2>2
  <2>3. QED
    BY <2>1, <2>2
<1>11. cmd.kind = kind /\ cmd.len = len /\ cmd.key = key /\ cmd.text = text /\ cmd.ser = ser
  BY <1>8
<1>12. Sends1 /\ cmds'[N + 1] = cmd
  <2>1. cmd \in Command /\ cmds \in Seq(Command)
    <3>1. ser \in Seq(Int)
      BY <1>4, <1>5, SealedType
    <3>2. QED
      BY <1>4, <1>8, <1>10, <3>1 DEF Command, WireInv
  <2>2. /\ Len(Append(cmds, cmd)) = Len(cmds) + 1
        /\ \A i \in 1 .. Len(cmds) : Append(cmds, cmd)[i] = cmds[i]
        /\ Append(cmds, cmd)[Len(cmds) + 1] = cmd
    BY <2>1, AppendProperties
  <2>3. QED
    BY <1>1, <1>9, <2>2 DEF Sends1
<1>13. /\ taken \in Nat /\ Len(stream) \in Nat /\ taken + Len(stream) = Len(h) /\ h \in Seq(Nat)
       /\ Len(h) \in Nat
  BY <1>0, FlowTypes DEF Counters, Flow, Hist
<1>14. f \in Seq(Nat)
  BY <1>1, <1>7, <1>10, FrameBytes
<1>15. PICK st2 : Hist(h \o f, st2)' /\ \A n \in 1 .. N + 1 : st2[n] = st[n]
  <2>1. cmds'[N + 1].text = text /\ ends' = ends \cup {Len(h) + Len(f)}
    BY <1>9, <1>11, <1>12, <1>13
  <2>2. QED
    BY <1>0, <1>1, <1>7, <1>10, <1>12, <2>1, HistSends
<1>16. Did(st2, jp)' /\ Read(st2, jp)' /\ Whole(st2, jp)'
  <2>1. cmds'[N + 1].key <= logins /\ ends \subseteq ends'
    BY <1>4, <1>9, <1>11, <1>12
  <2>2. UNCHANGED <<sql, jobs, sess, buf, parsed, pc, done, refused, cut, logins>>
    BY <1>9
  <2>3. QED
    BY <1>0, <1>1, <1>12, <1>15, <2>1, <2>2, SendKeeps
<1>17. Counters'
  <2>1. Len(cmds') <= MaxCmds /\ Len(cmds') = N + 1 /\ \A n \in 1 .. N : cmds'[n] = cmds[n]
    BY <1>1, <1>9, <1>12, WireBoundsAssumption DEF Sends1
  <2>2. ASSUME NEW n \in 1 .. N + 1 PROVE Sound(n)'
    <3>1. CASE n \in 1 .. N
      <4>1. Sound(n) /\ cmds'[n] = cmds[n]
        BY <1>0, <1>1, <2>1, <3>1 DEF Counters
      <4>2. QED
        BY <4>1, Zenon DEF Sound
    <3>2. CASE n = N + 1
      <4>1. cmds'[n] = cmd
        BY <1>12, <3>2
      <4>2. cmd.len > 0 /\ cmd.text > 0
        BY <1>3, <1>10, <1>11
      <4>3. cmd.kind \in Wraps => cmd.ser = Sealed(n, cmd.len, cmd.key) /\ cmd.text = Base64Size(Len(cmd.ser))
        BY <1>5, <1>6, <1>11, <3>2
      <4>4. QED
        BY <4>1, <4>2, <4>3, Zenon DEF Sound
    <3>3. QED
      BY <3>1, <3>2
  <2>3. UNCHANGED <<sql, taken, state, pc, refused, cut>>
    BY <1>9
  <2>4. QED
    BY <1>0, <2>1, <2>2, <2>3 DEF Counters
<1>18. Flow(h \o f, jp)'
  <2>1. PICK g : g = h \o f
    OBVIOUS
  <2>2. stream \in Seq(Nat) /\ readbuffer.bytes \in Seq(Nat) /\ buf.bytes \in Seq(Nat)
        /\ \A i \in 1 .. Len(jobs) : jobs[i].bytes \in Seq(Nat)
    BY <1>0, FlowTypes
  <2>3. Window(readbuffer.bytes, g, jp[Len(jobs) + 1]) /\ Window(buf.bytes, g, At(jp))
        /\ \A i \in 1 .. Len(jobs) : Window(jobs[i].bytes, g, jp[i])
    BY <1>0, <1>13, <1>14, <2>1, <2>2, WindowLonger DEF Flow
  <2>4. Window(f, g, Len(h))
    <3>1. /\ Len(g) = Len(h) + Len(f) /\ Len(f) \in Nat
          /\ \A i \in 1 .. Len(h) + Len(f) : g[i] = IF i <= Len(h) THEN h[i] ELSE f[i - Len(h)]
      BY <1>13, <1>14, <2>1, ConcatProperties
    <3>2. ASSUME NEW i \in 1 .. Len(f) PROVE f[i] = g[Len(h) + i]
      <4>1. Len(h) + i \in 1 .. Len(h) + Len(f) /\ ~(Len(h) + i <= Len(h)) /\ Len(h) + i - Len(h) = i
        BY <1>13, <3>1
      <4>2. QED
        BY <3>1, <4>1
    <3>3. QED
      BY <1>13, <3>1, <3>2 DEF Window
  <2>5. Window(stream, g, taken)
    BY <1>0, <1>13, <1>14, <2>1, <2>2, WindowLonger DEF Flow
  <2>6. Window(stream', g, taken') /\ Len(stream') = Len(stream) + Len(f)
    BY <1>9, <1>13, <1>14, <2>2, <2>4, <2>5, WindowJoin
  <2>7. taken' + Len(stream') = Len(g)
    <3>1. Len(g) = Len(h) + Len(f) /\ Len(f) \in Nat
      BY <1>13, <1>14, <2>1, ConcatProperties
    <3>2. /\ taken' = taken /\ Len(stream') = Len(stream) + Len(f)
          /\ taken \in Nat /\ Len(stream) \in Nat /\ taken + Len(stream) = Len(h)
      BY <1>9, <1>13, <2>6, Zenon
    <3>3. QED
      BY <3>1, <3>2
  <2>8. UNCHANGED <<readbuffer, jobs, sess, buf, pc, taken>> /\ At(jp)' = At(jp)
    BY <1>9 DEF At
  <2>9. Flow(g, jp)'
    BY <1>0, <2>3, <2>6, <2>7, <2>8 DEF Flow, Window
  <2>10. QED
    BY <2>1, <2>9
<1>19. Ghosts(h \o f, st2, jp)'
  BY <1>15, <1>16, <1>17, <1>18 DEF Ghosts
<1>20. QED
  BY <1>19
-----------------------------------------------------------------------------
(* What a step leaves alone, part by part.                                 *)
LEMMA HistSame ==
  ASSUME NEW h, NEW st, Hist(h, st), UNCHANGED <<cmds, ends>>
  PROVE  Hist(h, st)'
  BY DEF Hist, FrameSize

(* What is known of the commands.                                          *)
LEMMA SoundSame ==
  ASSUME Counters, UNCHANGED cmds
  PROVE  Len(cmds') <= MaxCmds /\ \A n \in 1 .. Len(cmds') : Sound(n)'
  BY DEF Counters, Sound

(* A read that ended inside a frame is never undone.                       *)
LEMMA GoodBefore ==
  ASSUME UNCHANGED cmds, cut' = 0 => cut = 0
  PROVE  Good' => Good
  BY DEF Good, SomeOverlong, SomeUnknown

(* JsonProcess goes forward in the stream, or stays.                       *)
LEMMA DidSame ==
  ASSUME WireInv, NEW h, NEW st, NEW jp, NEW jp2, Hist(h, st), Did(st, jp),
         UNCHANGED <<sql, cmds, done, logins>>, sess'.key = sess.key,
         NEW a \in Nat, a = At(jp), NEW b \in Nat, b = At(jp2)', a <= b
  PROVE  Did(st, jp2)'
<1>1. ASSUME NEW i \in 1 .. Len(done)
      PROVE  /\ done[i] \in 1 .. Len(cmds) /\ i <= done[i]
             /\ st[done[i] + 1] <= b /\ ~Overlong(cmds[done[i]])
  <2>1. /\ done[i] \in 1 .. Len(cmds) /\ i <= done[i]
        /\ st[done[i] + 1] <= a /\ ~Overlong(cmds[done[i]])
    BY DEF Did
  <2>2. st[done[i] + 1] \in Nat
    <3>1. Len(cmds) \in Nat
      BY DEF WireInv
    <3>2. done[i] + 1 \in 1 .. Len(cmds) + 1
      BY <2>1, <3>1
    <3>3. QED
      BY <3>2 DEF Hist
  <2>3. QED
    BY <2>1, <2>2
<1>2. /\ done \in Seq(Nat) /\ (\A i, j \in 1 .. Len(done) : i < j => done[i] < done[j])
      /\ logins <= Len(done) /\ sess.key = logins /\ (~sql' => logins = 0)
      /\ \A n \in 1 .. Len(cmds) : cmds[n].key <= logins
  BY DEF Did
<1>3. cmds' = cmds /\ done' = done /\ logins' = logins
  OBVIOUS
<1>4. QED
  BY <1>1, <1>2, <1>3, Zenon DEF Did, Overlong

(* JsonProcess stays where it is.                                          *)
LEMMA WholeSame ==
  ASSUME NEW st, NEW jp, NEW jp2, Whole(st, jp), UNCHANGED <<sql, cmds, ends, done, logins, refused>>,
         Good' => Good, At(jp2)' = At(jp), Good' => \A i \in 1 .. Len(jobs') + 1 : jp2[i] \in ends
  PROVE  Whole(st, jp2)'
<1> SUFFICES ASSUME Good'
             PROVE  /\ refused' => LoginRefused'
                    /\ \A i \in 1 .. Len(jobs') + 1 : jp2[i] \in ends'
                    /\ \E m \in 1 .. Len(cmds') + 1 :
                         /\ st[m] = At(jp2)' /\ (sql' => logins' = Cardinality(LoginsBefore(m)'))
                         /\ \A n \in 1 .. m - 1 : (Ran(n) \/ StaleKey(n))'
  BY Zenon DEF Whole
<1>1. PICK m \in 1 .. Len(cmds) + 1 :
             /\ st[m] = At(jp) /\ (sql => logins = Cardinality(LoginsBefore(m)))
             /\ \A n \in 1 .. m - 1 : Ran(n) \/ StaleKey(n)
  BY DEF Whole
<1>2. refused' => LoginRefused'
  BY DEF Whole, LoginRefused
<1>3. LoginsBefore(m)' = LoginsBefore(m) /\ \A n : (Ran(n)' <=> Ran(n)) /\ (StaleKey(n)' <=> StaleKey(n))
  BY DEF LoginsBefore, Ran, StaleKey
<1>4. QED
  BY <1>1, <1>2, <1>3

(* JsonProcess is not at a switch: of what ParseCmd returned only the type *)
(* matters.                                                                *)
LEMMA ReadOff ==
  ASSUME NEW st, NEW jp, pc' \notin {"switch", "thrown"}, parsed'.cmd \in 0 .. Len(cmds')
  PROVE  Read(st, jp)'
  BY Zenon DEF Read

(* What ParseCmd has returned stays.                                       *)
LEMMA ReadSame ==
  ASSUME NEW st, NEW jp, NEW jp2, Read(st, jp), UNCHANGED <<cmds, logins, parsed, pc, buf>>,
         Good' => Good, At(jp2)' = At(jp)
  PROVE  Read(st, jp2)'
<1>1. /\ (SomeOverlong' <=> SomeOverlong) /\ (Found(st, jp2)' <=> Found(st, jp))
      /\ (ThrowCause' <=> ThrowCause)
  BY DEF SomeOverlong, Found, FrameSize, ThrowCause, KeyReplaced
<1>2. cmds' = cmds /\ parsed' = parsed /\ pc' = pc
  OBVIOUS
<1>3. QED
  BY <1>1, <1>2, Zenon DEF Read

-----------------------------------------------------------------------------
(* do_read.                                                                *)
LEMMA RecvFullGhosts ==
  ASSUME WireInv, NEW h, NEW st, NEW jp, Ghosts(h, st, jp), RecvFull
  PROVE  Ghosts(h, st, jp)'
<1>0. Counters /\ Hist(h, st) /\ Flow(h, jp) /\ Did(st, jp) /\ Read(st, jp) /\ Whole(st, jp)
  BY DEF Ghosts
<1>1. /\ UNCHANGED <<sql, cmds, ends, jobs, sess, state, buf, parsed, pc, done, refused, cut, logins>>
      /\ Len(stream) > Chunk /\ taken' = taken + Chunk
      /\ readbuffer' = BufferAppend(readbuffer, SubSeq(stream, 1, Chunk))
      /\ stream' = SubSeq(stream, Chunk + 1, Len(stream))
  BY DEF RecvFull
<1>2. At(jp)' = At(jp) /\ At(jp) \in Nat
  BY <1>0, <1>1, FlowTypes DEF At
<1>3. Good' => Good
  BY <1>1, GoodBefore
<1>4. Counters'
  <2>1. taken' \in Nat
    BY <1>0, <1>1, WireBoundsAssumption DEF Counters
  <2>2. Len(cmds') <= MaxCmds /\ \A n \in 1 .. Len(cmds') : Sound(n)'
    BY <1>0, <1>1, SoundSame
  <2>3. QED
    BY <1>0, <1>1, <2>1, <2>2 DEF Counters
<1>5. Hist(h, st)' /\ Did(st, jp)' /\ Read(st, jp)'
  <2>1. Hist(h, st)'
    BY <1>0, <1>1, HistSame
  <2>2. PICK a \in Nat : a = At(jp) /\ a = At(jp)' /\ a <= a
    BY <1>2
  <2>3. sess'.key = sess.key /\ UNCHANGED <<sql, cmds, done, logins>>
    BY <1>1
  <2>4. Did(st, jp)'
    BY <1>0, <2>2, <2>3, DidSame
  <2>5. QED
    BY <1>0, <1>1, <1>2, <1>3, <2>1, <2>4, ReadSame
<1>6. Whole(st, jp)'
  <2>1. Good => \A i \in 1 .. Len(jobs) + 1 : jp[i] \in ends
    BY <1>0 DEF Whole
  <2>2. QED
    BY <1>0, <1>1, <1>2, <1>3, <2>1, WholeSame
<1>7. Flow(h, jp)'
  <2>1. h \in Seq(Nat) /\ stream \in Seq(Nat) /\ Window(stream, h, taken) /\ Len(stream) \in Nat
        /\ Chunk \in Nat /\ Chunk <= Len(stream)
    <3>1. h \in Seq(Nat)
      BY <1>0 DEF Hist
    <3>2. Window(stream, h, taken)
      BY <1>0 DEF Flow
    <3>3. stream \in Seq(Nat) /\ Len(stream) \in Nat
      BY <1>0, FlowTypes
    <3>4. Chunk \in Nat /\ Chunk <= Len(stream)
      BY <1>1, <3>3, WireBoundsAssumption
    <3>5. QED
      BY <3>1, <3>2, <3>3, <3>4
  <2>2. PICK a : a = SubSeq(stream, 1, Chunk)
    OBVIOUS
  <2>3. /\ Window(a, h, taken) /\ Len(a) = Chunk /\ a \in Seq(Nat)
        /\ Window(stream', h, taken') /\ Len(stream') = Len(stream) - Chunk
    BY <1>1, <2>1, <2>2, WindowParts
  <2>4. readbuffer'.bytes = readbuffer.bytes \o a
    BY <1>1, <2>2 DEF BufferAppend
  <2>5. PICK q : q = jp[Len(jobs) + 1]
    OBVIOUS
  <2>6. /\ Window(readbuffer.bytes, h, q) /\ q + Len(readbuffer.bytes) = taken
        /\ readbuffer.bytes \in Seq(Nat) /\ Len(readbuffer.bytes) \in Nat /\ q \in Nat
    BY <1>0, <2>5, FlowTypes DEF Flow, Window
  <2>7. Window(readbuffer'.bytes, h, q) /\ Len(readbuffer'.bytes) = Len(readbuffer.bytes) + Chunk
    BY <2>3, <2>4, <2>6, WindowJoin
  <2>8. q + Len(readbuffer'.bytes) = taken' /\ taken' + Len(stream') = Len(h)
    <3>1. taken + Len(stream) = Len(h) /\ taken \in Nat
      BY <1>0 DEF Flow, Counters
    <3>2. /\ taken' = taken + Chunk /\ Len(stream') = Len(stream) - Chunk
          /\ Len(readbuffer'.bytes) = Len(readbuffer.bytes) + Chunk
          /\ q + Len(readbuffer.bytes) = taken
          /\ Chunk \in Nat /\ Len(stream) \in Nat /\ Len(readbuffer.bytes) \in Nat /\ q \in Nat
      BY <1>1, <2>1, <2>3, <2>6, <2>7, Zenon
    <3>3. QED
      BY <3>1, <3>2
  <2>9. jobs' = jobs /\ buf' = buf /\ pc' = pc /\ sess' = sess
    BY <1>1
  <2>10. QED
    BY <1>0, <1>2, <2>3, <2>5, <2>7, <2>8, <2>9 DEF Flow, Window
<1>8. QED
  BY <1>4, <1>5, <1>6, <1>7 DEF Ghosts

(* The last read of a job: the jobs grow by one.                           *)
LEMMA RecvLastGhosts ==
  ASSUME WireInv, NEW h, NEW st, NEW jp, Ghosts(h, st, jp),
         NEW k \in 1 .. Chunk, k <= Len(stream), RecvLast(k)
  PROVE  \E jp2 : Ghosts(h, st, jp2)'
<1>0. Counters /\ Hist(h, st) /\ Flow(h, jp) /\ Did(st, jp) /\ Read(st, jp) /\ Whole(st, jp)
  BY DEF Ghosts
<1>1. /\ UNCHANGED <<sql, cmds, ends, sess, state, buf, parsed, pc, done, refused, logins>>
      /\ taken' = taken + k /\ readbuffer' = NewBuffer
      /\ jobs' = Append(jobs, BufferAppend(readbuffer, SubSeq(stream, 1, k)))
      /\ stream' = SubSeq(stream, k + 1, Len(stream))
      /\ \/ taken + k \in ends /\ cut' = cut
         \/ taken + k \notin ends /\ cut < MaxCuts /\ cut' = cut + 1
  BY DEF RecvLast
<1>2. k \in Nat /\ k > 0 /\ cut \in 0 .. MaxCuts /\ MaxCuts \in Nat /\ taken \in Nat
  BY <1>0, WireBoundsAssumption DEF Counters
<1>3. PICK J \in Nat : J = Len(jobs)
  BY <1>0, FlowTypes
<1>4. PICK t \in Nat : t = taken + k
  BY <1>2
<1>5. PICK jp2 : jp2 = [i \in 1 .. J + 2 |-> IF i = J + 2 THEN t ELSE jp[i]]
  OBVIOUS
<1>6. /\ jp2 \in [1 .. J + 2 -> Nat] /\ jp2[J + 2] = t
      /\ \A i \in 1 .. J + 1 : jp2[i] = jp[i] /\ jp[i] \in Nat
  <2>1. \A i \in 1 .. J + 1 : jp[i] \in Nat /\ i \in 1 .. J + 2 /\ i # J + 2
    BY <1>0, <1>3, FlowTypes
  <2>2. \A i \in 1 .. J + 2 : i = J + 2 \/ i \in 1 .. J + 1
    OBVIOUS
  <2>3. J + 2 \in 1 .. J + 2
    OBVIOUS
  <2>4. QED
    BY <1>5, <2>1, <2>2, <2>3
<1>7. At(jp2)' = At(jp) /\ At(jp) \in Nat
  <2>1. 1 \in 1 .. J + 1
    OBVIOUS
  <2>2. jp2[1] = jp[1]
    BY <1>6, <2>1
  <2>3. QED
    BY <1>0, <1>1, <2>2, FlowTypes DEF At
<1>8. Good' => Good
  <2>1. cut' = 0 => cut = 0
    BY <1>1, <1>2
  <2>2. QED
    BY <1>1, <2>1, GoodBefore
<1>9. PICK a : a = SubSeq(stream, 1, k)
  OBVIOUS
<1>10. PICK b : b = BufferAppend(readbuffer, a)
  OBVIOUS
<1>11. /\ Window(a, h, taken) /\ Len(a) = k /\ a \in Seq(Nat)
       /\ Window(stream', h, t) /\ Len(stream') = Len(stream) - k /\ Len(stream) \in Nat
  <2>1. h \in Seq(Nat) /\ stream \in Seq(Nat) /\ Window(stream, h, taken) /\ Len(stream) \in Nat
    BY <1>0, FlowTypes DEF Flow, Hist
  <2>2. QED
    BY <1>1, <1>2, <1>4, <1>9, <2>1, WindowParts
<1>12. b \in FitBuffers
  BY <1>10, <1>11, FitAppend DEF WireInv
<1>13. /\ Len(jobs') = J + 1 /\ jobs'[J + 1] = b
       /\ \A i \in 1 .. J : jobs'[i] = jobs[i]
  <2>1. jobs \in Seq(FitBuffers) /\ jobs' = Append(jobs, b)
    BY <1>1, <1>9, <1>10 DEF WireInv
  <2>2. QED
    BY <1>3, <1>12, <2>1, AppendProperties
<1>14. Counters'
  <2>1. taken' \in Nat /\ cut' \in 0 .. MaxCuts
    BY <1>1, <1>2
  <2>2. Len(cmds') <= MaxCmds /\ \A n \in 1 .. Len(cmds') : Sound(n)'
    BY <1>0, <1>1, SoundSame
  <2>3. QED
    BY <1>0, <1>1, <2>1, <2>2 DEF Counters
<1>15. Hist(h, st)' /\ Did(st, jp2)' /\ Read(st, jp2)'
  <2>1. Hist(h, st)'
    BY <1>0, <1>1, HistSame
  <2>2. PICK c \in Nat : c = At(jp) /\ c = At(jp2)' /\ c <= c
    BY <1>7
  <2>3. sess'.key = sess.key /\ UNCHANGED <<sql, cmds, done, logins>>
    BY <1>1
  <2>4. Did(st, jp2)'
    BY <1>0, <2>2, <2>3, DidSame
  <2>5. QED
    BY <1>0, <1>1, <1>7, <1>8, <2>1, <2>4, ReadSame
<1>16. Whole(st, jp2)'
  <2>1. Good => \A i \in 1 .. J + 1 : jp[i] \in ends
    BY <1>0, <1>3 DEF Whole
  <2>2. Good' => t \in ends
    <3>1. Good' => cut' = 0
      BY DEF Good
    <3>2. QED
      BY <1>1, <1>2, <1>4, <3>1
  <2>3. Good' => \A i \in 1 .. Len(jobs') + 1 : jp2[i] \in ends
    <3> SUFFICES ASSUME Good', NEW i \in 1 .. J + 2 PROVE jp2[i] \in ends
      BY <1>13
    <3>1. CASE i = J + 2
      BY <1>6, <2>2, <3>1
    <3>2. CASE i \in 1 .. J + 1
      BY <1>6, <1>8, <2>1, <3>2
    <3>3. QED
      BY <3>1, <3>2
  <2>4. QED
    BY <1>0, <1>1, <1>7, <1>8, <2>3, WholeSame
<1>17. Flow(h, jp2)'
  <2>1. b.bytes = readbuffer.bytes \o a
    BY <1>10 DEF BufferAppend
  <2>2. PICK q : q = jp[J + 1]
    OBVIOUS
  <2>3. /\ Window(readbuffer.bytes, h, q) /\ q + Len(readbuffer.bytes) = taken
        /\ readbuffer.bytes \in Seq(Nat) /\ Len(readbuffer.bytes) \in Nat /\ q \in Nat
    BY <1>0, <1>3, <2>2, FlowTypes DEF Flow, Window
  <2>4. Window(b.bytes, h, q) /\ Len(b.bytes) = Len(readbuffer.bytes) + k
    BY <1>11, <2>1, <2>3, WindowJoin
  <2>5. t = q + Len(b.bytes) /\ Len(b.bytes) > 0
    <3>1. /\ t = taken + k /\ q + Len(readbuffer.bytes) = taken
          /\ Len(b.bytes) = Len(readbuffer.bytes) + k
          /\ k \in Nat /\ k > 0 /\ Len(readbuffer.bytes) \in Nat /\ q \in Nat
      BY <1>2, <1>4, <2>3, <2>4, Zenon
    <3>2. QED
      BY <3>1
  <2>6. \A i \in 1 .. J + 1 :
          /\ jp2[i + 1] = jp2[i] + Len(jobs'[i].bytes)
          /\ Len(jobs'[i].bytes) > 0 /\ Window(jobs'[i].bytes, h, jp2[i])
    <3> SUFFICES ASSUME NEW i \in 1 .. J + 1
                 PROVE  /\ jp2[i + 1] = jp2[i] + Len(jobs'[i].bytes)
                        /\ Len(jobs'[i].bytes) > 0 /\ Window(jobs'[i].bytes, h, jp2[i])
      OBVIOUS
    <3>1. CASE i \in 1 .. J
      <4>1. i \in 1 .. J + 1 /\ i + 1 \in 1 .. J + 1
        BY <3>1
      <4>2. jp2[i] = jp[i] /\ jp2[i + 1] = jp[i + 1] /\ jobs'[i] = jobs[i]
        BY <1>6, <1>13, <3>1, <4>1
      <4>3. /\ jp[i + 1] = jp[i] + Len(jobs[i].bytes)
            /\ Len(jobs[i].bytes) > 0 /\ Window(jobs[i].bytes, h, jp[i])
        BY <1>0, <1>3, <3>1 DEF Flow
      <4>4. QED
        BY <4>2, <4>3
    <3>2. CASE i = J + 1
      <4>1. jp2[i] = q /\ jp2[i + 1] = t /\ jobs'[i] = b
        <5>1. i + 1 = J + 2
          BY <3>2
        <5>2. QED
          BY <1>6, <1>13, <2>2, <3>2, <5>1
      <4>2. QED
        BY <2>4, <2>5, <4>1
    <3>3. QED
      BY <3>1, <3>2
  <2>7. jp2[J + 2] + Len(readbuffer'.bytes) = taken' /\ taken' = t
    <3>1. readbuffer'.bytes = <<>> /\ Len(<<>>) = 0 /\ taken' = t
      BY <1>1, <1>4 DEF NewBuffer
    <3>2. QED
      BY <1>6, <3>1
  <2>8. t + Len(stream') = Len(h)
    <3>1. taken + Len(stream) = Len(h)
      BY <1>0 DEF Flow
    <3>2. QED
      BY <1>2, <1>4, <1>11, <3>1
  <2>9. Window(readbuffer'.bytes, h, jp2[J + 2])
    <3>1. readbuffer'.bytes = <<>> /\ jp2[J + 2] = t
      BY <1>1, <1>6 DEF NewBuffer
    <3>2. h \in Seq(Nat) /\ t <= Len(h)
      BY <1>0, <1>11, <2>8 DEF Hist
    <3>3. QED
      BY <3>1, <3>2, WindowEmpty
  <2>10. Len(jobs') = J + 1 /\ Len(jobs') + 1 = J + 2
    BY <1>13
  <2>11. buf' = buf /\ pc' = pc /\ sess' = sess
    BY <1>1
  <2>12. /\ Window(buf.bytes, h, At(jp2)')
         /\ pc # "idle" => Len(buf.bytes) > 0
         /\ pc = "idle" => buf = NewBuffer
         /\ sess.readbuffer.bytes = <<>>
    BY <1>0, <1>7 DEF Flow
  <2>13. /\ Window(stream', h, taken') /\ taken' + Len(stream') = Len(h)
         /\ jp2 \in [1 .. Len(jobs') + 1 -> Nat]
         /\ jp2[Len(jobs') + 1] + Len(readbuffer'.bytes) = taken'
         /\ Window(readbuffer'.bytes, h, jp2[Len(jobs') + 1])
    BY <1>6, <1>11, <2>7, <2>8, <2>9, <2>10
  <2>14. QED
    BY <2>6, <2>10, <2>11, <2>12, <2>13, Zenon DEF Flow, Window
<1>18. Ghosts(h, st, jp2)'
  BY <1>14, <1>15, <1>16, <1>17 DEF Ghosts
<1>19. QED
  BY <1>18
-----------------------------------------------------------------------------
(* JsonProcess takes a job: the session's readbuffer was empty, so that    *)
(* the buffer begins where the job does.                                   *)
LEMMA TakeJobGhosts ==
  ASSUME WireInv, NEW h, NEW st, NEW jp, Ghosts(h, st, jp), TakeJob
  PROVE  \E jp2 : Ghosts(h, st, jp2)'
<1>0. Counters /\ Hist(h, st) /\ Flow(h, jp) /\ Did(st, jp) /\ Read(st, jp) /\ Whole(st, jp)
  BY DEF Ghosts
<1>1. /\ UNCHANGED <<sql, cmds, stream, taken, ends, readbuffer, sess, parsed, done, refused, cut, logins>>
      /\ pc = "idle" /\ pc' = "loop" /\ jobs # <<>> /\ jobs' = Tail(jobs)
      /\ state' \in {"none", "live", "gone"}
  BY DEF TakeJob, inVars
<1>2. PICK J \in Nat : J = Len(jobs) - 1 /\ Len(jobs) = J + 1
  <2>1. jobs \in Seq(FitBuffers) /\ Len(jobs) \in Nat
    BY DEF WireInv
  <2>2. Len(jobs) # 0
    BY <1>1, <2>1
  <2>3. QED
    BY <2>1, <2>2
<1>3. /\ Len(jobs') = J /\ Head(jobs) = jobs[1]
      /\ \A i \in 1 .. J : jobs'[i] = jobs[i + 1]
  <2>1. jobs \in Seq(FitBuffers) /\ jobs' = Tail(jobs)
    BY <1>1 DEF WireInv
  <2>2. QED
    BY <1>1, <1>2, <2>1, HeadTailProperties
<1>4. PICK g : g = jobs[1].bytes
  OBVIOUS
<1>5. PICK jp2 : jp2 = [i \in 1 .. J + 1 |-> jp[i + 1]]
  OBVIOUS
<1>6. (\A i \in 1 .. J + 2 : jp[i] \in Nat) /\ jp[1] \in Nat
  BY <1>0, <1>2, FlowTypes
<1>7. jp2 \in [1 .. J + 1 -> Nat] /\ \A i \in 1 .. J + 1 : jp2[i] = jp[i + 1]
  <2>1. \A i \in 1 .. J + 1 : i + 1 \in 1 .. J + 2
    OBVIOUS
  <2>2. QED
    BY <1>5, <1>6, <2>1
<1>8. /\ jp[2] = jp[1] + Len(g) /\ Len(g) > 0 /\ Window(g, h, jp[1])
      /\ g \in Seq(Nat) /\ Len(g) \in Nat
  <2>1. 1 \in 1 .. Len(jobs) /\ 1 + 1 = 2
    BY <1>2
  <2>2. /\ jp[1 + 1] = jp[1] + Len(jobs[1].bytes) /\ Len(jobs[1].bytes) > 0
        /\ Window(jobs[1].bytes, h, jp[1])
    BY <1>0, <2>1 DEF Flow
  <2>3. jobs[1].bytes \in Seq(Nat) /\ Len(jobs[1].bytes) \in Nat
    BY <1>0, <2>1, FlowTypes
  <2>4. QED
    BY <1>4, <2>1, <2>2, <2>3
<1>9. buf'.bytes = g
  <2>1. sess.readbuffer.bytes = <<>>
    BY <1>0 DEF Flow
  <2>2. BufferAppend(sess.readbuffer, g).bytes = <<>> \o g
    BY <2>1 DEF BufferAppend
  <2>3. <<>> \o g = g
    BY <1>8
  <2>4. buf' = BufferAppend(sess.readbuffer, g) \/ buf' = jobs[1]
    BY <1>3, <1>4 DEF TakeJob
  <2>5. QED
    BY <1>4, <2>2, <2>3, <2>4
<1>10. At(jp2)' = jp[1] /\ At(jp) = jp[1]
  <2>1. jp2[1] = jp[2]
    <3>1. 1 \in 1 .. J + 1 /\ 1 + 1 = 2
      OBVIOUS
    <3>2. jp2[1] = jp[1 + 1]
      BY <1>7, <3>1
    <3>3. QED
      BY <3>1, <3>2
  <2>2. buf.bytes = <<>>
    BY <1>0, <1>1 DEF Flow, NewBuffer
  <2>3. jp[2] - Len(g) = jp[1] /\ jp[1] - 0 = jp[1]
    BY <1>6, <1>8
  <2>4. Len(buf.bytes) = 0
    BY <2>2
  <2>5. QED
    BY <1>9, <2>1, <2>3, <2>4 DEF At
<1>11. Good' => Good
  BY <1>1, GoodBefore
<1>12. Counters'
  <2>1. Len(cmds') <= MaxCmds /\ \A n \in 1 .. Len(cmds') : Sound(n)'
    BY <1>0, <1>1, SoundSame
  <2>2. QED
    BY <1>0, <1>1, <2>1 DEF Counters
<1>13. Hist(h, st)' /\ Did(st, jp2)' /\ Read(st, jp2)'
  <2>1. Hist(h, st)'
    BY <1>0, <1>1, HistSame
  <2>2. PICK c \in Nat : c = At(jp) /\ c = At(jp2)' /\ c <= c
    BY <1>6, <1>10
  <2>3. sess'.key = sess.key /\ UNCHANGED <<sql, cmds, done, logins>>
    BY <1>1
  <2>4. Did(st, jp2)'
    BY <1>0, <2>2, <2>3, DidSame
  <2>5. pc' \notin {"switch", "thrown"} /\ parsed'.cmd \in 0 .. Len(cmds')
    BY <1>0, <1>1 DEF Read
  <2>6. QED
    BY <2>1, <2>4, <2>5, ReadOff
<1>14. Whole(st, jp2)'
  <2>1. Good => \A i \in 1 .. J + 2 : jp[i] \in ends
    BY <1>0, <1>2 DEF Whole
  <2>2. ASSUME Good', NEW i \in 1 .. Len(jobs') + 1 PROVE jp2[i] \in ends
    <3>1. i \in 1 .. J + 1
      BY <1>3
    <3>2. i + 1 \in 1 .. J + 2
      BY <3>1
    <3>3. QED
      BY <1>7, <1>11, <2>1, <2>2, <3>1, <3>2
  <2>3. At(jp2)' = At(jp)
    BY <1>10
  <2>4. QED
    BY <1>0, <1>1, <1>11, <2>2, <2>3, WholeSame
<1>15. Flow(h, jp2)'
  <2>1. \A i \in 1 .. J :
          /\ jp2[i + 1] = jp2[i] + Len(jobs'[i].bytes)
          /\ Len(jobs'[i].bytes) > 0 /\ Window(jobs'[i].bytes, h, jp2[i])
    <3> SUFFICES ASSUME NEW i \in 1 .. J
                 PROVE  /\ jp2[i + 1] = jp2[i] + Len(jobs'[i].bytes)
                        /\ Len(jobs'[i].bytes) > 0 /\ Window(jobs'[i].bytes, h, jp2[i])
      OBVIOUS
    <3>1. PICK j \in 1 .. J + 1 : j = i + 1 /\ i \in 1 .. J + 1
      OBVIOUS
    <3>2. /\ jp[j + 1] = jp[j] + Len(jobs[j].bytes)
          /\ Len(jobs[j].bytes) > 0 /\ Window(jobs[j].bytes, h, jp[j])
      BY <1>0, <1>2 DEF Flow
    <3>3. jp2[j] = jp[j + 1] /\ jp2[i] = jp[j] /\ jobs'[i] = jobs[j]
      BY <1>3, <1>7, <3>1
    <3>4. QED
      BY <3>1, <3>2, <3>3
  <2>2. PICK q : q = jp2[J + 1]
    OBVIOUS
  <2>3. q = jp[Len(jobs) + 1]
    <3>1. J + 1 \in 1 .. J + 1 /\ Len(jobs) + 1 = J + 1 + 1
      BY <1>2
    <3>2. jp2[J + 1] = jp[J + 1 + 1]
      BY <1>7, <3>1
    <3>3. QED
      BY <2>2, <3>1, <3>2
  <2>4. /\ Window(stream, h, taken) /\ taken + Len(stream) = Len(h)
        /\ q + Len(readbuffer.bytes) = taken /\ Window(readbuffer.bytes, h, q)
        /\ sess.readbuffer.bytes = <<>>
    BY <1>0, <2>3 DEF Flow
  <2>5. Len(jobs') = J /\ Len(jobs') + 1 = J + 1
    BY <1>3
  <2>6. Window(buf'.bytes, h, At(jp2)') /\ Len(buf'.bytes) > 0
    BY <1>8, <1>9, <1>10
  <2>7. stream' = stream /\ taken' = taken /\ readbuffer' = readbuffer /\ sess' = sess /\ pc' # "idle"
    BY <1>1
  <2>8. /\ Window(stream', h, taken') /\ taken' + Len(stream') = Len(h)
        /\ jp2 \in [1 .. Len(jobs') + 1 -> Nat]
        /\ jp2[Len(jobs') + 1] + Len(readbuffer'.bytes) = taken'
        /\ Window(readbuffer'.bytes, h, jp2[Len(jobs') + 1])
        /\ sess'.readbuffer.bytes = <<>>
    BY <1>7, <2>2, <2>4, <2>5, <2>7
  <2>9. QED
    BY <2>1, <2>5, <2>6, <2>7, <2>8, Zenon DEF Flow, Window
<1>16. Ghosts(h, st, jp2)'
  BY <1>12, <1>13, <1>14, <1>15 DEF Ghosts
<1>17. QED
  BY <1>16

(* The steps that leave the buffers alone.                                 *)
LEMMA StillGhosts ==
  ASSUME WireInv, NEW h, NEW st, NEW jp, Ghosts(h, st, jp), Read(st, jp)',
         UNCHANGED <<sql, cmds, stream, taken, ends, readbuffer, jobs, sess, state, buf, done, refused, cut, logins>>,
         pc # "idle", pc' \in {"switch", "spin", "thrown"}
  PROVE  Ghosts(h, st, jp)'
<1>0. Counters /\ Hist(h, st) /\ Flow(h, jp) /\ Did(st, jp) /\ Read(st, jp) /\ Whole(st, jp)
  BY DEF Ghosts
<1>1. At(jp)' = At(jp) /\ At(jp) \in Nat
  BY <1>0, FlowTypes DEF At
<1>2. Good' => Good
  BY GoodBefore
<1>3. Counters'
  <2>1. Len(cmds') <= MaxCmds /\ \A n \in 1 .. Len(cmds') : Sound(n)'
    BY <1>0, SoundSame
  <2>2. QED
    BY <1>0, <2>1 DEF Counters
<1>4. Hist(h, st)'
  BY <1>0, HistSame
<1>5. Did(st, jp)'
  <2>1. PICK a \in Nat : a = At(jp) /\ a = At(jp)' /\ a <= a
    BY <1>1
  <2>2. sess'.key = sess.key
    OBVIOUS
  <2>3. QED
    BY <1>0, <2>1, <2>2, DidSame
<1>6. Whole(st, jp)'
  <2>1. Good => \A i \in 1 .. Len(jobs') + 1 : jp[i] \in ends
    BY <1>0 DEF Whole
  <2>2. QED
    BY <1>0, <1>1, <1>2, <2>1, WholeSame
<1>7. Flow(h, jp)'
  <2>1. /\ stream' = stream /\ taken' = taken /\ readbuffer' = readbuffer /\ jobs' = jobs
        /\ sess' = sess /\ buf' = buf /\ pc' # "idle"
    OBVIOUS
  <2>2. /\ Window(stream, h, taken) /\ taken + Len(stream) = Len(h)
        /\ jp \in [1 .. Len(jobs) + 1 -> Nat]
        /\ \A i \in 1 .. Len(jobs) :
             /\ jp[i + 1] = jp[i] + Len(jobs[i].bytes)
             /\ Len(jobs[i].bytes) > 0 /\ Window(jobs[i].bytes, h, jp[i])
        /\ jp[Len(jobs) + 1] + Len(readbuffer.bytes) = taken
        /\ Window(readbuffer.bytes, h, jp[Len(jobs) + 1])
        /\ Window(buf.bytes, h, At(jp))
        /\ Len(buf.bytes) > 0
        /\ sess.readbuffer.bytes = <<>>
    BY <1>0 DEF Flow
  <2>3. At(jp)' = At(jp)
    BY <1>1
  <2>4. /\ Window(stream', h, taken') /\ taken' + Len(stream') = Len(h)
        /\ jp \in [1 .. Len(jobs') + 1 -> Nat]
        /\ \A i \in 1 .. Len(jobs') :
             /\ jp[i + 1] = jp[i] + Len(jobs'[i].bytes)
             /\ Len(jobs'[i].bytes) > 0 /\ Window(jobs'[i].bytes, h, jp[i])
        /\ jp[Len(jobs') + 1] + Len(readbuffer'.bytes) = taken'
        /\ Window(readbuffer'.bytes, h, jp[Len(jobs') + 1])
        /\ Window(buf'.bytes, h, At(jp)')
        /\ Len(buf'.bytes) > 0 /\ pc' # "idle"
        /\ sess'.readbuffer.bytes = <<>>
    BY <2>1, <2>2, <2>3
  <2>5. QED
    BY <2>4, Zenon DEF Flow, Window
<1>8. QED
  BY <1>3, <1>4, <1>5, <1>6, <1>7 DEF Ghosts

(* Parsing a buffer that begins with a frame: while every job ends with a  *)
(* frame, all of the frame is in the buffer.                               *)
LEMMA ParseGhosts ==
  ASSUME WireInv, NEW h, NEW st, NEW jp, Ghosts(h, st, jp), Parse
  PROVE  Ghosts(h, st, jp)'
<1>0. Counters /\ Hist(h, st) /\ Flow(h, jp) /\ Did(st, jp) /\ Read(st, jp) /\ Whole(st, jp)
  BY DEF Ghosts
<1>1. /\ UNCHANGED <<sql, cmds, stream, taken, ends, readbuffer, jobs, sess, state, buf, done, refused, cut, logins>>
      /\ pc = "loop" /\ pc' = "switch" /\ parsed' = ParseCmd(buf.bytes, OuterTexts, Known)
  BY DEF Parse, inVars
<1>2. PICK s : s = buf.bytes
  OBVIOUS
<1>3. PICK p \in Nat : p = At(jp) /\ p = At(jp)'
  BY <1>0, <1>1, FlowTypes DEF At
<1>4. /\ s \in Seq(Nat) /\ Len(s) \in Nat /\ Window(s, h, p) /\ Len(s) > 0
      /\ p + Len(s) = jp[1] /\ jp[1] \in Nat
  <2>1. Window(buf.bytes, h, At(jp)) /\ Len(buf.bytes) > 0
    BY <1>0, <1>1 DEF Flow
  <2>2. QED
    BY <1>0, <1>2, <1>3, <2>1, FlowTypes
<1>5. PICK r : r = ParseCmd(s, OuterTexts, Known) /\ r = parsed'
  BY <1>1, <1>2
<1>6. r.cmd \in 0 .. Len(cmds)
  <2>1. Len(cmds) \in Nat
    BY DEF WireInv
  <2>2. CASE r.err = "SUCCESS"
    <3>1. ParseCmd(s, OuterTexts, Known).err = "SUCCESS"
      BY <1>5, <2>2
    <3>2. ParseCmd(s, OuterTexts, Known).cmd \in 1 .. Len(cmds)
      BY <1>0, <1>4, <3>1, ParsedFrame, Zenon
    <3>3. QED
      BY <1>5, <2>1, <3>2
  <2>3. CASE r.err # "SUCCESS"
    <3>1. LET x == ParseCmd(s, OuterTexts, Known) IN x.err # "SUCCESS" => x.cmd = 0
      BY <1>4, ParseFacts, Zenon
    <3>2. r.cmd = 0
      BY <1>5, <2>3, <3>1, Zenon
    <3>3. QED
      BY <2>1, <3>2
  <2>4. QED
    BY <2>2, <2>3
<1>7. r.err = "SUCCESS" => Found(st, jp)'
  <2> SUFFICES ASSUME r.err = "SUCCESS" PROVE Found(st, jp)'
    OBVIOUS
  <2>1. /\ r.cmd \in 1 .. Len(cmds) /\ st[r.cmd] = p
        /\ r.size = FrameSize(r.cmd) /\ r.size <= Len(s) /\ ~Overlong(cmds[r.cmd])
    <3>1. ParseCmd(s, OuterTexts, Known).err = "SUCCESS"
      BY <1>5
    <3>2. LET x == ParseCmd(s, OuterTexts, Known) IN
          /\ x.cmd \in 1 .. Len(cmds) /\ st[x.cmd] = p
          /\ x.size = FrameSize(x.cmd) /\ x.size <= Len(s) /\ ~Overlong(cmds[x.cmd])
      BY <1>0, <1>4, <3>1, ParsedFrame, Zenon
    <3>3. QED
      BY <1>5, <3>2, Zenon
  <2>2. /\ cmds' = cmds /\ buf'.bytes = s /\ At(jp)' = p /\ parsed' = r
        /\ FrameSize(r.cmd)' = FrameSize(r.cmd)
    BY <1>1, <1>2, <1>3, <1>5 DEF FrameSize
  <2>3. QED
    BY <2>1, <2>2, Zenon DEF Found
<1>8. r.err = "THROW" => SomeOverlong'
  <2>1. r.err = "THROW" => SomeOverlong
    BY <1>0, <1>4, <1>5, ParsedThrow
  <2>2. QED
    BY <1>1, <2>1 DEF SomeOverlong
<1>9. Good' => r.err = "SUCCESS"
  <2> SUFFICES ASSUME Good' PROVE r.err = "SUCCESS"
    OBVIOUS
  <2>1. Good
    BY <1>1, GoodBefore
  <2>2. PICK m \in 1 .. Len(cmds) + 1 : st[m] = p
    BY <1>0, <1>3, <2>1 DEF Whole
  <2>3. jp[1] \in ends
    <3>1. 1 \in 1 .. Len(jobs) + 1
      BY DEF WireInv
    <3>2. QED
      BY <1>0, <2>1, <3>1 DEF Whole
  <2>4. PICK e \in 1 .. Len(cmds) + 1 : st[e] = jp[1]
    BY <1>0, <2>3 DEF Hist
  <2>5. PICK N \in Nat : N = Len(cmds)
    BY DEF WireInv
  <2>6. \A a, b \in 1 .. N + 1 : a < b => st[a] < st[b]
    BY <1>0, <2>5 DEF Hist
  <2>7. st[m] < st[e]
    BY <1>4, <2>2, <2>4
  <2>8. m < e
    <3>1. st[m] \in Nat /\ st[e] \in Nat
      BY <1>3, <1>4, <2>2, <2>4
    <3>2. m \in 1 .. N + 1 /\ e \in 1 .. N + 1
      BY <2>2, <2>4, <2>5
    <3>3. e < m => st[e] < st[m]
      BY <2>6, <3>2
    <3>4. e # m
      BY <2>7, <3>1
    <3>5. ~(e < m)
      BY <2>7, <3>1, <3>3
    <3>6. QED
      BY <3>2, <3>4, <3>5
  <2>9. m \in 1 .. N /\ m + 1 \in 1 .. N + 1 /\ (m + 1 = e \/ m + 1 < e)
    BY <2>4, <2>5, <2>8
  <2>10. st[m + 1] <= st[e] /\ st[m + 1] \in Nat
    <3>1. st[m + 1] \in Nat /\ st[e] \in Nat
      <4>1. st \in [1 .. N + 1 -> Nat]
        BY <1>0, <2>5 DEF Hist
      <4>2. QED
        BY <2>4, <2>5, <2>9, <4>1
    <3>2. m + 1 < e => st[m + 1] < st[e]
      BY <2>4, <2>5, <2>6, <2>9
    <3>3. QED
      BY <2>9, <3>1, <3>2
  <2>11. m \in 1 .. Len(cmds) /\ st[m + 1] = st[m] + FrameSize(m) /\ FrameSize(m) \in Nat
    BY <1>0, <2>5, <2>9, CmdOf DEF Hist
  <2>12. FrameSize(m) <= Len(s)
    <3>1. p + FrameSize(m) <= jp[1]
      BY <2>2, <2>4, <2>10, <2>11
    <3>2. QED
      BY <1>4, <2>11, <3>1
  <2>13. ~Overlong(cmds[m]) /\ ~SomeUnknown /\ Window(s, h, st[m])
    BY <1>4, <2>1, <2>2, <2>11 DEF Good, SomeOverlong
  <2>14. QED
    BY <1>0, <1>4, <1>5, <2>11, <2>12, <2>13, WholeFrame
<1>10. Read(st, jp)'
  <2>1. parsed'.cmd \in 0 .. Len(cmds') /\ pc' = "switch" /\ parsed' = r
    BY <1>1, <1>5, <1>6
  <2>2. QED
    BY <1>7, <1>8, <1>9, <2>1, Zenon DEF Read
<1>11. QED
  BY <1>1, <1>10, StillGhosts
-----------------------------------------------------------------------------
(* JsonProcess goes on with what is left of the buffer, or returns.        *)
LEMMA ReturnDoes ==
  ASSUME NEW b, NEW s, Return(b, s), b.bytes \in Seq(Nat), s.readbuffer.bytes = <<>>,
         s \in [on : BOOLEAN, readbuffer : FitBuffers, key : Nat]
  PROVE  /\ parsed'.cmd = 0 /\ pc' \in {"loop", "idle"}
         /\ sess'.key = s.key /\ sess'.readbuffer.bytes = <<>>
         /\ buf'.bytes = b.bytes
         /\ pc' # "idle" => Len(buf'.bytes) > 0
         /\ pc' = "idle" => buf' = NewBuffer
<1>1. parsed'.cmd = 0
  BY DEF Return, Failed
<1>2. CASE b.bytes # <<>>
  <2>1. buf' = b /\ pc' = "loop" /\ sess' = s
    BY <1>2 DEF Return
  <2>2. Len(b.bytes) > 0
    BY <1>2
  <2>3. QED
    BY <1>1, <2>1, <2>2
<1>3. CASE b.bytes = <<>>
  <2>1. buf' = NewBuffer /\ pc' = "idle" /\ sess' = IF s.on THEN [s EXCEPT !.readbuffer = b] ELSE s
    BY <1>3 DEF Return
  <2>2. sess'.key = s.key /\ sess'.readbuffer.bytes = <<>>
    BY <1>3, <2>1
  <2>3. buf'.bytes = <<>>
    BY <2>1 DEF NewBuffer
  <2>4. QED
    BY <1>1, <1>3, <2>1, <2>2, <2>3
<1>4. QED
  BY <1>2, <1>3

(* The buffer then begins at q.                                            *)
LEMMA ReturnFlow ==
  ASSUME WireInv, NEW h, NEW jp, Flow(h, jp), h \in Seq(Nat),
         UNCHANGED <<stream, taken, readbuffer, jobs>>,
         NEW q, q \in Nat, Window(buf'.bytes, h, q), q + Len(buf'.bytes) = jp[1],
         buf'.bytes \in Seq(Nat), sess'.readbuffer.bytes = <<>>,
         pc' # "idle" => Len(buf'.bytes) > 0, pc' = "idle" => buf' = NewBuffer
  PROVE  Flow(h, jp)' /\ At(jp)' = q
<1>1. jp[1] \in Nat /\ Len(buf'.bytes) \in Nat
  BY FlowTypes
<1>2. At(jp)' = q
  <2>1. jp[1] - Len(buf'.bytes) = q
    BY <1>1
  <2>2. QED
    BY <2>1 DEF At
<1>3. Flow(h, jp)'
  <2>1. stream' = stream /\ taken' = taken /\ readbuffer' = readbuffer /\ jobs' = jobs
    OBVIOUS
  <2>2. /\ Window(stream, h, taken) /\ taken + Len(stream) = Len(h)
        /\ jp \in [1 .. Len(jobs) + 1 -> Nat]
        /\ \A i \in 1 .. Len(jobs) :
             /\ jp[i + 1] = jp[i] + Len(jobs[i].bytes)
             /\ Len(jobs[i].bytes) > 0 /\ Window(jobs[i].bytes, h, jp[i])
        /\ jp[Len(jobs) + 1] + Len(readbuffer.bytes) = taken
        /\ Window(readbuffer.bytes, h, jp[Len(jobs) + 1])
    BY DEF Flow
  <2>3. /\ Window(stream', h, taken') /\ taken' + Len(stream') = Len(h)
        /\ jp \in [1 .. Len(jobs') + 1 -> Nat]
        /\ \A i \in 1 .. Len(jobs') :
             /\ jp[i + 1] = jp[i] + Len(jobs'[i].bytes)
             /\ Len(jobs'[i].bytes) > 0 /\ Window(jobs'[i].bytes, h, jp[i])
        /\ jp[Len(jobs') + 1] + Len(readbuffer'.bytes) = taken'
        /\ Window(readbuffer'.bytes, h, jp[Len(jobs') + 1])
    BY <2>1, <2>2
  <2>4. Window(buf'.bytes, h, At(jp)')
    BY <1>2
  <2>5. QED
    BY <2>3, <2>4, Zenon DEF Flow, Window
<1>4. QED
  BY <1>2, <1>3

(* Consuming the command found: JsonProcess stands behind its frame.       *)
LEMMA ConsumeFlow ==
  ASSUME WireInv, NEW h, NEW st, NEW jp, Ghosts(h, st, jp),
         pc = "switch", parsed.err = "SUCCESS", NEW n, n = parsed.cmd,
         NEW s \in [on : BOOLEAN, readbuffer : FitBuffers, key : Nat], s.readbuffer.bytes = <<>>,
         Consume(s), UNCHANGED <<stream, taken, readbuffer, jobs>>
  PROVE  /\ n \in 1 .. Len(cmds) /\ ~Overlong(cmds[n])
         /\ st[n] = At(jp) /\ st[n + 1] = At(jp)'
         /\ Flow(h, jp)' /\ parsed'.cmd = 0 /\ pc' \in {"loop", "idle"} /\ sess'.key = s.key
<1>0. Counters /\ Hist(h, st) /\ Flow(h, jp) /\ Read(st, jp)
  BY DEF Ghosts
<1>1. /\ n \in 1 .. Len(cmds) /\ st[n] = At(jp) /\ ~Overlong(cmds[n])
      /\ parsed.size = FrameSize(n) /\ parsed.size <= Len(buf.bytes)
  BY <1>0 DEF Read, Found
<1>2. PICK k \in Nat : k = parsed.size /\ k = FrameSize(n)
  BY <1>1 DEF WireInv
<1>3. PICK p \in Nat : p = At(jp) /\ p = st[n] /\ p + k = st[n + 1]
  <2>1. At(jp) \in Nat
    BY <1>0, FlowTypes
  <2>2. st[n + 1] = st[n] + FrameSize(n)
    BY <1>0, <1>1 DEF Hist
  <2>3. QED
    BY <1>1, <1>2, <2>1, <2>2
<1>4. PICK x : x = buf.bytes
  OBVIOUS
<1>5. /\ x \in Seq(Nat) /\ Len(x) \in Nat /\ k <= Len(x)
      /\ Window(x, h, p) /\ p + Len(x) = jp[1]
  <2>1. Window(buf.bytes, h, At(jp))
    BY <1>0 DEF Flow
  <2>2. QED
    BY <1>0, <1>1, <1>2, <1>3, <1>4, <2>1, FlowTypes
<1>6. h \in Seq(Nat)
  BY <1>0 DEF Hist
<1>7. PICK y : y = SubSeq(x, k + 1, Len(x))
  OBVIOUS
<1>8. Window(y, h, p + k) /\ Len(y) = Len(x) - k /\ y \in Seq(Nat)
  BY <1>5, <1>6, <1>7, WindowParts
<1>9. PICK b : b = BufferRead(buf, parsed.size)
  OBVIOUS
<1>10. b.bytes = y
  <2>1. ~(k > Len(x))
    BY <1>5
  <2>2. b.bytes = IF k > Len(x) THEN <<>> ELSE SubSeq(x, k + 1, Len(x))
    BY <1>2, <1>4, <1>9 DEF BufferRead
  <2>3. QED
    BY <1>7, <2>1, <2>2
<1>11. PICK q \in Nat : q = p + k /\ q + Len(y) = jp[1] /\ q = st[n + 1]
  <2>1. p + k + (Len(x) - k) = p + Len(x)
    BY <1>5
  <2>2. QED
    BY <1>3, <1>5, <1>8, <2>1
<1>12. Return(b, s)
  BY <1>9 DEF Consume
<1>13. b.bytes \in Seq(Nat) /\ Window(b.bytes, h, q) /\ q + Len(b.bytes) = jp[1]
  BY <1>8, <1>10, <1>11
<1>14. /\ Flow(h, jp)' /\ At(jp)' = q
       /\ parsed'.cmd = 0 /\ pc' \in {"loop", "idle"} /\ sess'.key = s.key
  <2>1. /\ parsed'.cmd = 0 /\ pc' \in {"loop", "idle"}
        /\ sess'.key = s.key /\ sess'.readbuffer.bytes = <<>>
        /\ buf'.bytes = b.bytes
        /\ pc' # "idle" => Len(buf'.bytes) > 0
        /\ pc' = "idle" => buf' = NewBuffer
    BY <1>12, <1>13, ReturnDoes
  <2>2. Window(buf'.bytes, h, q) /\ q + Len(buf'.bytes) = jp[1] /\ buf'.bytes \in Seq(Nat)
    BY <1>13, <2>1
  <2>3. Flow(h, jp)' /\ At(jp)' = q
    BY <1>0, <1>6, <2>1, <2>2, ReturnFlow
  <2>4. QED
    BY <2>1, <2>3
<1>15. QED
  BY <1>1, <1>11, <1>14

(* The starts of frames grow with their numbers.                           *)
LEMMA StartsGrow ==
  ASSUME WireInv, NEW h, NEW st, Hist(h, st), NEW a \in 1 .. Len(cmds) + 1, NEW b \in 1 .. Len(cmds) + 1
  PROVE  /\ st[a] \in Nat /\ st[b] \in Nat
         /\ st[a] <= st[b] => a <= b
         /\ st[a] = st[b] => a = b
<1>1. PICK N \in Nat : N = Len(cmds)
  BY DEF WireInv
<1>2. a \in 1 .. N + 1 /\ b \in 1 .. N + 1
  BY <1>1
<1>3. st[a] \in Nat /\ st[b] \in Nat
  BY <1>1, <1>2 DEF Hist
<1>4. (a < b => st[a] < st[b]) /\ (b < a => st[b] < st[a])
  BY <1>1, <1>2 DEF Hist
<1>5. QED
  BY <1>2, <1>3, <1>4

(* A command is executed: it comes behind all the others.                  *)
LEMMA RanDid ==
  ASSUME WireInv, NEW h, NEW st, NEW jp, Hist(h, st), Did(st, jp),
         NEW n \in 1 .. Len(cmds), st[n] = At(jp), st[n + 1] = At(jp)', ~Overlong(cmds[n]),
         cmds' = cmds, done' = Append(done, n), logins' \in {logins, logins + 1}, sess'.key = logins',
         sql' = sql, ~sql => logins' = logins
  PROVE  Did(st, jp)'
<1>0. /\ done \in Seq(Nat) /\ logins <= Len(done) /\ (~sql => logins = 0)
      /\ (\A i, j \in 1 .. Len(done) : i < j => done[i] < done[j])
      /\ \A m \in 1 .. Len(cmds) : cmds[m].key <= logins
  BY DEF Did
<1>1. PICK N \in Nat : N = Len(cmds)
  BY DEF WireInv
<1>2. PICK D \in Nat : D = Len(done)
  BY <1>0
<1>3. n \in 1 .. N /\ n + 1 \in 1 .. N + 1 /\ n \in 1 .. N + 1 /\ n \in Nat
  BY <1>1
<1>4. Len(done') = D + 1 /\ done'[D + 1] = n /\ (\A i \in 1 .. D : done'[i] = done[i]) /\ done' \in Seq(Nat)
  BY <1>0, <1>2, <1>3, AppendProperties
<1>5. st[n] \in Nat /\ st[n + 1] \in Nat /\ st[n] <= st[n + 1]
  <2>1. st[n] \in Nat /\ st[n + 1] \in Nat
    BY <1>1, <1>3, StartsGrow
  <2>2. n < n + 1 => st[n] < st[n + 1]
    BY <1>1, <1>3 DEF Hist
  <2>3. QED
    BY <1>3, <2>1, <2>2
<1>6. \A i \in 1 .. D : /\ done[i] \in 1 .. N /\ i <= done[i] /\ done[i] < n
                        /\ st[done[i] + 1] <= st[n + 1] /\ ~Overlong(cmds[done[i]])
  <2> SUFFICES ASSUME NEW i \in 1 .. D
               PROVE  /\ done[i] \in 1 .. N /\ i <= done[i] /\ done[i] < n
                      /\ st[done[i] + 1] <= st[n + 1] /\ ~Overlong(cmds[done[i]])
    OBVIOUS
  <2>1. /\ done[i] \in 1 .. N /\ i <= done[i] /\ st[done[i] + 1] <= st[n]
        /\ ~Overlong(cmds[done[i]])
    BY <1>1, <1>2 DEF Did
  <2>2. PICK d \in 1 .. N + 1 : d = done[i] + 1
    BY <2>1
  <2>3. st[d] \in Nat /\ (st[d] <= st[n] => d <= n)
    BY <1>1, <1>3, StartsGrow
  <2>4. d <= n
    BY <2>1, <2>2, <2>3
  <2>5. done[i] < n
    BY <1>3, <2>1, <2>2, <2>4
  <2>6. st[done[i] + 1] <= st[n + 1]
    BY <1>5, <2>1, <2>2, <2>3
  <2>7. QED
    BY <2>1, <2>5, <2>6
<1>7. D + 1 <= n
  <2>1. CASE D = 0
    BY <1>3, <2>1
  <2>2. CASE D # 0
    <3>1. D \in 1 .. D
      BY <2>2
    <3>2. done[D] \in 1 .. N /\ D <= done[D] /\ done[D] < n
      BY <1>6, <3>1
    <3>3. QED
      BY <1>3, <3>2
  <2>3. QED
    BY <2>1, <2>2
<1>8. \A i \in 1 .. D + 1 : /\ done'[i] \in 1 .. N /\ i <= done'[i]
                            /\ st[done'[i] + 1] <= st[n + 1] /\ ~Overlong(cmds[done'[i]])
  <2> SUFFICES ASSUME NEW i \in 1 .. D + 1
               PROVE  /\ done'[i] \in 1 .. N /\ i <= done'[i]
                      /\ st[done'[i] + 1] <= st[n + 1] /\ ~Overlong(cmds[done'[i]])
    OBVIOUS
  <2>1. CASE i \in 1 .. D
    BY <1>4, <1>6, <2>1
  <2>2. CASE i = D + 1
    BY <1>3, <1>4, <1>5, <1>7, <2>2
  <2>3. i \in 1 .. D \/ i = D + 1
    OBVIOUS
  <2>4. QED
    BY <2>1, <2>2, <2>3, Zenon
<1>9. \A i, j \in 1 .. D + 1 : i < j => done'[i] < done'[j]
  <2> SUFFICES ASSUME NEW i \in 1 .. D + 1, NEW j \in 1 .. D + 1, i < j PROVE done'[i] < done'[j]
    OBVIOUS
  <2>1. i \in 1 .. D
    OBVIOUS
  <2>2. CASE j \in 1 .. D
    BY <1>0, <1>2, <1>4, <2>1, <2>2
  <2>3. CASE j = D + 1
    BY <1>4, <1>6, <2>1, <2>3
  <2>4. j \in 1 .. D \/ j = D + 1
    OBVIOUS
  <2>5. QED
    BY <2>2, <2>3, <2>4, Zenon
<1>10. logins' <= D + 1 /\ \A m \in 1 .. N : cmds[m].key <= logins'
  <2>1. logins \in Nat /\ logins <= D
    BY <1>0, <1>2 DEF WireInv
  <2>2. logins <= logins' /\ logins' <= D + 1 /\ logins' \in Nat
    BY <2>1
  <2>3. ASSUME NEW m \in 1 .. N PROVE cmds[m].key <= logins'
    <3>1. cmds[m] \in Command
      BY <1>1 DEF WireInv
    <3>2. cmds[m].key \in Nat /\ cmds[m].key <= logins
      BY <1>0, <1>1, <3>1 DEF Command
    <3>3. QED
      BY <2>1, <2>2, <3>2
  <2>4. QED
    BY <2>2, <2>3
<1>11. /\ cmds' = cmds /\ Len(cmds) = N /\ Len(done') = D + 1 /\ sess'.key = logins' /\ At(jp)' = st[n + 1]
       /\ ~sql' => logins' = 0
  BY <1>0, <1>1, <1>4
<1>12. QED
  <2>1. /\ \A i \in 1 .. Len(done') :
             /\ done'[i] \in 1 .. Len(cmds') /\ i <= done'[i]
             /\ st[done'[i] + 1] <= At(jp)'
             /\ ~Overlong(cmds'[done'[i]])
        /\ \A i, j \in 1 .. Len(done') : i < j => done'[i] < done'[j]
        /\ logins' <= Len(done')
        /\ \A m \in 1 .. Len(cmds') : cmds'[m].key <= logins'
    BY <1>8, <1>9, <1>10, <1>11, Zenon
  <2>2. QED
    BY <1>4, <1>11, <2>1, Zenon DEF Did, Overlong

(* The session has the key of the last LOGIN before the command.           *)
LEMMA KeyNow ==
  ASSUME WireInv, NEW h, NEW st, NEW jp, Hist(h, st), Whole(st, jp), Good,
         NEW n \in 1 .. Len(cmds), st[n] = At(jp)
  PROVE  /\ sql => logins = Cardinality(LoginsBefore(n))
         /\ \A l \in 1 .. n - 1 : Ran(l) \/ StaleKey(l)
<1>1. PICK m \in 1 .. Len(cmds) + 1 :
        /\ st[m] = At(jp) /\ (sql => logins = Cardinality(LoginsBefore(m)))
        /\ \A l \in 1 .. m - 1 : Ran(l) \/ StaleKey(l)
  BY DEF Whole
<1>2. n \in 1 .. Len(cmds) + 1 /\ st[m] = st[n]
  BY <1>1 DEF WireInv
<1>3. m = n
  BY <1>2, StartsGrow
<1>4. QED
  BY <1>1, <1>3

(* One command more lies behind JsonProcess.                               *)
LEMMA RanWhole ==
  ASSUME WireInv, NEW h, NEW st, NEW jp, Hist(h, st), Whole(st, jp),
         NEW n \in 1 .. Len(cmds), st[n] = At(jp), st[n + 1] = At(jp)',
         UNCHANGED <<sql, cmds, ends, jobs, cut>>,
         (LoginRefused => LoginRefused') /\ (refused' => refused \/ LoginRefused'),
         \A l : Ran(l) => Ran(l)', Good => Ran(n)' \/ StaleKey(n),
         sql => logins' = IF cmds[n].kind = "LOGIN" THEN logins + 1 ELSE logins
  PROVE  Whole(st, jp)'
<1> SUFFICES ASSUME Good'
             PROVE  /\ refused' => LoginRefused'
                    /\ \A i \in 1 .. Len(jobs') + 1 : jp[i] \in ends'
                    /\ \E m \in 1 .. Len(cmds') + 1 :
                         /\ st[m] = At(jp)' /\ (sql' => logins' = Cardinality(LoginsBefore(m)'))
                         /\ \A l \in 1 .. m - 1 : (Ran(l) \/ StaleKey(l))'
  BY Zenon DEF Whole
<1>1. Good
  BY GoodBefore
<1>2. (refused' => LoginRefused') /\ \A i \in 1 .. Len(jobs') + 1 : jp[i] \in ends'
  BY <1>1 DEF Whole
<1>3. (sql => logins = Cardinality(LoginsBefore(n))) /\ \A l \in 1 .. n - 1 : Ran(l) \/ StaleKey(l)
  BY <1>1, KeyNow
<1>4. n + 1 \in 1 .. Len(cmds') + 1 /\ n \in Nat \ {0} /\ (n + 1) - 1 = n
  BY DEF WireInv
<1>5. \A l \in 1 .. n : (Ran(l) \/ StaleKey(l))'
  <2> SUFFICES ASSUME NEW l \in 1 .. n PROVE Ran(l)' \/ StaleKey(l)'
    OBVIOUS
  <2>1. StaleKey(l)' <=> StaleKey(l)
    BY DEF StaleKey
  <2>2. CASE l \in 1 .. n - 1
    BY <1>3, <2>1, <2>2
  <2>3. CASE l = n
    BY <1>1, <2>1, <2>3
  <2>4. QED
    BY <1>4, <2>2, <2>3
<1>6. LoginsBefore(n + 1)' = IF cmds[n].kind = "LOGIN" THEN LoginsBefore(n) \cup {n} ELSE LoginsBefore(n)
  <2>1. \A l \in Int : l \in 1 .. n <=> l \in 1 .. n - 1 \/ l = n
    BY <1>4
  <2>2. LoginsBefore(n + 1)' = {l \in 1 .. n : cmds[l].kind = "LOGIN"}
    BY <1>4 DEF LoginsBefore
  <2>3. LoginsBefore(n) = {l \in 1 .. n - 1 : cmds[l].kind = "LOGIN"}
    BY DEF LoginsBefore
  <2>4. CASE cmds[n].kind = "LOGIN"
    <3>1. \A l : l \in LoginsBefore(n + 1)' <=> l \in LoginsBefore(n) \cup {n}
      BY <1>4, <2>1, <2>2, <2>3, <2>4
    <3>2. QED
      BY <2>4, <3>1, Zenon
  <2>5. CASE cmds[n].kind # "LOGIN"
    <3>1. \A l : l \in LoginsBefore(n + 1)' <=> l \in LoginsBefore(n)
      BY <1>4, <2>1, <2>2, <2>3, <2>5
    <3>2. QED
      BY <2>5, <3>1, Zenon
  <2>6. QED
    BY <2>4, <2>5
<1>7. IsFiniteSet(LoginsBefore(n)) /\ n \notin LoginsBefore(n)
  <2>1. IsFiniteSet(1 .. n - 1)
    BY <1>4, FS_Interval
  <2>2. LoginsBefore(n) \subseteq 1 .. n - 1 /\ n \notin 1 .. n - 1
    BY <1>4 DEF LoginsBefore
  <2>3. QED
    BY <2>1, <2>2, FS_Subset
<1>8. sql => Cardinality(LoginsBefore(n) \cup {n}) = logins + 1
  BY <1>3, <1>7, FS_AddElement
<1>9. sql' => logins' = Cardinality(LoginsBefore(n + 1)')
  BY <1>3, <1>6, <1>8
<1>10. QED
  BY <1>2, <1>4, <1>5, <1>9
-----------------------------------------------------------------------------
(* A command is executed, or passed over for its key.                      *)
LEMMA ConsumeGhosts ==
  ASSUME WireInv, NEW h, NEW st, NEW jp, Ghosts(h, st, jp),
         pc = "switch", parsed.err = "SUCCESS", NEW n, n = parsed.cmd,
         NEW s \in [on : BOOLEAN, readbuffer : FitBuffers, key : Nat], s.readbuffer.bytes = <<>>,
         Consume(s), s.key = logins',
         UNCHANGED <<sql, cmds, stream, taken, ends, readbuffer, jobs, cut>>,
         refused' \in BOOLEAN,
         refused' => refused \/ (~sql /\ cmds[n].kind = "LOGIN" /\ done' = Append(done, n)),
         state' \in {"none", "live", "gone"},
         logins' = IF cmds[n].kind = "LOGIN" /\ sql THEN logins + 1 ELSE logins,
         \/ done' = Append(done, n)
         \/ done' = done /\ logins' = logins /\ cmds[n].kind \in Wraps /\ cmds[n].key # logins
  PROVE  Ghosts(h, st, jp)'
<1>0. Counters /\ Hist(h, st) /\ Flow(h, jp) /\ Did(st, jp) /\ Read(st, jp) /\ Whole(st, jp)
  BY DEF Ghosts
<1>1. /\ n \in 1 .. Len(cmds) /\ ~Overlong(cmds[n])
      /\ st[n] = At(jp) /\ st[n + 1] = At(jp)'
      /\ Flow(h, jp)' /\ parsed'.cmd = 0 /\ pc' \in {"loop", "idle"} /\ sess'.key = s.key
  BY ConsumeFlow
<1>2. Counters'
  <2>1. Len(cmds') <= MaxCmds /\ \A m \in 1 .. Len(cmds') : Sound(m)'
    BY <1>0, SoundSame
  <2>2. pc' \in {"idle", "loop", "switch", "spin", "thrown"}
    BY <1>1
  <2>3. QED
    BY <1>0, <2>1, <2>2 DEF Counters
<1>3. Hist(h, st)'
  BY <1>0, HistSame
<1>4. Read(st, jp)'
  <2>1. parsed'.cmd \in 0 .. Len(cmds') /\ pc' \notin {"switch", "thrown"}
    BY <1>1 DEF WireInv
  <2>2. QED
    BY <2>1, ReadOff
<1>5. cmds' = cmds /\ sess'.key = logins'
  BY <1>1
<1>6. CASE done' = Append(done, n)
  <2>1. logins' \in {logins, logins + 1} /\ (~sql => logins' = logins)
    OBVIOUS
  <2>2. Did(st, jp)'
    BY <1>0, <1>1, <1>5, <1>6, <2>1, RanDid
  <2>3. /\ (\A l : Ran(l) => Ran(l)') /\ Ran(n)'
        /\ LoginRefused => LoginRefused'
        /\ refused' => refused \/ LoginRefused'
    <3>1. done \in Seq(Nat) /\ n \in Nat
      BY <1>0, <1>1 DEF Did
    <3>2. PICK D \in Nat : D = Len(done)
      BY <3>1
    <3>3. Len(done') = D + 1 /\ done'[D + 1] = n /\ \A i \in 1 .. D : done'[i] = done[i]
      BY <1>6, <3>1, <3>2, AppendProperties
    <3>4. D + 1 \in 1 .. D + 1 /\ \A i \in 1 .. D : i \in 1 .. D + 1
      OBVIOUS
    <3>5. (\A l : Ran(l) => Ran(l)') /\ Ran(n)'
      BY <3>2, <3>3, <3>4, Zenon DEF Ran
    <3>6. sql' = sql /\ cmds' = cmds
      OBVIOUS
    <3>7. LoginRefused => LoginRefused'
      BY <3>2, <3>3, <3>4, <3>6 DEF LoginRefused
    <3>8. ~sql /\ cmds[n].kind = "LOGIN" => LoginRefused'
      BY <3>2, <3>3, <3>4, <3>6 DEF LoginRefused
    <3>9. QED
      BY <3>5, <3>7, <3>8
  <2>4. Whole(st, jp)'
    BY <1>0, <1>1, <2>3, RanWhole
  <2>5. QED
    BY <1>1, <1>2, <1>3, <1>4, <2>2, <2>4 DEF Ghosts
<1>7. CASE done' = done /\ logins' = logins /\ cmds[n].kind \in Wraps /\ cmds[n].key # logins
  <2>1. Did(st, jp)'
    <3>1. PICK a \in Nat : a = At(jp)
      BY <1>0, FlowTypes
    <3>2. n \in 1 .. Len(cmds) + 1 /\ n + 1 \in 1 .. Len(cmds) + 1 /\ n < n + 1
      BY <1>1 DEF WireInv
    <3>3. st[n] < st[n + 1] /\ st[n + 1] \in Nat
      BY <1>0, <3>2 DEF Hist
    <3>4. PICK b \in Nat : b = At(jp)' /\ a <= b
      BY <1>1, <3>1, <3>3
    <3>5. sess'.key = sess.key
      BY <1>0, <1>5, <1>7 DEF Did
    <3>6. QED
      BY <1>0, <1>7, <3>1, <3>4, <3>5, DidSame
  <2>2. /\ \A l : Ran(l) => Ran(l)'
        /\ LoginRefused => LoginRefused'
        /\ refused' => refused \/ LoginRefused'
    <3>1. cmds[n].kind # "LOGIN"
      BY <1>7 DEF Wraps
    <3>2. QED
      BY <1>7, <3>1 DEF Ran, LoginRefused
  <2>3. Good => StaleKey(n)
    <3>1. Good /\ sql => logins = Cardinality(LoginsBefore(n))
      BY <1>0, <1>1, KeyNow
    <3>2. n <= Len(cmds)
      BY <1>1 DEF WireInv
    <3>3. sql
      <4>1. cmds[n].key \in Nat
        BY <1>0, <1>1, CmdOf
      <4>2. cmds[n].key <= logins /\ (~sql => logins = 0)
        BY <1>0, <1>1 DEF Did
      <4>3. QED
        BY <1>7, <4>1, <4>2
    <3>4. Good => logins = Cardinality(LoginsBefore(n))
      BY <3>1, <3>3
    <3>5. QED
      BY <1>7, <3>2, <3>4, Zenon DEF StaleKey, LoginsBefore
  <2>4. Whole(st, jp)'
    BY <1>0, <1>1, <2>2, <2>3, RanWhole
  <2>5. QED
    BY <1>1, <1>2, <1>3, <1>4, <2>1, <2>4 DEF Ghosts
<1>8. QED
  BY <1>6, <1>7

(* What the commands have in common.                                       *)
LEMMA SessionOf ==
  ASSUME WireInv, NEW h, NEW st, NEW jp, Ghosts(h, st, jp)
  PROVE  /\ sess \in [on : BOOLEAN, readbuffer : FitBuffers, key : Nat]
         /\ sess.readbuffer.bytes = <<>> /\ sess.key = logins /\ logins \in Nat
         /\ state \in {"none", "live", "gone"} /\ refused \in BOOLEAN /\ (~sql => logins = 0)
  BY DEF WireInv, Ghosts, Flow, Did, Counters

(* LOGIN: the session gets the next key, or, refused, keeps the one it has *)
(* not been given.                                                         *)
LEMMA LoginGhosts ==
  ASSUME WireInv, NEW h, NEW st, NEW jp, Ghosts(h, st, jp), Login PROVE Ghosts(h, st, jp)'
<1>0. PICK n : n = parsed.cmd
  OBVIOUS
<1>1. /\ pc = "switch" /\ parsed.err = "SUCCESS" /\ cmds[n].kind = "LOGIN"
      /\ done' = Append(done, n)
      /\ UNCHANGED <<sql, cmds, stream, taken, ends, readbuffer, jobs, cut>>
  BY <1>0 DEF Login, AtCmd, inVars
<1>2. state' \in {"none", "live", "gone"}
  BY SessionOf DEF Login
<1>3. PICK r : r = LoginState
  OBVIOUS
<1>4. /\ r \in [on : BOOLEAN, readbuffer : FitBuffers, key : Nat] /\ r.readbuffer.bytes = <<>>
      /\ r.key = 0 \/ r.key = logins
  BY <1>3, SessionOf, FitNew DEF LoginState, NoSession, NewBuffer
<1>5. logins + 1 \in Nat
  BY SessionOf
<1>6. CASE sql
  <2>1. logins' = logins + 1 /\ refused' = refused
    BY <1>6 DEF Login
  <2>2. PICK s : s = [r EXCEPT !.key = logins + 1]
    OBVIOUS
  <2>3. /\ s \in [on : BOOLEAN, readbuffer : FitBuffers, key : Nat]
        /\ s.readbuffer.bytes = <<>> /\ s.key = logins'
    BY <1>4, <1>5, <2>1, <2>2
  <2>4. Consume(s)
    BY <1>3, <1>6, <2>2 DEF Login
  <2>5. logins' = IF cmds[n].kind = "LOGIN" /\ sql THEN logins + 1 ELSE logins
    BY <1>1, <1>6, <2>1
  <2>6. refused' \in BOOLEAN /\ (refused' => refused)
    BY <2>1, SessionOf
  <2>7. QED
    BY <1>0, <1>1, <1>2, <2>3, <2>4, <2>5, <2>6, ConsumeGhosts
<1>7. CASE ~sql
  <2>1. logins' = logins /\ refused' = TRUE /\ Consume(r)
    BY <1>3, <1>7 DEF Login
  <2>2. r.key = logins'
    BY <1>4, <1>7, <2>1, SessionOf
  <2>3. logins' = IF cmds[n].kind = "LOGIN" /\ sql THEN logins + 1 ELSE logins
    BY <1>7, <2>1
  <2>4. refused' \in BOOLEAN /\ (refused' => ~sql /\ cmds[n].kind = "LOGIN" /\ done' = Append(done, n))
    BY <1>1, <1>7, <2>1
  <2>5. QED
    BY <1>0, <1>1, <1>2, <1>4, <2>1, <2>2, <2>3, <2>4, ConsumeGhosts
<1>8. QED
  BY <1>6, <1>7

(* A command that is not wrapped.                                          *)
LEMMA PlainGhosts ==
  ASSUME WireInv, NEW h, NEW st, NEW jp, Ghosts(h, st, jp), Plain PROVE Ghosts(h, st, jp)'
<1>0. PICK n : n = parsed.cmd
  OBVIOUS
<1>1. /\ pc = "switch" /\ parsed.err = "SUCCESS" /\ cmds[n].kind = "PLAIN"
      /\ logins' = logins /\ done' = Append(done, n) /\ state' = state /\ Consume(sess)
      /\ UNCHANGED <<sql, cmds, stream, taken, ends, readbuffer, jobs, refused, cut>>
  BY <1>0 DEF Plain, AtCmd, inVars
<1>2. PICK s \in [on : BOOLEAN, readbuffer : FitBuffers, key : Nat] : s = sess
  BY SessionOf
<1>3. s.readbuffer.bytes = <<>> /\ s.key = logins' /\ Consume(s) /\ state' \in {"none", "live", "gone"}
  BY <1>1, <1>2, SessionOf
<1>4. logins' = IF cmds[n].kind = "LOGIN" /\ sql THEN logins + 1 ELSE logins
  BY <1>1
<1>5. refused' \in BOOLEAN /\ (refused' => refused)
  BY <1>1, SessionOf
<1>6. QED
  BY <1>0, <1>1, <1>3, <1>4, <1>5, ConsumeGhosts

(* del_state: the local state keeps its key.                               *)
LEMMA DelStateOf ==
  ASSUME WireInv, NEW h, NEW st, NEW jp, Ghosts(h, st, jp)
  PROVE  /\ DelState \in [on : BOOLEAN, readbuffer : FitBuffers, key : Nat]
         /\ DelState.readbuffer.bytes = <<>> /\ DelState.key = logins
  BY SessionOf, FitNew DEF DelState, NoSession, NewBuffer

LEMMA LogoutGhosts ==
  ASSUME WireInv, NEW h, NEW st, NEW jp, Ghosts(h, st, jp), Logout PROVE Ghosts(h, st, jp)'
<1>0. PICK n : n = parsed.cmd
  OBVIOUS
<1>1. /\ pc = "switch" /\ parsed.err = "SUCCESS" /\ cmds[n].kind = "LOGOUT"
      /\ logins' = logins /\ done' = Append(done, n) /\ state' = "gone" /\ Consume(DelState)
      /\ UNCHANGED <<sql, cmds, stream, taken, ends, readbuffer, jobs, refused, cut>>
  BY <1>0 DEF Logout, AtCmd, inVars
<1>2. PICK s \in [on : BOOLEAN, readbuffer : FitBuffers, key : Nat] : s = DelState
  BY DelStateOf
<1>3. s.readbuffer.bytes = <<>> /\ s.key = logins' /\ Consume(s) /\ state' \in {"none", "live", "gone"}
  BY <1>1, <1>2, DelStateOf
<1>4. logins' = IF cmds[n].kind = "LOGIN" /\ sql THEN logins + 1 ELSE logins
  BY <1>1
<1>5. refused' \in BOOLEAN /\ (refused' => refused)
  BY <1>1, SessionOf
<1>6. QED
  BY <1>0, <1>1, <1>3, <1>4, <1>5, ConsumeGhosts

(* A wrapped command: what UnFormat returns is the command; it fails, and  *)
(* throws, only under another key than the command's.                      *)
LEMMA WrappedGhosts ==
  ASSUME WireInv, NEW h, NEW st, NEW jp, Ghosts(h, st, jp), Wrapped PROVE Ghosts(h, st, jp)'
<1>0. PICK n : n = parsed.cmd
  OBVIOUS
<1>1. /\ pc = "switch" /\ parsed.err = "SUCCESS" /\ cmds[n].kind \in Wraps
      /\ logins' = logins
      /\ UNCHANGED <<sql, cmds, stream, taken, ends, readbuffer, jobs, refused, cut>>
  BY <1>0 DEF Wrapped, AtCmd, inVars
<1>2. Counters /\ n \in 1 .. Len(cmds) /\ ~Overlong(cmds[n])
  BY <1>0, <1>1 DEF Ghosts, Read, Found
<1>3. PICK r \in UnFormat(n) :
        \/ r.err = "THROW" /\ pc' = "thrown" /\ UNCHANGED <<sess, state, buf, parsed, done>>
        \/ /\ r.err = "SUCCESS"
           /\ \/ Consume(DelState) /\ state' = "gone"
              \/ Consume(sess) /\ state' = state
           /\ done' = Append(done, r.cmd)
        \/ r.err \notin {"THROW", "SUCCESS"} /\ Consume(sess) /\ UNCHANGED <<state, done>>
  BY <1>0, Zenon DEF Wrapped
<1>4. /\ r.err = "THROW" => sess.key # cmds[n].key
      /\ sess.key = cmds[n].key => r.err = "SUCCESS"
      /\ r.err = "SUCCESS" => r.cmd = n
  BY <1>1, <1>2, UnFormats
<1>5. sess.key = logins /\ logins \in Nat
  BY SessionOf
<1>6. CASE r.err = "THROW"
  <2>1. pc' = "thrown" /\ UNCHANGED <<sess, state, buf, parsed, done>>
    BY <1>3, <1>6
  <2>2. KeyReplaced(n)
    <3>1. cmds[n].key \in Nat /\ cmds[n].key <= logins
      BY <1>2, CmdOf DEF Ghosts, Did
    <3>2. QED
      BY <1>1, <1>4, <1>5, <1>6, <3>1 DEF KeyReplaced
  <2>3. KeyReplaced(n)' /\ n \in 1 .. Len(cmds')
    BY <1>1, <1>2, <2>2 DEF KeyReplaced
  <2>4. ThrowCause'
    BY <2>3 DEF ThrowCause
  <2>5. parsed'.cmd \in 0 .. Len(cmds')
    BY <1>1, <2>1 DEF Ghosts, Read
  <2>6. Read(st, jp)'
    BY <2>1, <2>4, <2>5, Zenon DEF Read
  <2>7. pc # "idle" /\ pc' \in {"switch", "spin", "thrown"}
    BY <1>1, <2>1
  <2>8. QED
    BY <1>1, <2>1, <2>6, <2>7, StillGhosts
<1>7. CASE r.err # "THROW"
  <2>1. PICK s \in [on : BOOLEAN, readbuffer : FitBuffers, key : Nat] :
          Consume(s) /\ s.readbuffer.bytes = <<>> /\ s.key = logins
    <3>1. Consume(sess) \/ Consume(DelState)
      BY <1>3, <1>7
    <3>2. QED
      BY <3>1, SessionOf, DelStateOf
  <2>2. state' \in {"none", "live", "gone"}
    BY <1>3, <1>7, SessionOf
  <2>3. s.key = logins'
    BY <1>1, <2>1
  <2>4. logins' = IF cmds[n].kind = "LOGIN" /\ sql THEN logins + 1 ELSE logins
    BY <1>1 DEF Wraps
  <2>5. refused' \in BOOLEAN /\ (refused' => refused)
    BY <1>1, SessionOf
  <2>6. \/ done' = Append(done, n)
        \/ done' = done /\ logins' = logins /\ cmds[n].kind \in Wraps /\ cmds[n].key # logins
    BY <1>1, <1>3, <1>4, <1>5, <1>7
  <2>7. QED
    BY <1>0, <1>1, <2>1, <2>2, <2>3, <2>4, <2>5, <2>6, ConsumeGhosts
<1>8. QED
  BY <1>6, <1>7

(* The data is dropped: JsonProcess stands where the next job begins.      *)
LEMMA RefuseGhosts ==
  ASSUME WireInv, NEW h, NEW st, NEW jp, Ghosts(h, st, jp), Refuse PROVE Ghosts(h, st, jp)'
<1>0. Counters /\ Hist(h, st) /\ Flow(h, jp) /\ Did(st, jp) /\ Read(st, jp) /\ Whole(st, jp)
  BY DEF Ghosts
<1>1. /\ pc = "switch" /\ parsed.err # "SUCCESS" /\ refused' = TRUE
      /\ Return(BufferClear(buf), sess)
      /\ UNCHANGED <<sql, cmds, stream, taken, ends, readbuffer, jobs, state, done, cut, logins>>
  BY DEF Refuse, inVars
<1>2. PICK b : b = BufferClear(buf)
  OBVIOUS
<1>3. b.bytes = <<>> /\ b.bytes \in Seq(Nat) /\ Len(b.bytes) = 0 /\ Return(b, sess)
  BY <1>1, <1>2 DEF BufferClear
<1>4. PICK s \in [on : BOOLEAN, readbuffer : FitBuffers, key : Nat] : s = sess
  BY SessionOf
<1>5. s.readbuffer.bytes = <<>> /\ Return(b, s)
  BY <1>3, <1>4, SessionOf
<1>6. PICK q \in Nat : q = jp[1] /\ q + Len(b.bytes) = jp[1]
  BY <1>0, <1>3, FlowTypes
<1>7. h \in Seq(Nat) /\ Window(b.bytes, h, q)
  <2>1. h \in Seq(Nat) /\ Len(h) \in Nat
    BY <1>0 DEF Hist
  <2>2. At(jp) + Len(buf.bytes) <= Len(h) /\ At(jp) + Len(buf.bytes) = jp[1]
    BY <1>0, FlowTypes DEF Flow, Window
  <2>3. q <= Len(h)
    BY <1>6, <2>2
  <2>4. QED
    BY <1>3, <2>1, <2>3, WindowEmpty
<1>8. /\ Flow(h, jp)' /\ At(jp)' = q
      /\ parsed'.cmd = 0 /\ pc' \in {"loop", "idle"} /\ sess'.key = s.key
  <2>1. UNCHANGED <<stream, taken, readbuffer, jobs>>
    BY <1>1
  <2>2. /\ parsed'.cmd = 0 /\ pc' \in {"loop", "idle"}
        /\ sess'.key = s.key /\ sess'.readbuffer.bytes = <<>>
        /\ buf'.bytes = b.bytes
        /\ pc' # "idle" => Len(buf'.bytes) > 0
        /\ pc' = "idle" => buf' = NewBuffer
    BY <1>3, <1>5, ReturnDoes
  <2>3. Window(buf'.bytes, h, q) /\ q + Len(buf'.bytes) = jp[1] /\ buf'.bytes \in Seq(Nat)
    BY <1>3, <1>6, <1>7, <2>2
  <2>4. Flow(h, jp)' /\ At(jp)' = q
    BY <1>0, <1>7, <2>1, <2>2, <2>3, ReturnFlow
  <2>5. QED
    BY <2>2, <2>4
<1>9. ~Good'
  <2>1. ~Good
    BY <1>0, <1>1 DEF Read
  <2>2. Good' => Good
    BY <1>1, GoodBefore
  <2>3. QED
    BY <2>1, <2>2
<1>10. Whole(st, jp)'
  BY <1>9, Zenon DEF Whole
<1>11. Did(st, jp)'
  <2>1. PICK a \in Nat : a = At(jp) /\ a <= q
    <3>1. At(jp) \in Nat /\ Len(buf.bytes) \in Nat /\ At(jp) + Len(buf.bytes) = q
      BY <1>0, <1>6, FlowTypes
    <3>2. QED
      BY <3>1
  <2>2. q = At(jp)' /\ sess'.key = sess.key
    BY <1>4, <1>8
  <2>3. QED
    BY <1>0, <1>1, <2>1, <2>2, DidSame
<1>12. Counters'
  <2>1. Len(cmds') <= MaxCmds /\ \A m \in 1 .. Len(cmds') : Sound(m)'
    BY <1>0, <1>1, SoundSame
  <2>2. pc' \in {"idle", "loop", "switch", "spin", "thrown"}
    BY <1>8
  <2>3. QED
    BY <1>0, <1>1, <2>1, <2>2 DEF Counters
<1>13. Hist(h, st)'
  BY <1>0, <1>1, HistSame
<1>14. Read(st, jp)'
  <2>1. parsed'.cmd \in 0 .. Len(cmds') /\ pc' \notin {"switch", "thrown"}
    BY <1>1, <1>8 DEF WireInv
  <2>2. QED
    BY <2>1, ReadOff
<1>15. QED
  BY <1>8, <1>10, <1>11, <1>12, <1>13, <1>14 DEF Ghosts

(* The loop that never ends, and the exception that nobody catches.        *)
LEMMA StuckGhosts ==
  ASSUME WireInv, NEW h, NEW st, NEW jp, Ghosts(h, st, jp), NotLogin \/ Throw
  PROVE  Ghosts(h, st, jp)'
<1>0. Read(st, jp)
  BY DEF Ghosts
<1>1. /\ UNCHANGED <<sql, cmds, stream, taken, ends, readbuffer, jobs, sess, state, buf, done, refused, cut, logins>>
      /\ parsed' = parsed /\ pc = "switch" /\ pc # "idle" /\ pc' \in {"switch", "spin", "thrown"}
  BY DEF NotLogin, Throw, inVars
<1>2. CASE NotLogin
  <2>1. pc' = "spin" /\ parsed'.cmd \in 0 .. Len(cmds')
    BY <1>0, <1>1, <1>2 DEF NotLogin, Read
  <2>2. Read(st, jp)'
    BY <2>1, ReadOff
  <2>3. QED
    BY <1>1, <2>2, StillGhosts
<1>3. CASE Throw
  <2>1. pc' = "thrown" /\ SomeOverlong
    BY <1>0, <1>1, <1>3 DEF Throw, Read
  <2>2. ThrowCause' /\ parsed'.cmd \in 0 .. Len(cmds')
    BY <1>0, <1>1, <2>1 DEF SomeOverlong, ThrowCause, Read
  <2>3. Read(st, jp)'
    BY <2>1, <2>2, Zenon DEF Read
  <2>4. QED
    BY <1>1, <2>3, StillGhosts
<1>4. QED
  BY <1>2, <1>3
-----------------------------------------------------------------------------
(* Every step of the connection keeps the invariant.                       *)
LEMMA StutterGhosts ==
  ASSUME WireInv, NEW h, NEW st, NEW jp, Ghosts(h, st, jp), UNCHANGED wireVars
  PROVE  Ghosts(h, st, jp)'
<1>0. Counters /\ Hist(h, st) /\ Flow(h, jp) /\ Did(st, jp) /\ Read(st, jp) /\ Whole(st, jp)
  BY DEF Ghosts
<1>1. UNCHANGED <<sql, cmds, stream, taken, ends, readbuffer, jobs, sess, state, buf, parsed, pc, done,
                  refused, cut, logins>>
  BY DEF wireVars
<1>2. At(jp)' = At(jp)
  BY <1>1 DEF At
<1>3. Counters'
  <2>1. Len(cmds') <= MaxCmds /\ \A n \in 1 .. Len(cmds') : Sound(n)'
    BY <1>0, <1>1, SoundSame
  <2>2. QED
    BY <1>0, <1>1, <2>1 DEF Counters
<1>4. Hist(h, st)'
  BY <1>0, <1>1, HistSame
<1>5. Did(st, jp)'
  <2>1. PICK a \in Nat : a = At(jp) /\ a = At(jp)' /\ a <= a
    BY <1>0, <1>2, FlowTypes
  <2>2. sess'.key = sess.key
    BY <1>1
  <2>3. QED
    BY <1>0, <1>1, <2>1, <2>2, DidSame
<1>6. Good' => Good
  BY <1>1, GoodBefore
<1>7. Whole(st, jp)'
  <2>1. Good => \A i \in 1 .. Len(jobs') + 1 : jp[i] \in ends
    BY <1>0, <1>1 DEF Whole
  <2>2. QED
    BY <1>0, <1>1, <1>2, <1>6, <2>1, WholeSame
<1>8. Read(st, jp)'
  BY <1>0, <1>1, <1>2, <1>6, ReadSame
<1>9. Flow(h, jp)'
  BY <1>0, <1>1, <1>2 DEF Flow, Window
<1>10. QED
  BY <1>3, <1>4, <1>5, <1>7, <1>8, <1>9 DEF Ghosts

(* The inductive step.                                                     *)
LEMMA StreamStep == StreamInv /\ [WireNext]_wireVars => StreamInv'
<1> SUFFICES ASSUME StreamInv, [WireNext]_wireVars PROVE StreamInv'
  OBVIOUS
<1>1. WireInv /\ WireInv'
  BY WireInvNext DEF StreamInv
<1>2. PICK h, st, jp : Ghosts(h, st, jp)
  BY DEF StreamInv
<1>3. \E h2, st2, jp2 : Ghosts(h2, st2, jp2)'
  <2>1. CASE \E p \in Sends, key \in 0 .. logins : PeerSend(p[1], p[2], key)
    BY <1>1, <1>2, <2>1, PeerSendGhosts
  <2>2. CASE RecvFull
    BY <1>1, <1>2, <2>2, RecvFullGhosts
  <2>3. CASE \E k \in 1 .. Chunk : k <= Len(stream) /\ RecvLast(k)
    BY <1>1, <1>2, <2>3, RecvLastGhosts
  <2>4. CASE TakeJob
    BY <1>1, <1>2, <2>4, TakeJobGhosts
  <2>5. CASE Parse
    BY <1>1, <1>2, <2>5, ParseGhosts
  <2>6. CASE Login
    BY <1>1, <1>2, <2>6, LoginGhosts
  <2>7. CASE Plain
    BY <1>1, <1>2, <2>7, PlainGhosts
  <2>8. CASE Logout
    BY <1>1, <1>2, <2>8, LogoutGhosts
  <2>9. CASE Wrapped
    BY <1>1, <1>2, <2>9, WrappedGhosts
  <2>10. CASE Refuse
    BY <1>1, <1>2, <2>10, RefuseGhosts
  <2>11. CASE NotLogin \/ Throw
    BY <1>1, <1>2, <2>11, StuckGhosts
  <2>12. CASE UNCHANGED wireVars
    BY <1>1, <1>2, <2>12, StutterGhosts
  <2>13. QED
    BY <2>1, <2>2, <2>3, <2>4, <2>5, <2>6, <2>7, <2>8, <2>9, <2>10, <2>11, <2>12
       DEF WireNext, Reading, JsonProcess
<1>4. QED
  BY <1>1, <1>3 DEF StreamInv

(* The invariant of the stream always holds.                               *)
LEMMA StreamAlways == WireSpec => []StreamInv
  BY StreamInitial, StreamStep, PTL DEF WireSpec
-----------------------------------------------------------------------------
(* A sequence of elements of S.                                            *)
LEMMA SeqOf ==
  ASSUME NEW S, NEW T, NEW s \in Seq(T), \A i \in 1 .. Len(s) : s[i] \in S
  PROVE  s \in Seq(S)
  OBVIOUS

(* The types of Wire: in particular no command number, key or count of     *)
(* LOGINs leaves the commands sent, and a buffer holds bytes of the stream *)
(* only.                                                                   *)
THEOREM WireTypeCorrect == WireSpec => []WireTypeOK
<1>1. StreamInv => WireTypeOK
  <2> SUFFICES ASSUME StreamInv PROVE WireTypeOK
    OBVIOUS
  <2>1. WireInv
    BY DEF StreamInv
  <2>2. PICK h, st, jp : Ghosts(h, st, jp)
    BY DEF StreamInv
  <2>3. Counters /\ Hist(h, st) /\ Flow(h, jp) /\ Did(st, jp) /\ Read(st, jp)
    BY <2>2 DEF Ghosts
  <2>4. PICK N \in Nat : N = Len(cmds) /\ N <= MaxCmds /\ MaxCmds \in Nat
    BY <2>1, <2>3, WireBoundsAssumption DEF WireInv, Counters
  <2>5. \A b \in FitBuffers : b \in Buffer
    BY DEF FitBuffers, Buffers, Buffer
  <2>6. done \in Seq(1 .. MaxCmds) /\ logins \in 0 .. MaxCmds
    <3>1. PICK D \in Nat : D = Len(done)
      BY <2>3 DEF Did
    <3>2. \A i \in 1 .. D : done[i] \in 1 .. N /\ i <= done[i]
      BY <2>3, <2>4, <3>1 DEF Did
    <3>3. \A i \in 1 .. D : done[i] \in 1 .. MaxCmds
      BY <2>4, <3>2
    <3>4. D <= N
      <4>1. CASE D = 0
        BY <4>1
      <4>2. CASE D # 0
        <5>1. D \in 1 .. D
          BY <4>2
        <5>2. done[D] \in 1 .. N /\ D <= done[D]
          BY <3>2, <5>1
        <5>3. QED
          BY <5>2
      <4>3. QED
        BY <4>1, <4>2
    <3>5. logins \in Nat /\ logins <= D
      BY <2>1, <2>3, <3>1 DEF WireInv, Did
    <3>6. done \in Seq(Nat)
      BY <2>3 DEF Did
    <3>7. logins \in 0 .. MaxCmds
      BY <2>4, <3>4, <3>5
    <3>8. done \in Seq(1 .. MaxCmds)
      <4>1. \A i \in 1 .. Len(done) : done[i] \in 1 .. MaxCmds
        BY <3>1, <3>3
      <4>2. QED
        BY <3>6, <4>1, SeqOf
    <3>9. QED
      BY <3>7, <3>8
  <2>7. cmds \in Seq([kind : CmdKinds, len : Nat, key : 0 .. MaxCmds, text : Nat, ser : Seq(Int)])
    <3>1. cmds \in Seq(Command)
      BY <2>1 DEF WireInv
    <3>2. ASSUME NEW n \in 1 .. N
          PROVE  cmds[n] \in [kind : CmdKinds, len : Nat, key : 0 .. MaxCmds, text : Nat, ser : Seq(Int)]
      <4>1. cmds[n] \in Command
        BY <2>4, <3>1
      <4>2. cmds[n].key <= logins /\ cmds[n].key \in Nat
        BY <2>3, <2>4, <4>1 DEF Did, Command
      <4>3. cmds[n].key \in 0 .. MaxCmds
        BY <2>4, <2>6, <4>2
      <4>4. QED
        BY <4>1, <4>3 DEF Command
    <3>3. QED
      BY <2>4, <3>1, <3>2, SeqOf
  <2>8. sess \in [on : BOOLEAN, readbuffer : Buffer, key : 0 .. MaxCmds]
    <3>1. sess \in [on : BOOLEAN, readbuffer : FitBuffers, key : Nat] /\ sess.key = logins
      BY <2>1, <2>3 DEF WireInv, Did
    <3>2. sess.readbuffer \in Buffer /\ sess.key \in 0 .. MaxCmds
      BY <2>5, <2>6, <3>1
    <3>3. QED
      BY <3>1, <3>2
  <2>9. readbuffer \in Buffer /\ buf \in Buffer /\ jobs \in Seq(Buffer)
    <3>1. readbuffer \in FitBuffers /\ buf \in FitBuffers /\ jobs \in Seq(FitBuffers)
      BY <2>1 DEF WireInv
    <3>2. jobs \in Seq(Buffer)
      <4>1. \A i \in 1 .. Len(jobs) : jobs[i] \in Buffer
        BY <2>5, <3>1
      <4>2. QED
        BY <3>1, <4>1, SeqOf
    <3>3. QED
      BY <2>5, <3>1, <3>2
  <2>10. ends \subseteq Nat
    <3>1. st \in [1 .. N + 1 -> Nat] /\ ends = {st[n] : n \in 1 .. N + 1}
      BY <2>3, <2>4 DEF Hist
    <3>2. QED
      BY <3>1
  <2>11. parsed.cmd \in 0 .. MaxCmds /\ parsed.size \in Nat
    <3>1. parsed.cmd \in 0 .. N /\ parsed.size \in Nat
      BY <2>1, <2>3, <2>4 DEF Read, WireInv
    <3>2. QED
      BY <2>4, <3>1
  <2>12. /\ sql \in BOOLEAN /\ stream \in Seq(Nat) /\ taken \in Nat /\ cut \in 0 .. MaxCuts /\ refused \in BOOLEAN
         /\ state \in {"none", "live", "gone"}
         /\ pc \in {"idle", "loop", "switch", "spin", "thrown"}
    BY <2>1, <2>3 DEF WireInv, Counters
  <2>13. QED
    BY <2>6, <2>7, <2>8, <2>9, <2>10, <2>11, <2>12 DEF WireTypeOK
<1>2. QED
  BY <1>1, StreamAlways, PTL

(* JsonProcess executes the commands of a connection at most once and in   *)
(* the order they were sent, however do_read cuts the stream into jobs;    *)
(* and while every job ends with a frame, no command is overlong and every *)
(* id is known, it leaves none out but those wrapped under a key since     *)
(* replaced.                                                               *)
THEOREM OrderCorrect == WireSpec => []CommandsInOrder
<1>1. StreamInv => CommandsInOrder
  <2> SUFFICES ASSUME StreamInv PROVE CommandsInOrder
    OBVIOUS
  <2>1. PICK h, st, jp : Ghosts(h, st, jp)
    BY DEF StreamInv
  <2>2. WireInv /\ Counters /\ Hist(h, st) /\ Flow(h, jp) /\ Did(st, jp) /\ Whole(st, jp)
    BY <2>1 DEF Ghosts, StreamInv
  <2>3. \A i, j \in 1 .. Len(done) : i < j => done[i] < done[j]
    BY <2>2 DEF Did
  <2>4. ASSUME cut = 0, ~SomeOverlong, ~SomeUnknown, done # <<>>, NEW n \in 1 .. done[Len(done)]
        PROVE  StaleKey(n) \/ \E i \in 1 .. Len(done) : done[i] = n
    <3>1. PICK m \in 1 .. Len(cmds) + 1 : st[m] = At(jp) /\ \A l \in 1 .. m - 1 : Ran(l) \/ StaleKey(l)
      BY <2>2, <2>4 DEF Whole, Good
    <3>2. PICK N \in Nat : N = Len(cmds)
      BY <2>2 DEF WireInv
    <3>3. Len(done) \in 1 .. Len(done)
      BY <2>2, <2>4 DEF Did
    <3>4. PICK d : d = done[Len(done)]
      OBVIOUS
    <3>5. d \in 1 .. N /\ st[d + 1] <= At(jp)
      BY <2>2, <3>2, <3>3, <3>4 DEF Did
    <3>6. d + 1 \in 1 .. N + 1 /\ m \in 1 .. N + 1
      BY <3>1, <3>2, <3>5
    <3>7. d + 1 <= m
      <4>1. PICK e \in 1 .. Len(cmds) + 1 : e = d + 1
        BY <3>2, <3>6
      <4>2. st[e] <= st[m]
        BY <3>1, <3>5, <4>1
      <4>3. e <= m
        BY <2>2, <4>2, StartsGrow, Zenon
      <4>4. QED
        BY <4>1, <4>3
    <3>8. n \in 1 .. m - 1
      BY <3>4, <3>5, <3>6, <3>7
    <3>9. QED
      BY <3>1, <3>8 DEF Ran
  <2>5. QED
    BY <2>3, <2>4 DEF CommandsInOrder
<1>2. QED
  BY <1>1, StreamAlways, PTL

(* The server closes a connection only when a read ended inside a frame, a *)
(* command was too long for its length word, an id is not in LookforMap's  *)
(* table or CheckWhiteList refused a LOGIN.  The process ends by ParseCmd  *)
(* only through a command too long or one wrapped under a key that a LOGIN *)
(* executed since has replaced: wherever the stream is cut, no piece of it *)
(* passes for a header with a length word below 3, although texts may hold *)
(* PRE_CHAR; and a plaintext decrypted under its own key never does.       *)
THEOREM RefusalCorrect == WireSpec => []RefusedForCause
<1>1. StreamInv => RefusedForCause
  <2> SUFFICES ASSUME StreamInv PROVE RefusedForCause
    OBVIOUS
  <2>1. PICK h, st, jp : Ghosts(h, st, jp)
    BY DEF StreamInv
  <2>2. Counters /\ Read(st, jp) /\ Whole(st, jp)
    BY <2>1 DEF Ghosts
  <2>3. refused => ~(cut = 0 /\ ~SomeOverlong /\ ~SomeUnknown) \/ LoginRefused
    BY <2>2 DEF Whole, Good
  <2>4. cut \in Nat
    BY <2>2, WireBoundsAssumption DEF Counters
  <2>5. pc = "thrown" => ThrowCause
    BY <2>2 DEF Read
  <2>6. ~(cut = 0) => cut > 0
    BY <2>4
  <2>7. QED
    BY <2>3, <2>5, <2>6 DEF RefusedForCause, ThrowCause
<1>2. QED
  BY <1>1, StreamAlways, PTL

(* A command too long for its length word is never executed, whatever      *)
(* pieces of it ParseCmd is given as the beginning of a frame.             *)
THEOREM OverlongCorrect == WireSpec => []OverlongNeverRuns
<1>1. StreamInv => OverlongNeverRuns
  BY DEF StreamInv, Ghosts, Did, OverlongNeverRuns
<1>2. QED
  BY <1>1, StreamAlways, PTL
=============================================================================
