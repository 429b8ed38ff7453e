---------------------------------- MODULE Wire ----------------------------------
(***************************************************************************)
(* One client connection as a stream of bytes: commands are formatted into *)
(* frames, the stream arrives in pieces, every piece do_read takes is one  *)
(* job, and JsonProcess parses the jobs back into commands.                *)
(*                                                                         *)
(* Sources: src/src/yymm_svr/cmdproc.cpp (JsonProcess),                    *)
(* src/src/event/yylibevent.cpp (do_read), and what Codec models.          *)
(*                                                                         *)
(* The other threads and the other connections are in BossWorker and       *)
(* MmsServer; here the worker of the connection has its jobs in order and  *)
(* to itself, and what a command does beyond the buffers is left out.      *)
(***************************************************************************)
EXTENDS Codec, FiniteSets

CONSTANTS
  Sends,      (* kinds of commands sent, each with the length of its text  *)
  Escs,       (* places of a text that hold the value of PRE_CHAR          *)
  Chunk,      (* bytes one recv takes: 1024 in the code                    *)
  MaxCmds,    (* bound on the commands sent                                *)
  MaxJobs,    (* bound on the jobs waiting                                 *)
  MaxCuts     (* bound on the reads that end inside a frame                *)

(* AES and AESLOGOUT wrap another command and a LOGOUT in an encrypted     *)
(* frame; the id of an UNKNOWN one is not in LookforMap's table.           *)
Wraps == {"AES", "AESLOGOUT"}
CmdKinds == {"LOGIN", "LOGOUT", "PLAIN", "UNKNOWN"} \cup Wraps

(* A JSON text is never empty.                                             *)
ASSUME SendsAssumption == \A p \in Sends : p[1] \in CmdKinds /\ p[2] \in Nat \ {0}
ASSUME EscsAssumption == Escs \subseteq Nat
ASSUME WireBoundsAssumption == Chunk \in Nat \ {0} /\ {MaxCmds, MaxJobs, MaxCuts} \subseteq Nat

VARIABLES
  sql,       (* the worker is connected to MySQL (mysql->_sql)             *)
  cmds,      (* the commands sent, by number                               *)
  stream,    (* bytes sent and not read by do_read                         *)
  taken,     (* the number of bytes do_read has taken                      *)
  ends,      (* the positions in the stream where a frame ends             *)
  readbuffer, (* the local readbuffer of do_read                           *)
  jobs,      (* the worker's queue: the readbuffers                        *)
  sess,      (* the session: on, its readbuffer, its AES key               *)
  state,     (* the local state of JsonProcess: "none", "live", "gone"     *)
  buf,       (* the local buf of JsonProcess                               *)
  parsed,    (* what ParseCmd has returned                                 *)
  pc,        (* "idle", "loop", "switch", "spin", "thrown"                 *)
  done,      (* the commands executed                                      *)
  refused,   (* closefd has been called                                    *)
  cut,       (* the number of pieces do_read took that end inside a frame  *)
  logins     (* the number of LOGINs executed: the last AES key            *)

wireVars == <<sql, cmds, stream, taken, ends, readbuffer, jobs, sess, state, buf,
              parsed, pc, done, refused, cut, logins>>
inVars == <<sql, cmds, stream, taken, ends, readbuffer>>

NoSession == [on |-> FALSE, readbuffer |-> NewBuffer, key |-> 0]

WireInit ==
  /\ sql \in BOOLEAN
  /\ cmds = <<>>
  /\ stream = <<>>
  /\ taken = 0
  /\ ends = {0}
  /\ readbuffer = NewBuffer
  /\ jobs = <<>>
  /\ sess = NoSession
  /\ state = "none"
  /\ buf = NewBuffer
  /\ parsed = Failed("BUFSIZE")
  /\ pc = "idle"
  /\ done = <<>>
  /\ refused = FALSE
  /\ cut = 0
  /\ logins = 0
-----------------------------------------------------------------------------
(* Texts: a byte of a text is above the bytes of a header, and says whose  *)
(* text it belongs to and whether the text begins with it; but toCmd       *)
(* escapes nothing, so a string may hold PRE_CHAR.  The two braces at the  *)
(* end of a text are none.  The text of a wrapped command holds the base64 *)
(* of its sealed frame.                                                    *)
FirstByte(n) == Radix + HeaderSize + 2 * n
Text(n, len) ==
  [i \in 1 .. len |-> CASE i = 1 -> FirstByte(n)
                       [] i # 1 /\ i \in Escs /\ i < len - 1 -> PreChar
                       [] OTHER -> FirstByte(n) + 1]

Left == [i \in 1 .. BlockSize |-> PreChar]
Sealed(n, len, key) == AESEncrypt(FormatCmd(Text(n, len)), key, Left)

OuterTexts == [n \in 1 .. Len(cmds) |-> Text(n, cmds[n].text)]
InnerTexts == [n \in 1 .. Len(cmds) |-> Text(n, cmds[n].len)]

(* The commands that LookforMap knows.                                     *)
Known == {n \in 1 .. Len(cmds) : cmds[n].kind # "UNKNOWN"}

Overlong(c) == c.text + HeaderSize >= WordRange

(* The client sends a command; a wrapped one under a key it was given.     *)
PeerSend(kind, len, key) ==
  /\ Len(cmds) < MaxCmds
  /\ key > 0 <=> kind \in Wraps
  /\ LET n == Len(cmds) + 1
         ser == IF kind \in Wraps THEN Sealed(n, len, key) ELSE <<>>
         text == IF kind \in Wraps THEN Base64Size(Len(ser)) ELSE len
         frame == FormatCmd(Text(n, text))
     IN  /\ cmds' = Append(cmds, [kind |-> kind, len |-> len, key |-> key,
                                  text |-> text, ser |-> ser])
         /\ stream' = stream \o frame
         /\ ends' = ends \cup {taken + Len(stream) + Len(frame)}
  /\ UNCHANGED <<sql, taken, readbuffer, jobs, sess, state, buf, parsed, pc, done, refused, cut,
                 logins>>

(* do_read: a recv that fills its array, to be followed by another ...     *)
RecvFull ==
  /\ Len(stream) > Chunk
  /\ readbuffer' = BufferAppend(readbuffer, SubSeq(stream, 1, Chunk))
  /\ stream' = SubSeq(stream, Chunk + 1, Len(stream))
  /\ taken' = taken + Chunk
  /\ UNCHANGED <<sql, cmds, ends, jobs, sess, state, buf, parsed, pc, done, refused, cut,
                 logins>>

(* ... and one after which no more has arrived: the readbuffer is a job.   *)
RecvLast(k) ==
  /\ Len(jobs) < MaxJobs
  /\ \/ taken + k \in ends /\ cut' = cut
     \/ taken + k \notin ends /\ cut < MaxCuts /\ cut' = cut + 1
  /\ jobs' = Append(jobs, BufferAppend(readbuffer, SubSeq(stream, 1, k)))
  /\ readbuffer' = NewBuffer
  /\ stream' = SubSeq(stream, k + 1, Len(stream))
  /\ taken' = taken + k
  /\ UNCHANGED <<sql, cmds, ends, sess, state, buf, parsed, pc, done, refused, logins>>

Reading == RecvFull \/ \E k \in 1 .. Chunk : k <= Len(stream) /\ RecvLast(k)
-----------------------------------------------------------------------------
(* JsonProcess.                                                            *)

(* The job is appended to the session's readbuffer, becomes it, or, with   *)
(* no session, stays the worker's own.                                     *)
TakeJob ==
  /\ pc = "idle" /\ jobs # <<>>
  /\ jobs' = Tail(jobs)
  /\ buf' = IF sess.on /\ sess.readbuffer # NewBuffer
            THEN BufferAppend(sess.readbuffer, Head(jobs).bytes)
            ELSE Head(jobs)
  /\ state' = IF sess.on THEN "live" ELSE "none"
  /\ pc' = "loop"
  /\ UNCHANGED <<inVars, sess, parsed, done, refused, cut, logins>>

(* ParseCmd at the head of the loop.                                       *)
Parse ==
  /\ pc = "loop"
  /\ parsed' = ParseCmd(buf.bytes, OuterTexts, Known)
  /\ pc' = "switch"
  /\ UNCHANGED <<inVars, jobs, sess, state, buf, done, refused,
                 cut, logins>>

(* buf is the session's readbuffer: it stays when JsonProcess returns.     *)
Return(b, s) ==
  /\ parsed' = Failed("BUFSIZE")
  /\ IF b.bytes # <<>>
     THEN buf' = b /\ pc' = "loop" /\ sess' = s
     ELSE /\ buf' = NewBuffer
          /\ pc' = "idle"
          /\ sess' = IF s.on THEN [s EXCEPT !.readbuffer = b] ELSE s

(* Mutant: what follows a command in the buffer is dropped with it.        *)
ConsumeAll(s) == Return(BufferClear(buf), s)

(* buf->read(NULL, offset).                                                *)
Consume(s) == Return(BufferRead(buf, parsed.size), s)

AtCmd(kind) == pc = "switch" /\ parsed.err = "SUCCESS" /\ cmds[parsed.cmd].kind = kind

(* The state a LOGIN works on: with none a session is made, which takes    *)
(* the readbuffer over.                                                    *)
LoginState == IF state = "none" THEN [NoSession EXCEPT !.on = TRUE] ELSE sess

(* Mutant: a key is made for the answer and another one for the session.   *)
LoginTwoKeys ==
  /\ AtCmd("LOGIN")
  /\ logins' = logins + 2
  /\ Consume([LoginState EXCEPT !.key = logins + 2])
  /\ refused' = refused
  /\ state' = IF state = "none" THEN "live" ELSE state
  /\ done' = Append(done, parsed.cmd)
  /\ UNCHANGED <<inVars, jobs, cut>>

(* LOGIN and LoginCmd.  CheckWhiteList fails without a connection to MySQL *)
(* and the LOGIN is refused: an answer, closefd, and the key stays as it   *)
(* was.  Else the state gets a new AES key.                                *)
Login ==
  /\ AtCmd("LOGIN")
  /\ IF sql
     THEN /\ logins' = logins + 1
          /\ Consume([LoginState EXCEPT !.key = logins + 1])
          /\ refused' = refused
     ELSE /\ logins' = logins
          /\ Consume(LoginState)
          /\ refused' = TRUE
  /\ state' = IF state = "none" THEN "live" ELSE state
  /\ done' = Append(done, parsed.cmd)
  /\ UNCHANGED <<inVars, jobs, cut>>

(* Any other command without a state is left in the buffer: the loop never *)
(* ends.                                                                   *)
NotLogin ==
  /\ pc = "switch" /\ parsed.err = "SUCCESS" /\ cmds[parsed.cmd].kind # "LOGIN"
  /\ state = "none"
  /\ pc' = "spin"
  /\ UNCHANGED <<inVars, jobs, sess, state, buf, parsed, done,
                 refused, cut, logins>>

Plain ==
  /\ AtCmd("PLAIN") /\ state # "none"
  /\ Consume(sess)
  /\ done' = Append(done, parsed.cmd)
  /\ UNCHANGED <<inVars, jobs, state, refused, cut, logins>>

(* del_state: the session leaves the maps; the local state, key and all,   *)
(* stays in use for the rest of the job.                                   *)
DelState == [NoSession EXCEPT !.key = sess.key]

Logout ==
  /\ AtCmd("LOGOUT") /\ state # "none"
  /\ Consume(DelState)
  /\ state' = "gone"
  /\ done' = Append(done, parsed.cmd)
  /\ UNCHANGED <<inVars, jobs, refused, cut, logins>>

(* What ParseCmd may find in a frame decrypted under another key than its  *)
(* own: any bytes at all, among them a PRE_CHAR and a length word below 3; *)
(* but not the JSON text of a command.                                     *)
Garbled == {Failed(err) : err \in {"BUFSIZE", "ESC", "JSON", "THROW"}}

(* UnFormat of a wrapped command: decode, decrypt under the state's key,   *)
(* parse the frame inside.  The possible results.                          *)
UnFormat(n) ==
  CASE ~AESDecryptOk(cmds[n].ser) -> {Failed("UNKNOWED")}
    [] AESDecryptOk(cmds[n].ser) /\ cmds[n].key = sess.key ->
         {ParseCmd(AESDecrypt(cmds[n].ser, sess.key), InnerTexts, Known)}
    [] OTHER -> Garbled

(* A wrapped command is executed when UnFormat succeeds (goto NextRun; a   *)
(* LOGOUT ends the session as above), else it is passed over.              *)
Wrapped ==
  /\ \E kind \in Wraps : AtCmd(kind)
  /\ state # "none"
  /\ \E r \in UnFormat(parsed.cmd) :
       \/ /\ r.err = "THROW"
          /\ pc' = "thrown"
          /\ UNCHANGED <<sess, state, buf, parsed, done>>
       \/ /\ r.err = "SUCCESS"
          /\ IF cmds[r.cmd].kind = "AESLOGOUT"
             THEN Consume(DelState) /\ state' = "gone"
             ELSE Consume(sess) /\ state' = state
          /\ done' = Append(done, r.cmd)
       \/ /\ r.err \notin {"THROW", "SUCCESS"}
          /\ Consume(sess)
          /\ UNCHANGED <<state, done>>
  /\ UNCHANGED <<inVars, jobs, refused, cut, logins>>

(* Anything ParseCmd rejects: the data is dropped, the connection closed.  *)
Refuse ==
  /\ pc = "switch" /\ parsed.err \in {"BUFSIZE", "ESC", "JSON", "UNKNOWED"}
  /\ Return(BufferClear(buf), sess)
  /\ refused' = TRUE
  /\ UNCHANGED <<inVars, jobs, state, done, cut, logins>>

(* The exception leaves the thread: the process ends.                      *)
Throw ==
  /\ pc = "switch" /\ parsed.err = "THROW"
  /\ pc' = "thrown"
  /\ UNCHANGED <<inVars, jobs, sess, state, buf, parsed, done,
                 refused, cut, logins>>

JsonProcess ==
  \/ TakeJob \/ Parse \/ Login \/ NotLogin \/ Plain \/ Logout \/ Wrapped
  \/ Refuse \/ Throw

WireNext ==
  \/ \E p \in Sends, key \in 0 .. logins : PeerSend(p[1], p[2], key)
  \/ Reading
  \/ JsonProcess

(* The event thread reads what has arrived and the worker runs.            *)
WireSpec ==
  WireInit /\ [][WireNext]_wireVars /\ WF_wireVars(Reading) /\ WF_wireVars(JsonProcess)
-----------------------------------------------------------------------------
(* Properties.                                                             *)

Buffer == [bytes : Seq(Nat), cap : Nat]

WireTypeOK ==
  /\ sql \in BOOLEAN
  /\ cmds \in Seq([kind : CmdKinds, len : Nat, key : 0 .. MaxCmds, text : Nat,
                   ser : Seq(Int)])
  /\ stream \in Seq(Nat)
  /\ taken \in Nat
  /\ ends \subseteq Nat
  /\ readbuffer \in Buffer
  /\ jobs \in Seq(Buffer)
  /\ sess \in [on : BOOLEAN, readbuffer : Buffer, key : 0 .. MaxCmds]
  /\ state \in {"none", "live", "gone"}
  /\ buf \in Buffer
  /\ parsed.cmd \in 0 .. MaxCmds /\ parsed.size \in Nat
  /\ pc \in {"idle", "loop", "switch", "spin", "thrown"}
  /\ done \in Seq(1 .. MaxCmds)
  /\ refused \in BOOLEAN
  /\ cut \in 0 .. MaxCuts
  /\ logins \in 0 .. MaxCmds

(* append never writes past the memory of a fastbuffer, whatever pieces a  *)
(* buffer is filled with, consumed and filled again.                       *)
BuffersFit ==
  /\ Fits(readbuffer)
  /\ Fits(buf)
  /\ Fits(sess.readbuffer)
  /\ \A i \in 1 .. Len(jobs) : Fits(jobs[i])

SomeOverlong == \E n \in 1 .. Len(cmds) : Overlong(cmds[n])
SomeUnknown == \E n \in 1 .. Len(cmds) : cmds[n].kind = "UNKNOWN"

(* The command was wrapped under a key that a LOGIN sent before it has     *)
(* replaced.                                                               *)
StaleKey(n) ==
  /\ n <= Len(cmds) /\ cmds[n].kind \in Wraps
  /\ cmds[n].key # Cardinality({m \in 1 .. n - 1 : cmds[m].kind = "LOGIN"})

(* Commands are executed at most once and in the order they were sent,     *)
(* however the stream is cut into jobs.  While every job ends with a frame *)
(* and every id is known none is left out, but for one wrapped under a key *)
(* that a LOGIN sent before it has replaced.                               *)
CommandsInOrder ==
  /\ \A i, j \in 1 .. Len(done) : i < j => done[i] < done[j]
  /\ cut = 0 /\ ~SomeOverlong /\ ~SomeUnknown /\ done # <<>> =>
       \A n \in 1 .. done[Len(done)] : StaleKey(n) \/ \E i \in 1 .. Len(done) : done[i] = n

(* A LOGIN has been executed that CheckWhiteList refused.                  *)
LoginRefused == ~sql /\ \E i \in 1 .. Len(done) : cmds[done[i]].kind = "LOGIN"

(* A wrapped command whose key a LOGIN executed since has replaced.        *)
KeyReplaced(n) == cmds[n].kind \in Wraps /\ cmds[n].key < logins

(* The server gives a connection up only when a read ended inside a frame, *)
(* a command was too long for its length word, an id is unknown or a LOGIN *)
(* was refused; a well framed command never closes it otherwise, whatever  *)
(* its text holds and however it is wrapped.  The process ends by ParseCmd *)
(* only through a command too long, or one still wrapped under a key that  *)
(* the server has replaced: a read that ends inside a frame never does it, *)
(* although the next piece may begin with any byte of a text or a header.  *)
RefusedForCause ==
  /\ refused => cut > 0 \/ SomeOverlong \/ SomeUnknown \/ LoginRefused
  /\ pc = "thrown" => SomeOverlong \/ \E n \in 1 .. Len(cmds) : KeyReplaced(n)

(* A command too long for its length word is never executed: no part of it *)
(* passes for a command.                                                   *)
OverlongNeverRuns == \A i \in 1 .. Len(done) : ~Overlong(cmds[done[i]])

(* base64encode and base64decode never write past the strings they have   *)
(* sized: pemLen characters, whose terminator takes the place behind them, *)
(* and orgLen bytes.                                                       *)
Base64Fits ==
  \A n \in 1 .. Len(cmds) :
    LET size == Len(cmds[n].ser) IN
    /\ Base64Size(size) <= PemLen(size)
    /\ DecodedSize(size) <= OrgLen(Base64Size(size))

(* Every command sent is executed, unless the connection or the process is *)
(* given up, the client was not logged in, or the command's key was        *)
(* replaced.                                                               *)
CommandsExecuted ==
  \A n \in 1 .. MaxCmds :
    Len(cmds) >= n ~>
      \/ \E i \in 1 .. Len(done) : done[i] = n
      \/ StaleKey(n)
      \/ refused
      \/ pc \in {"spin", "thrown"}
=============================================================================
