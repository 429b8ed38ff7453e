------------------------------ MODULE MmsServer ------------------------------
(***************************************************************************)
(* Sessions of the server: connections come and go on reusable descriptor  *)
(* numbers, the event thread turns what they send into jobs, the workers   *)
(* run JsonProcess (client port) or ProcessMmsExecData (management port)   *)
(* on them, and answer through the outgoing queue.                         *)
(*                                                                         *)
(* Sources: src/src/yymm_svr/cmdproc.cpp, mmsexecmag.cpp, yymms_svr.cpp,   *)
(* src/src/event/yylibevent.cpp, src/include/event_hash.h.                 *)
(*                                                                         *)
(* The queues between the threads are taken at what BossWorker and         *)
(* OutQueue establish: a worker takes the next job of its queue when there *)
(* is one, the event thread takes the next buffer when there is one.  A    *)
(* command is cut into one step per access to state another thread reads:  *)
(* the two maps, the Item_data of a session, the outgoing queue.           *)
(***************************************************************************)
EXTENDS Naturals, Sequences, FiniteSets

CONSTANTS
  ThreadNum,   (* worker threads                                           *)
  Fds,         (* descriptor numbers accept may return                     *)
  YyIDs,       (* the users that log in                                    *)
  Kinds,       (* the commands the clients of this instance send           *)
  SqlHandles,  (* whether mysql->_sql may be non-null, null or either      *)
  MaxConns,    (* bound on the connections accepted                        *)
  MaxClients,  (* bound on those that come in by the client port           *)
  MaxCloses,   (* bound on the connections their peers close               *)
  MaxMsgs      (* bound on the commands the clients send                   *)

ClientKinds == {"LOGIN", "LOGIN1", "LOGOUT", "OPENURL", "OTHER", "BAD"}

ASSUME ThreadNumAssumption == ThreadNum \in Nat \ {0}
ASSUME FdsAssumption == Fds \subseteq Nat \ {0}
ASSUME KindsAssumption == Kinds \subseteq ClientKinds
ASSUME SqlAssumption == SqlHandles \subseteq BOOLEAN
ASSUME BoundsAssumption == {MaxConns, MaxClients, MaxCloses, MaxMsgs} \subseteq Nat
ASSUME UsersAssumption == 0 \notin YyIDs

Workers == 0 .. (ThreadNum - 1)
Conns == 1 .. MaxConns
Items == 1 .. MaxMsgs

VARIABLES
  open,      (* YYLibEvent's fd_state map: the connection on each fd, or 0 *)
  port,      (* the listening port each connection came in by              *)
  inbox,     (* what each connection has sent and do_read has not read     *)
  fin,       (* the connections whose peer is gone                         *)
  conns,     (* the number of connections accepted                         *)
  nmsg,      (* the number of commands sent                                *)
  jobs,      (* the job queue of each worker                               *)
  wk,        (* the local variables of each worker                         *)
  items,     (* the Item_data objects                                      *)
  fdmap,     (* MmsServer's own hash_map_lock: fd -> session               *)
  usermap,   (* _userData: yyID -> session                                 *)
  outq,      (* the buffers on their way to the event thread               *)
  wbuf,      (* fd_state::writebuffer                                      *)
  got,       (* what each connection has received                          *)
  sql,       (* whether each worker's mysql->_sql is non-null              *)
  shells,    (* the yyIDs of the shell clients started, not yet connected  *)
  rude,      (* connections closed with data pending and no session yet    *)
  clean      (* connections accepted on an fd nothing was pending for      *)

netVars == <<port, fin, conns, nmsg, got, clean>>
vars == <<open, port, inbox, fin, conns, nmsg, jobs, wk, items, fdmap, usermap,
          outq, wbuf, got, sql, shells, rude, clean>>

(* A command is numbered in the order of sending; the number also stands   *)
(* for the url of an OPENURL.  A new Item_data is named by the LOGIN that  *)
(* made it.  n = 0: SVR_INIT of a shell, or the simulated LOGOUT.          *)
Msg == [cmd : ClientKinds \cup {"SVR_INIT"}, y : YyIDs \cup {0}, n : 0 .. MaxMsgs]
LogoutCmd == [cmd |-> "LOGOUT", y |-> 0, n |-> 0]

(* org is the connection the data came from, 0 for fd_close's own Logout.  *)
Job == [fd : Fds, port : {"client", "shell"}, msgs : Seq(Msg), org : 0 .. MaxConns]

(* Item_data.  yyID, shell (shellClient_fd) and url are fields of the      *)
(* class.  The others only record what happened: the connection it was     *)
(* made for, whether LOGOUT has ended it, the last url answered with bSucc,*)
(* the urls sent, by descriptor, the descriptors registered by SVR_INIT    *)
(* and not sent MMS_EXIT, and whether one was registered after ShellExit.  *)
NewItem(c) ==
  [org |-> c, yyID |-> 0, shell |-> 0, url |-> 0,
   gone |-> FALSE, ok |-> 0, told |-> {}, left |-> {}, late |-> FALSE]

(* The locals of a worker: st is the url it has written and that may still *)
(* be in its processor's store buffer; succ is bSucc of OPENURL.           *)
Idle ==
  [pc |-> "idle", fd |-> 0, port |-> "client", org |-> 0, msgs |-> <<>>,
   item |-> 0, st |-> 0, succ |-> TRUE]

Init ==
  /\ open = [fd \in Fds |-> 0]
  /\ port = [c \in Conns |-> "client"]
  /\ inbox = [c \in Conns |-> <<>>]
  /\ fin = {}
  /\ conns = 0
  /\ nmsg = 0
  /\ jobs = [w \in Workers |-> <<>>]
  /\ wk = [w \in Workers |-> Idle]
  /\ items = [i \in Items |-> NewItem(0)]
  /\ fdmap = [fd \in Fds |-> 0]
  /\ usermap = [y \in YyIDs |-> 0]
  /\ outq = <<>>
  /\ wbuf = [fd \in Fds |-> <<>>]
  /\ got = [c \in Conns |-> <<>>]
  /\ sql \in [Workers -> SqlHandles]
  /\ shells = <<>>
  /\ rude = {}
  /\ clean = {}

-----------------------------------------------------------------------------
(* Data of descriptor fd is queued for a worker or being processed.        *)
Busy(fd) ==
  \/ \E w \in Workers : \E i \in 1 .. Len(jobs[w]) : jobs[w][i].fd = fd
  \/ \E w \in Workers : wk[w].pc # "idle" /\ wk[w].fd = fd

(* Data of connection c is queued for a worker or being processed.         *)
Unprocessed(c) ==
  \/ \E w \in Workers : \E i \in 1 .. Len(jobs[w]) : jobs[w][i].org = c
  \/ \E w \in Workers : wk[w].pc # "idle" /\ wk[w].org = c

(* Something may still be sent to, or looked up under, this number.        *)
Pending(fd) ==
  \/ Busy(fd)
  \/ fdmap[fd] # 0
  \/ \E i \in 1 .. Len(outq) : outq[i].fd = fd
  \/ \E i \in Items : items[i].shell = fd

(* The connections' peers: external.                                       *)

PeerSend(c, cmd, y) ==
  /\ c \in {open[fd] : fd \in Fds}
  /\ c \notin fin
  /\ nmsg < MaxMsgs
  /\ y # 0 <=> cmd = "LOGIN"
  /\ port[c] = "shell" => cmd \in {"OTHER", "BAD"}
  /\ nmsg' = nmsg + 1
  /\ inbox' = [inbox EXCEPT ![c] = Append(@, [cmd |-> cmd, y |-> y, n |-> nmsg + 1])]
  /\ UNCHANGED <<open, port, fin, conns, jobs, wk, items, fdmap, usermap, outq,
                 wbuf, got, sql, shells, rude, clean>>

PeerClose(c) ==
  /\ c \in {open[fd] : fd \in Fds}
  /\ c \notin fin
  /\ Cardinality(fin) < MaxCloses
  /\ fin' = fin \cup {c}
  /\ UNCHANGED <<open, port, inbox, conns, nmsg, jobs, wk, items, fdmap, usermap,
                 outq, wbuf, got, sql, shells, rude, clean>>

-----------------------------------------------------------------------------
(* The event thread.                                                       *)

(* do_accept, alloc_fd_state.  A shell client, once started, connects to   *)
(* the management port and introduces itself with SVR_INIT.                *)
Accept(fd, p) ==
  /\ open[fd] = 0
  /\ conns < MaxConns
  /\ LET c == conns + 1 IN
       /\ conns' = c
       /\ open' = [open EXCEPT ![fd] = c]
       /\ port' = [port EXCEPT ![c] = p]
       /\ clean' = IF Pending(fd) THEN clean ELSE clean \cup {c}
       /\ \/ /\ p = "client"
             /\ Cardinality({d \in 1 .. conns : port[d] = "client"}) < MaxClients
             /\ UNCHANGED <<inbox, shells>>
          \/ /\ p = "shell" /\ shells # <<>>
             /\ inbox' = [inbox EXCEPT ![c] =
                            <<[cmd |-> "SVR_INIT", y |-> Head(shells), n |-> 0]>>]
             /\ shells' = Tail(shells)
  /\ UNCHANGED <<fin, nmsg, jobs, wk, items, fdmap, usermap, outq, wbuf, got, sql,
                 rude>>

(* Mutant: jobs are dealt out in turn, whatever their socket.              *)
ThreadOfInTurn(fd) == nmsg % ThreadNum

(* data_receive: the job goes to the fixed thread of its descriptor.       *)
ThreadOf(fd) == fd % ThreadNum
DataReceive(job) ==
  jobs' = [jobs EXCEPT ![ThreadOf(job.fd)] = Append(@, job)]

(* Mutant: fd_close leaves the session alone.                              *)
FdCloseSilent(fd) == jobs' = jobs

(* fd_close: a session still known under fd gets a simulated LOGOUT, on    *)
(* the client port whatever port the connection came in by.                *)
FdClose(fd) ==
  IF fdmap[fd] # 0
    THEN DataReceive([fd |-> fd, port |-> "client", msgs |-> <<LogoutCmd>>, org |-> 0])
    ELSE jobs' = jobs

(* free_fd_state: fd_close, del_state, closesocket.  Unread input and      *)
(* unsent output go with the socket.                                       *)
FreeFdState(fd) ==
  /\ FdClose(fd)
  /\ open' = [open EXCEPT ![fd] = 0]
  /\ inbox' = [inbox EXCEPT ![open[fd]] = <<>>]
  /\ wbuf' = [wbuf EXCEPT ![fd] = <<>>]
  /\ rude' = IF fdmap[fd] = 0 /\ Unprocessed(open[fd])
               THEN rude \cup {open[fd]} ELSE rude

(* do_read that ends in EAGAIN: all that has arrived is one job.           *)
DoRead(fd) ==
  /\ open[fd] # 0
  /\ LET c == open[fd] IN
       /\ inbox[c] # <<>> /\ c \notin fin
       /\ DataReceive([fd |-> fd, port |-> port[c], msgs |-> inbox[c], org |-> c])
       /\ inbox' = [inbox EXCEPT ![c] = <<>>]
  /\ UNCHANGED netVars
  /\ UNCHANGED <<open, wk, items, fdmap, usermap, outq, wbuf, sql, shells, rude>>

(* do_read that meets the end of the stream or an error, do_write that     *)
(* fails: what was read in the same call is deleted unprocessed.           *)
PeerGone(fd) ==
  /\ open[fd] \in fin
  /\ FreeFdState(fd)
  /\ UNCHANGED netVars
  /\ UNCHANGED <<wk, items, fdmap, usermap, outq, sql, shells>>

(* queue_receive: an empty buffer closes the descriptor, any other is      *)
(* appended to the write buffer; both look only at the descriptor number.  *)
QueueReceive ==
  /\ outq # <<>>
  /\ outq' = Tail(outq)
  /\ LET b == Head(outq) IN
       \/ /\ b.kind = "CLOSE" /\ open[b.fd] # 0
          /\ FreeFdState(b.fd)
       \/ /\ b.kind # "CLOSE" /\ open[b.fd] # 0
          /\ wbuf' = [wbuf EXCEPT ![b.fd] = Append(@, b)]
          /\ UNCHANGED <<open, inbox, jobs, rude>>
       \/ /\ open[b.fd] = 0
          /\ UNCHANGED <<open, inbox, jobs, wbuf, rude>>
  /\ UNCHANGED netVars
  /\ UNCHANGED <<wk, items, fdmap, usermap, sql, shells>>

(* do_write: send() takes the first k buffers whole, and perhaps a part of *)
(* the next one; the write buffer is dropped, also when that was not all   *)
(* of it (writebuffer.read(NULL, sz)).  got counts whole answers: the torn *)
(* piece a short send leaves in the stream is not kept.                    *)
DoWrite(fd) ==
  /\ open[fd] # 0 /\ wbuf[fd] # <<>> /\ open[fd] \notin fin
  /\ \E k \in 0 .. Len(wbuf[fd]) :
       got' = [got EXCEPT ![open[fd]] = @ \o SubSeq(wbuf[fd], 1, k)]
  /\ wbuf' = [wbuf EXCEPT ![fd] = <<>>]
  /\ UNCHANGED <<open, port, inbox, fin, conns, nmsg, jobs, wk, items, fdmap,
                 usermap, outq, sql, shells, rude, clean>>

-----------------------------------------------------------------------------
(* The workers.                                                            *)

workerFrame == <<netVars, open, inbox, jobs, wbuf, sql, rude>>

Cmd(w) == Head(wk[w].msgs)
At(w, kind) == wk[w].pc = "loop" /\ Cmd(w).cmd = kind
(* JsonProcess with a session, the case NextRun and its switch are for.    *)
InSession(w, kind) == At(w, kind) /\ wk[w].port = "client" /\ wk[w].item # 0

Goto(w, pc) == wk' = [wk EXCEPT ![w].pc = pc]

(* buf->read(NULL, offset), and round again while data is left.  The local *)
(* variable state outlives the command.                                    *)
NextCmd(w) ==
  LET k == wk[w] IN
  wk' = [wk EXCEPT ![w] =
           IF Len(k.msgs) = 1 THEN Idle
           ELSE [k EXCEPT !.pc = "loop", !.msgs = Tail(k.msgs), !.succ = TRUE,
                          !.item = IF k.port = "client" THEN k.item ELSE 0]]

(* data_send of an answer to the current command, or to its shell client.  *)
Send(w, fd, kind, n) ==
  outq' = Append(outq, [fd |-> fd, kind |-> kind, n |-> n, org |-> wk[w].org])

(* work_thread takes the next job; JsonProcess looks its session up.       *)
TakeJob(w) ==
  /\ wk[w].pc = "idle" /\ jobs[w] # <<>>
  /\ LET j == Head(jobs[w]) IN
       wk' = [wk EXCEPT ![w] =
                [Idle EXCEPT !.pc = "loop", !.fd = j.fd, !.port = j.port,
                             !.org = j.org, !.msgs = j.msgs,
                             !.item = IF j.port = "client" THEN fdmap[j.fd] ELSE 0]]
  /\ jobs' = [jobs EXCEPT ![w] = Tail(@)]
  /\ UNCHANGED netVars
  /\ UNCHANGED <<open, inbox, items, fdmap, usermap, outq, wbuf, sql, shells, rude>>

(* LOGIN without a session: a new Item_data, add_state(fd, state) ...      *)
LoginNew(w) ==
  /\ At(w, "LOGIN") /\ wk[w].port = "client" /\ wk[w].item = 0
  /\ LET i == Cmd(w).n IN
       /\ items' = [items EXCEPT ![i] = NewItem(wk[w].org)]
       /\ fdmap' = [fdmap EXCEPT ![wk[w].fd] = i]
       /\ wk' = [wk EXCEPT ![w].item = i, ![w].pc = "adduser"]
  /\ UNCHANGED workerFrame /\ UNCHANGED <<usermap, outq, shells>>

(* Mutant: the account fields are filled from the descriptor.              *)
LoginAccountOfFd(w) ==
  /\ wk[w].pc = "adduser" \/ InSession(w, "LOGIN")
  /\ usermap' = IF wk[w].pc = "adduser"
                  THEN [usermap EXCEPT ![Cmd(w).y] = wk[w].item] ELSE usermap
  /\ items' = [items EXCEPT ![wk[w].item].yyID = wk[w].fd]
  /\ Goto(w, "check")
  /\ UNCHANGED workerFrame /\ UNCHANGED <<fdmap, outq, shells>>

(* ... _userData.add_state(login->yyID, state) and the account fields.  A  *)
(* LOGIN within a session only overwrites the fields.                      *)
LoginAccount(w) ==
  /\ wk[w].pc = "adduser" \/ InSession(w, "LOGIN")
  /\ usermap' = IF wk[w].pc = "adduser"
                  THEN [usermap EXCEPT ![Cmd(w).y] = wk[w].item] ELSE usermap
  /\ items' = [items EXCEPT ![wk[w].item].yyID = Cmd(w).y]
  /\ Goto(w, "check")
  /\ UNCHANGED workerFrame /\ UNCHANGED <<fdmap, outq, shells>>

(* CheckWhiteList: true whenever the database handle exists; the rows the  *)
(* query returns are fetched and not looked at.                            *)
CheckWhiteList(w) == sql[w]

(* LoginCmd: the answer.  With a client key RSA cannot use, none is sent.  *)
LoginCmd(w) ==
  /\ wk[w].pc = "check"
  /\ \/ /\ CheckWhiteList(w)
        /\ Send(w, wk[w].fd, "LOGIN_OK", Cmd(w).n) \/ outq' = outq
        /\ NextCmd(w)
     \/ /\ ~CheckWhiteList(w)
        /\ Send(w, wk[w].fd, "LOGIN_NO", Cmd(w).n)
        /\ Goto(w, "refuse")
  /\ UNCHANGED workerFrame /\ UNCHANGED <<items, fdmap, usermap, shells>>

(* LoginCmd: closefd after a refusal.                                      *)
LoginRefused(w) ==
  /\ wk[w].pc = "refuse"
  /\ Send(w, wk[w].fd, "CLOSE", 0)
  /\ NextCmd(w)
  /\ UNCHANGED workerFrame /\ UNCHANGED <<items, fdmap, usermap, shells>>

(* A command other than LOGIN without a session: break leaves the command  *)
(* in the buffer, and the loop parses it again for ever.                   *)
NotLogin(w) ==
  /\ wk[w].pc = "loop" /\ wk[w].port = "client" /\ wk[w].item = 0
  /\ Cmd(w).cmd \notin {"LOGIN", "BAD"}
  /\ Goto(w, "spin")
  /\ UNCHANGED workerFrame /\ UNCHANGED <<items, fdmap, usermap, outq, shells>>

Login1(w) ==
  /\ InSession(w, "LOGIN1")
  /\ Send(w, wk[w].fd, "LOGIN1_RES", Cmd(w).n)
  /\ NextCmd(w)
  /\ UNCHANGED workerFrame /\ UNCHANGED <<items, fdmap, usermap, shells>>

(* A frame that parses to a command nobody handles, or whose AES content   *)
(* cannot be decoded; on the management port, anything but SVR_INIT.       *)
OtherCmd(w) ==
  /\ InSession(w, "OTHER") \/ (At(w, "OTHER") /\ wk[w].port = "shell")
  /\ NextCmd(w)
  /\ UNCHANGED workerFrame /\ UNCHANGED <<items, fdmap, usermap, outq, shells>>

(* A frame ParseCmd rejects, an incomplete one included: the rest of the   *)
(* data is dropped and a client's connection closed.                       *)
BadFrame(w) ==
  /\ At(w, "BAD")
  /\ IF wk[w].port = "client" THEN Send(w, wk[w].fd, "CLOSE", 0) ELSE outq' = outq
  /\ wk' = [wk EXCEPT ![w] = Idle]
  /\ UNCHANGED workerFrame /\ UNCHANGED <<items, fdmap, usermap, shells>>

(* LOGOUT: the answer, ShellExit, _userData.del_state, del_state.          *)
Logout(w) ==
  /\ InSession(w, "LOGOUT")
  /\ Send(w, wk[w].fd, "LOGOUT_RES", Cmd(w).n)
  /\ Goto(w, "shellexit")
  /\ UNCHANGED workerFrame /\ UNCHANGED <<items, fdmap, usermap, shells>>

(* Mutant: MMS_EXIT goes to the descriptor of the client.                  *)
ShellExitToClient(w) ==
  /\ wk[w].pc = "shellexit"
  /\ Send(w, wk[w].fd, "MMS_EXIT", 0)
  /\ items' = [items EXCEPT ![wk[w].item].left = @ \ {wk[w].fd}]
  /\ Goto(w, "deluser")
  /\ UNCHANGED workerFrame /\ UNCHANGED <<fdmap, usermap, shells>>

ShellExit(w) ==
  /\ wk[w].pc = "shellexit"
  /\ LET s == items[wk[w].item].shell IN
       /\ IF s # 0 THEN Send(w, s, "MMS_EXIT", 0) ELSE outq' = outq
       /\ items' = [items EXCEPT ![wk[w].item].left = @ \ {s}]
  /\ Goto(w, "deluser")
  /\ UNCHANGED workerFrame /\ UNCHANGED <<fdmap, usermap, shells>>

LogoutDelUser(w) ==
  /\ wk[w].pc = "deluser"
  /\ usermap' = [usermap EXCEPT ![items[wk[w].item].yyID] = 0]
  /\ Goto(w, "delfd")
  /\ UNCHANGED workerFrame /\ UNCHANGED <<items, fdmap, outq, shells>>

(* Mutant: LOGOUT leaves the session in the map of descriptors.            *)
LogoutKeepFd(w) ==
  /\ wk[w].pc = "delfd"
  /\ NextCmd(w)
  /\ UNCHANGED workerFrame /\ UNCHANGED <<items, fdmap, usermap, outq, shells>>

LogoutDelFd(w) ==
  /\ wk[w].pc = "delfd"
  /\ fdmap' = [fdmap EXCEPT ![wk[w].fd] = 0]
  /\ items' = [items EXCEPT ![wk[w].item].gone = TRUE]
  /\ NextCmd(w)
  /\ UNCHANGED workerFrame /\ UNCHANGED <<usermap, outq, shells>>

-----------------------------------------------------------------------------
(* OPENURL and the shell client.  url and shellClient_fd are shared by the *)
(* client's worker and the shell's worker without a lock.  A store may     *)
(* become visible to the other thread late, up to the next locked          *)
(* instruction; the copy of the shared_ptr argument of openURL and of      *)
(* ShellExec is one, the mutex of the outgoing queue another.  The other   *)
(* argument of openURL, shellClient_fd, is read after that copy: compilers *)
(* evaluate these arguments from right to left, C++ leaves it open.        *)

(* state->url = cmd->url, not yet visible.                                 *)
OpenUrl(w) ==
  /\ InSession(w, "OPENURL")
  /\ wk' = [wk EXCEPT ![w].st = Cmd(w).n, ![w].pc = "route"]
  /\ UNCHANGED workerFrame /\ UNCHANGED <<items, fdmap, usermap, outq, shells>>

(* The store reaches the other threads.                                    *)
UrlVisible(w) ==
  /\ wk[w].st # 0
  /\ items' = [items EXCEPT ![wk[w].item].url = wk[w].st, ![wk[w].item].ok = 0]
  /\ wk' = [wk EXCEPT ![w].st = 0]
  /\ UNCHANGED workerFrame /\ UNCHANGED <<fdmap, usermap, outq, shells>>

(* isConnectShellClient.                                                   *)
OpenUrlRoute(w) ==
  /\ wk[w].pc = "route"
  /\ Goto(w, IF items[wk[w].item].shell # 0 THEN "openurl" ELSE "exec")
  /\ UNCHANGED workerFrame /\ UNCHANGED <<items, fdmap, usermap, outq, shells>>

(* openURL(fd, state): the session's url goes to descriptor fd.            *)
TellShell(w, fd) ==
  LET i == wk[w].item IN
  /\ items' = [items EXCEPT ![i].told = @ \cup {<<fd, items[i].url>>}]
  /\ Send(w, fd, "MMS_OPENURL", items[i].url)

OpenUrlTell(w) ==
  /\ wk[w].pc = "openurl" /\ wk[w].st = 0
  /\ TellShell(w, items[wk[w].item].shell)
  /\ wk' = [wk EXCEPT ![w].pc = "answer", ![w].succ = TRUE]
  /\ UNCHANGED workerFrame /\ UNCHANGED <<fdmap, usermap, shells>>

(* Mutant: ShellExec does not look at shellClient_fd again.                *)
ShellExecBlind(w) ==
  /\ wk[w].pc = "exec" /\ wk[w].st = 0
  /\ wk' = [wk EXCEPT ![w].pc = "answer", ![w].succ = TRUE]
  /\ shells' \in {shells, Append(shells, items[wk[w].item].yyID)}
  /\ UNCHANGED workerFrame /\ UNCHANGED <<items, fdmap, usermap, outq>>

(* ShellExec: looks at shellClient_fd once more; starting the process may  *)
(* fail, which the code does not notice.                                   *)
ShellExec(w) ==
  /\ wk[w].pc = "exec" /\ wk[w].st = 0
  /\ LET i == wk[w].item IN
       \/ /\ items[i].shell # 0
          /\ wk' = [wk EXCEPT ![w].pc = "answer", ![w].succ = FALSE]
          /\ UNCHANGED shells
       \/ /\ items[i].shell = 0
          /\ wk' = [wk EXCEPT ![w].pc = "answer", ![w].succ = TRUE]
          /\ shells' \in {shells, Append(shells, items[i].yyID)}
  /\ UNCHANGED workerFrame /\ UNCHANGED <<items, fdmap, usermap, outq>>

OpenUrlAnswer(w) ==
  /\ wk[w].pc = "answer"
  /\ Send(w, wk[w].fd, "OPENURL_RES", Cmd(w).n)
  /\ items' = [items EXCEPT ![wk[w].item].ok = IF wk[w].succ THEN Cmd(w).n ELSE 0]
  /\ NextCmd(w)
  /\ UNCHANGED workerFrame /\ UNCHANGED <<fdmap, usermap, shells>>

(* SVR_INIT on the management port: _userData.get_state(cmd->yyID) ...     *)
SvrInit(w) ==
  /\ At(w, "SVR_INIT")
  /\ LET i == usermap[Cmd(w).y] IN
       IF i = 0 THEN NextCmd(w)
                ELSE wk' = [wk EXCEPT ![w].item = i, ![w].pc = "register"]
  /\ UNCHANGED workerFrame /\ UNCHANGED <<items, fdmap, usermap, outq, shells>>

(* The LOGOUT of session i has passed ShellExit.                           *)
ExitPassed(i) ==
  items[i].gone \/ \E v \in Workers : wk[v].item = i /\ wk[v].pc \in {"deluser", "delfd"}

(* ... state->shellClient_fd = fd ...                                      *)
SvrRegister(w) ==
  /\ wk[w].pc = "register"
  /\ LET i == wk[w].item IN
       items' = [items EXCEPT ![i].shell = wk[w].fd, ![i].left = @ \cup {wk[w].fd},
                              ![i].late = ExitPassed(i)]
  /\ Goto(w, "svrtell")
  /\ UNCHANGED workerFrame /\ UNCHANGED <<fdmap, usermap, outq, shells>>

(* ... openURL(fd, state).                                                 *)
SvrTell(w) ==
  /\ wk[w].pc = "svrtell"
  /\ TellShell(w, wk[w].fd)
  /\ NextCmd(w)
  /\ UNCHANGED workerFrame /\ UNCHANGED <<fdmap, usermap, shells>>

-----------------------------------------------------------------------------
Peers ==
  \E c \in Conns :
    \/ \E cmd \in Kinds, y \in YyIDs \cup {0} : PeerSend(c, cmd, y)
    \/ PeerClose(c)

EventLoop ==
  \/ \E fd \in Fds, p \in {"client", "shell"} : Accept(fd, p)
  \/ \E fd \in Fds : DoRead(fd) \/ PeerGone(fd) \/ DoWrite(fd)
  \/ QueueReceive

Worker(w) ==
  \/ TakeJob(w) \/ NotLogin(w) \/ BadFrame(w) \/ OtherCmd(w)
  \/ LoginNew(w) \/ LoginAccount(w) \/ LoginCmd(w) \/ LoginRefused(w) \/ Login1(w)
  \/ Logout(w) \/ ShellExit(w) \/ LogoutDelUser(w) \/ LogoutDelFd(w)
  \/ OpenUrl(w) \/ UrlVisible(w) \/ OpenUrlRoute(w) \/ OpenUrlTell(w)
  \/ ShellExec(w) \/ OpenUrlAnswer(w)
  \/ SvrInit(w) \/ SvrRegister(w) \/ SvrTell(w)

Next == Peers \/ EventLoop \/ \E w \in Workers : Worker(w)

Spec == Init /\ [][Next]_vars
(* The operating system schedules every worker.                            *)
FairSpec == Spec /\ \A w \in Workers : WF_vars(Worker(w))
-----------------------------------------------------------------------------
(* Properties.                                                             *)

(* Where a worker is, by the command it is at.                             *)
LoginPc == {"adduser", "check", "refuse"}
LogoutPc == {"shellexit", "deluser", "delfd"}
UrlPc == {"route", "openurl", "exec", "answer"}
InitPc == {"register", "svrtell"}
Pc == {"idle", "loop", "spin"} \cup LoginPc \cup LogoutPc \cup UrlPc \cup InitPc

OutKinds == {"LOGIN_OK", "LOGIN_NO", "LOGIN1_RES", "LOGOUT_RES", "OPENURL_RES",
             "MMS_OPENURL", "MMS_EXIT", "CLOSE"}
Out == [fd : Fds, kind : OutKinds, n : 0 .. MaxMsgs, org : 0 .. MaxConns]

TypeOK ==
  /\ open \in [Fds -> 0 .. MaxConns]
  /\ port \in [Conns -> {"client", "shell"}]
  /\ inbox \in [Conns -> Seq(Msg)]
  /\ fin \subseteq Conns
  /\ conns \in 0 .. MaxConns
  /\ nmsg \in 0 .. MaxMsgs
  /\ jobs \in [Workers -> Seq(Job)]
  /\ wk \in [Workers -> [pc : Pc, fd : Fds \cup {0}, port : {"client", "shell"},
                         org : 0 .. MaxConns, msgs : Seq(Msg), item : Items \cup {0},
                         st : 0 .. MaxMsgs, succ : BOOLEAN]]
  /\ items \in [Items -> [org : 0 .. MaxConns, yyID : YyIDs \cup {0},
                          shell : Fds \cup {0}, url : 0 .. MaxMsgs,
                          gone : BOOLEAN, ok : 0 .. MaxMsgs,
                          told : SUBSET (Fds \X (0 .. MaxMsgs)),
                          left : SUBSET Fds, late : BOOLEAN]]
  /\ fdmap \in [Fds -> Items \cup {0}]
  /\ usermap \in [YyIDs -> Items \cup {0}]
  /\ outq \in Seq(Out)
  /\ wbuf \in [Fds -> Seq(Out)]
  /\ got \in [Conns -> Seq(Out)]
  /\ sql \in [Workers -> BOOLEAN]
  /\ shells \in Seq(YyIDs)
  /\ rude \subseteq Conns
  /\ clean \subseteq Conns

(* A connection is served with a session of an earlier connection on the   *)
(* same descriptor only if that one was closed after it had sent data and  *)
(* before its session existed: in every other case the Logout simulated by *)
(* fd_close stands in the queue before the first data of its successor.    *)
NoInheritedSession ==
  \A w \in Workers :
    wk[w].pc # "idle" /\ wk[w].port = "client" /\ wk[w].org # 0 /\ wk[w].item # 0
      => items[wk[w].item].org \in {wk[w].org} \cup rude

(* A client accepted on a descriptor nothing is pending for gets answers   *)
(* to its own commands only, at most one each, in the order it sent them:  *)
(* through read, job queue, worker, outgoing queue and write.              *)
AnswersInOrder ==
  \A c \in clean : port[c] = "client" =>
    /\ \A i \in 1 .. Len(got[c]) : got[c][i].org = c
    /\ \A i, j \in 1 .. Len(got[c]) : i < j => got[c][i].n < got[c][j].n

(* No worker holds the session.                                            *)
SettledSession(i) == \A w \in Workers : wk[w].item # i

(* Once OPENURL has been answered with success, the shell client connected *)
(* for the session has been sent that url, whichever of the client's and   *)
(* the shell's worker came first and however late their unlocked stores to *)
(* url and shellClient_fd become visible.                                  *)
AnsweredUrlReachesShell ==
  \A i \in Items :
    SettledSession(i) /\ items[i].shell # 0 /\ items[i].ok # 0
      => <<items[i].shell, items[i].ok>> \in items[i].told

(* The session a worker serves a client with stands in the map under the   *)
(* client's descriptor until the LOGOUT that the worker itself processes,  *)
(* whatever the event thread and the other workers do meanwhile: so state, *)
(* looked up once per buffer, is out of date only behind a LOGOUT in the   *)
(* same buffer.                                                            *)
StateRegistered ==
  \A w \in Workers :
    wk[w].pc # "idle" /\ wk[w].port = "client" /\ wk[w].item # 0
      => (fdmap[wk[w].fd] = wk[w].item) # items[wk[w].item].gone

(* After LOGOUT the shell client registered last has been sent MMS_EXIT,   *)
(* whichever worker came first, unless its SVR_INIT came between ShellExit *)
(* and the removal of the session.                                         *)
LastShellExits ==
  \A i \in Items :
    items[i].gone /\ SettledSession(i) /\ items[i].shell \in items[i].left
      => items[i].late

(* The session of a connection that is gone is removed, unless the         *)
(* connection went before its session existed, or the worker of the        *)
(* descriptor is caught in the loop of NotLogin.                           *)
ClosedSessionEnds ==
  \A fd \in Fds, c \in Conns :
    LET Left == /\ fdmap[fd] # 0 /\ items[fdmap[fd]].org = c
                /\ c <= conns /\ open[fd] # c /\ c \notin rude
    IN  Left ~> (~Left \/ wk[ThreadOf(fd)].pc = "spin")

-----------------------------------------------------------------------------
(* What comments of the source say, and the code does not keep.            *)

(* Comment on fd_close: when a client disconnects without Logout, a Logout *)
(* is simulated; so no session is left behind once nothing of it is        *)
(* queued.                                                                 *)
DisconnectEndsSession ==
  \A fd \in Fds :
    fdmap[fd] # 0 /\ open[fd] # items[fdmap[fd]].org => Busy(fd)

(* The same comment: the Logout is simulated only if none was received, so *)
(* it always finds a session to end.                                       *)
SimulatedLogoutFindsSession ==
  \A w \in Workers : wk[w].pc = "spin" => wk[w].org # 0

(* Comment on _userData: it holds the Item_data by their yyID.             *)
UserMapByYyID ==
  \A y \in YyIDs :
    usermap[y] # 0 /\ SettledSession(usermap[y]) => items[usermap[y]].yyID = y

(* The login steps in jsonprotocol.h: what the server sends first on a     *)
(* connection is the answer to its Login.                                  *)
LoginAnsweredFirst ==
  \A c \in Conns :
    got[c] # <<>> => Head(got[c]).kind \in {"LOGIN_OK", "LOGIN_NO"}
=============================================================================
