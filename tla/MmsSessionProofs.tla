--------------------------- MODULE MmsSessionProofs ---------------------------
(***************************************************************************)
(* The safety properties of MmsServer, proved on top of Core, each from an *)
(* invariant of its own:                                                   *)
(*   StateRegistered          is inductive with Core;                      *)
(*   LastShellExits           from ShellInv;                               *)
(*   AnsweredUrlReachesShell  from UrlInv: a url answered with success has *)
(*                            been sent, or its sender is at the send;     *)
(*   NoInheritedSession       from Heirs: the Logout of a predecessor      *)
(*                            stands in the queue before its successor;    *)
(*   AnswersInOrder           from CleanInv: numbers only grow along the   *)
(*                            way from commands to answers.                *)
(***************************************************************************)
EXTENDS MmsServerProofs

(* Two workers that serve clients with the same session are the same: the  *)
(* session was made on one descriptor, and that has one thread.            *)
LEMMA OneClient ==
  ASSUME NEW at, NEW from, Core(at, from), NEW v \in Workers, NEW w \in Workers,
         wk[v].pc # "idle", wk[v].port = "client", wk[v].item # 0,
         wk[w].pc # "idle", wk[w].port = "client", wk[w].fd = wk[v].fd \/ wk[w].item = wk[v].item
  PROVE  v = w
<1>1. TypeOK /\ Mail(at, from) /\ Refs(at)
  BY DEF Core
<1>2. ThreadOf(wk[v].fd) = v /\ ThreadOf(wk[w].fd) = w
  BY <1>1, AtWork
<1>3. wk[w].fd = wk[v].fd
  BY <1>1 DEF Refs
<1>4. QED
  BY <1>2, <1>3

(* A session a worker holds, or the map does, is not one about to be made. *)
LEMMA HeldSession ==
  ASSUME NEW at, NEW from, Core(at, from)
  PROVE  /\ \A v \in Workers : wk[v].item # 0 => wk[v].item \in Items /\ items[wk[v].item].org # 0
         /\ \A fd \in Fds : fdmap[fd] # 0 => /\ fdmap[fd] \in Items /\ items[fdmap[fd]].org # 0
                                             /\ ~items[fdmap[fd]].gone
<1>1. TypeOK /\ Refs(at) /\ wk \in [Workers -> Local]
  BY TypeLocal DEF Core
<1>2. \A v \in Workers : wk[v].item # 0 => wk[v].item \in Items
  BY <1>1 DEF Local
<1>3. \A fd \in Fds : fdmap[fd] # 0 => fdmap[fd] \in Items
  BY <1>1 DEF TypeOK
<1>4. QED
  BY <1>1, <1>2, <1>3 DEF Refs

(* The steps of a worker that change no session, and the maps only by the  *)
(* user's name.                                                            *)
LEMMA PlainDoes ==
  ASSUME NEW at, NEW from, NEW w \in Workers, Core(at, from),
         \/ NotLogin(w) \/ BadFrame(w) \/ OtherCmd(w) \/ LoginCmd(w) \/ LoginRefused(w)
         \/ Login1(w) \/ Logout(w)
  PROVE  /\ items' = items /\ fdmap' = fdmap /\ wk[w].pc \in {"loop", "check", "refuse"}
         /\ \/ Drops(w) /\ Cmd(w).cmd # "LOGOUT"
            \/ \E pc \in {"spin", "refuse", "shellexit"} :
                 Moves(w, pc, wk[w].item, wk[w].st, wk[w].succ)
<1>1. items' = items /\ fdmap' = fdmap /\ wk[w].pc \in {"loop", "check", "refuse"}
  BY DEF NotLogin, BadFrame, OtherCmd, LoginCmd, LoginRefused, Login1, Logout, InSession, At
<1>2. wk \in [Workers -> Local] /\ wk[w].msgs # <<>> /\ Stage(w)
  BY <1>1, Known
<1>3. {"spin", "refuse", "shellexit"} \subseteq Pc
  BY DEF Pc, LoginPc, LogoutPc
<1>4. ASSUME NEW pc \in {"spin", "refuse", "shellexit"}, Goto(w, pc)
      PROVE  Moves(w, pc, wk[w].item, wk[w].st, wk[w].succ)
  BY <1>2, <1>3, <1>4, GotoShape
<1>5. CASE NotLogin(w) \/ Logout(w)
  BY <1>1, <1>4, <1>5 DEF NotLogin, Logout
<1>6. CASE BadFrame(w)
  BY <1>1, <1>2, <1>6, IdleDrops DEF BadFrame, At
<1>7. CASE OtherCmd(w) \/ Login1(w)
  BY <1>1, <1>2, <1>7, NextDrops DEF OtherCmd, Login1, InSession, At
<1>8. CASE LoginCmd(w) \/ LoginRefused(w)
  <2>1. Cmd(w).cmd # "LOGOUT"
    BY <1>2, <1>8 DEF Stage, LoginPc, LoginCmd, LoginRefused
  <2>2. QED
    BY <1>1, <1>2, <1>4, <1>8, <2>1, NextDrops DEF LoginCmd, LoginRefused
<1>9. QED
  BY <1>5, <1>6, <1>7, <1>8

(* The session of a worker that serves a client is the one it had before   *)
(* the step, and it is not past ShellExit unless it was.                   *)
Aside(w) ==
  /\ Others(w) /\ wk[w].pc # "idle"
  /\ wk'[w].pc \notin {"deluser", "delfd"}
  /\ wk'[w].pc = "idle" => wk[w].org # 0
  /\ wk'[w].pc # "idle" =>
       /\ wk'[w].fd = wk[w].fd /\ wk'[w].port = wk[w].port /\ wk'[w].org = wk[w].org
       /\ wk'[w].port = "client" => wk'[w].item = wk[w].item
  /\ fdmap' = fdmap
  /\ \A i \in Items :
       /\ items'[i].org = items[i].org /\ items'[i].gone = items[i].gone
       /\ items'[i].shell = items[i].shell /\ items'[i].left = items[i].left
       /\ items'[i].late = items[i].late

(* How a step of a worker moves it.                                        *)
LEMMA MovesAside ==
  ASSUME NEW w \in Workers, NEW pc, NEW st, NEW succ, NEW item, wk[w].pc # "idle",
         item = wk[w].item \/ wk[w].port = "shell",
         Moves(w, pc, item, st, succ), pc \notin {"idle", "deluser", "delfd"},
         fdmap' = fdmap,
         \A i \in Items :
           /\ items'[i].org = items[i].org /\ items'[i].gone = items[i].gone
           /\ items'[i].shell = items[i].shell /\ items'[i].left = items[i].left
           /\ items'[i].late = items[i].late
  PROVE  Aside(w)
<1>1. /\ Others(w) /\ wk'[w].pc = pc /\ wk'[w].fd = wk[w].fd /\ wk'[w].port = wk[w].port
      /\ wk'[w].org = wk[w].org /\ wk'[w].item = item
  BY Zenon DEF Moves, Others
<1>2. wk'[w].port = "client" => wk'[w].item = wk[w].item
  BY <1>1
<1>3. QED
  BY <1>1, <1>2 DEF Aside

(* A LOGOUT is all that is processed without a connection.                 *)
LEMMA NotLogout ==
  ASSUME NEW at, NEW from, NEW w \in Workers, Core(at, from), wk[w].pc # "idle",
         Cmd(w).cmd # "LOGOUT"
  PROVE  wk[w].org # 0
<1>1. TypeOK /\ Mail(at, from)
  BY DEF Core
<1>2. wk[w].org = 0 => Cmd(w) = LogoutCmd
  BY <1>1, AtWork
<1>3. QED
  BY <1>2 DEF LogoutCmd

(* A worker that ends a command other than LOGOUT.                         *)
LEMMA DropsAside ==
  ASSUME NEW at, NEW from, NEW w \in Workers, Core(at, from), wk[w].pc # "idle",
         Cmd(w).cmd # "LOGOUT", Drops(w), fdmap' = fdmap,
         \A i \in Items :
           /\ items'[i].org = items[i].org /\ items'[i].gone = items[i].gone
           /\ items'[i].shell = items[i].shell /\ items'[i].left = items[i].left
           /\ items'[i].late = items[i].late
  PROVE  Aside(w)
<1>1. Others(w) /\ wk'[w].pc \notin {"deluser", "delfd"}
  BY DEF Drops, Idle
<1>2. wk'[w].pc # "idle" =>
        /\ wk'[w].fd = wk[w].fd /\ wk'[w].port = wk[w].port /\ wk'[w].org = wk[w].org
        /\ wk'[w].port = "client" => wk'[w].item = wk[w].item
  BY DEF Drops, Idle
<1>3. wk[w].org # 0
  BY NotLogout
<1>4. QED
  BY <1>1, <1>2, <1>3 DEF Aside

(* A change of fields LOGOUT and SVR_INIT do not set.                      *)
LEMMA BecomesSame ==
  ASSUME NEW i \in Items, NEW yyID, NEW url, NEW ok, NEW told,
         Becomes(i, yyID, items[i].shell, url, items[i].gone, ok, told, items[i].left, items[i].late)
  PROVE  \A j \in Items :
           /\ items'[j].org = items[j].org /\ items'[j].gone = items[j].gone
           /\ items'[j].shell = items[j].shell /\ items'[j].left = items[j].left
           /\ items'[j].late = items[j].late
<1> SUFFICES ASSUME NEW j \in Items
             PROVE  /\ items'[j].org = items[j].org /\ items'[j].gone = items[j].gone
                    /\ items'[j].shell = items[j].shell /\ items'[j].left = items[j].left
                    /\ items'[j].late = items[j].late
  OBVIOUS
<1>1. CASE j = i
  BY <1>1, Zenon DEF Becomes
<1>2. CASE j # i
  BY <1>2, Zenon DEF Becomes
<1>3. QED
  BY <1>1, <1>2

(* A worker's step does one of seven things to the sessions.               *)
LEMMA WorkerDoes ==
  ASSUME NEW at, NEW from, NEW w \in Workers, Core(at, from), Worker(w)
  PROVE  \/ TakeJob(w) \/ LoginNew(w) \/ ShellExit(w) \/ LogoutDelUser(w) \/ LogoutDelFd(w)
         \/ SvrRegister(w) \/ Aside(w)
<1>0. wk[w].pc # "idle" => wk[w].item \in Items \cup {0} /\ Stage(w)
  BY Known
<1>1. CASE \/ NotLogin(w) \/ BadFrame(w) \/ OtherCmd(w) \/ LoginCmd(w) \/ LoginRefused(w)
           \/ Login1(w) \/ Logout(w)
  BY <1>1, PlainDoes, MovesAside, DropsAside
<1>2. CASE OpenUrl(w) \/ OpenUrlRoute(w) \/ ShellExec(w)
  <2>1. items' = items /\ fdmap' = fdmap /\ wk[w].pc # "idle"
    BY <1>2 DEF OpenUrl, OpenUrlRoute, ShellExec, InSession, At
  <2>2. \E pc, st, succ : Moves(w, pc, wk[w].item, st, succ) /\ pc \in {"route", "openurl", "exec", "answer"}
    BY <1>2, OpenUrlDoes, OpenUrlRouteCore, ShellExecDoes
  <2>3. QED
    BY <2>1, <2>2, MovesAside
<1>3. CASE UrlVisible(w)
  <2>1. wk[w].pc \in {"route", "openurl", "exec"} /\ fdmap' = fdmap
    BY <1>3, UrlVisibleDoes DEF UrlVisible
  <2>2. Moves(w, wk[w].pc, wk[w].item, 0, wk[w].succ)
    BY <1>3, UrlVisibleDoes
  <2>3. wk[w].item \in Items
    BY <1>0, <2>1 DEF Stage, UrlPc
  <2>4. QED
    BY <1>3, <2>1, <2>2, <2>3, UrlVisibleDoes, BecomesSame, MovesAside
<1>4. CASE OpenUrlTell(w)
  <2>1. wk[w].pc = "openurl" /\ fdmap' = fdmap
    BY <1>4 DEF OpenUrlTell
  <2>2. Moves(w, "answer", wk[w].item, 0, TRUE)
    BY <1>4, OpenUrlTellDoes
  <2>3. wk[w].item \in Items
    BY <1>0, <2>1 DEF Stage, UrlPc
  <2>4. QED
    BY <1>4, <2>1, <2>2, <2>3, OpenUrlTellDoes, BecomesSame, MovesAside
<1>5. CASE OpenUrlAnswer(w)
  <2>1. wk[w].pc = "answer" /\ fdmap' = fdmap /\ Drops(w)
    BY <1>5, OpenUrlAnswerDoes DEF OpenUrlAnswer
  <2>2. wk[w].item \in Items /\ Cmd(w).cmd # "LOGOUT"
    BY <1>0, <2>1 DEF Stage, UrlPc
  <2>3. QED
    BY <1>5, <2>1, <2>2, OpenUrlAnswerDoes, BecomesSame, DropsAside
<1>6. CASE SvrInit(w)
  <2>1. wk[w].pc = "loop" /\ Cmd(w).cmd = "SVR_INIT" /\ items' = items /\ fdmap' = fdmap
    BY <1>6 DEF SvrInit, At
  <2>2. wk[w].port = "shell"
    BY <2>1, InitOnShell
  <2>3. QED
    BY <1>6, <2>1, <2>2, SvrInitDoes, MovesAside, DropsAside
<1>7. CASE SvrTell(w)
  <2>1. wk[w].pc = "svrtell" /\ fdmap' = fdmap /\ Drops(w)
    BY <1>7, SvrTellDoes DEF SvrTell
  <2>2. wk[w].item \in Items /\ Cmd(w).cmd # "LOGOUT"
    BY <1>0, <2>1 DEF Stage, InitPc
  <2>3. QED
    BY <1>7, <2>1, <2>2, SvrTellDoes, BecomesSame, DropsAside
<1>8. CASE LoginAccount(w)
  <2>1. wk[w].pc # "idle" /\ fdmap' = fdmap /\ wk[w].item # 0
    BY <1>0, <1>8 DEF LoginAccount, InSession, At, Stage, LoginPc
  <2>2. Moves(w, "check", wk[w].item, wk[w].st, wk[w].succ)
    BY <1>8, LoginAccountDoes
  <2>3. wk[w].item \in Items
    BY <1>0, <2>1
  <2>4. \A j \in Items :
          /\ items'[j].org = items[j].org /\ items'[j].gone = items[j].gone
          /\ items'[j].shell = items[j].shell /\ items'[j].left = items[j].left
          /\ items'[j].late = items[j].late
    BY <1>8, <2>3, LoginAccountDoes, BecomesSame
  <2>5. QED
    BY <2>1, <2>2, <2>4, MovesAside
<1>9. QED
  BY <1>1, <1>2, <1>3, <1>4, <1>5, <1>6, <1>7, <1>8 DEF Worker

(* The sessions and the locals of the workers are the workers' own.        *)
LEMMA Outside ==
  ASSUME Peers \/ EventLoop \/ UNCHANGED vars
  PROVE  UNCHANGED <<wk, items, fdmap, usermap>>
  BY DEF Peers, PeerSend, PeerClose, EventLoop, Accept, DoRead, PeerGone, DoWrite, QueueReceive,
         vars

-----------------------------------------------------------------------------
(* The session a worker serves a client with.                              *)

(* Every step keeps the session of a worker in the map until its LOGOUT.   *)
LEMMA StepRegistered ==
  ASSUME NEW at, NEW from, Core(at, from), StateRegistered, [Next]_vars
  PROVE  StateRegistered'
<1> DEFINE P(v) == wk[v].pc # "idle" /\ wk[v].port = "client" /\ wk[v].item # 0
                     => (fdmap[wk[v].fd] = wk[v].item) # items[wk[v].item].gone
<1>0. \A v \in Workers : P(v)
  BY DEF StateRegistered
<1>1. CASE Peers \/ EventLoop \/ UNCHANGED vars
  <2>1. UNCHANGED <<wk, items, fdmap>>
    BY <1>1, Outside
  <2>2. QED
    BY <2>1, Zenon DEF StateRegistered
<1>2. ASSUME NEW w \in Workers, Worker(w)
      PROVE  \A v \in Workers : P(v)'
  <2>1. CASE TakeJob(w)
    <3>1. UNCHANGED <<items, fdmap>> /\ Others(w)
      <4>1. Takes(w, jobs[w][1]) /\ Pops(w) /\ jobs[w][1] \in Job /\ WorkOK(jobs[w][1], w, at, from)
        BY <2>1, TakeJobDoes
      <4>2. QED
        BY <2>1, <4>1 DEF TakeJob, Takes, Pops
    <3>2. ASSUME wk'[w].port = "client", wk'[w].item # 0
          PROVE  P(w)'
      <4>1. wk'[w].item = fdmap[wk'[w].fd] /\ wk'[w].fd \in Fds
        <5>1. Takes(w, jobs[w][1]) /\ Pops(w) /\ jobs[w][1] \in Job /\ WorkOK(jobs[w][1], w, at, from)
          BY <2>1, <3>2, TakeJobDoes
        <5>2. QED
          BY <2>1, <3>2, <5>1 DEF WorkOK, Takes, Pops
      <4>2. ~items[fdmap[wk'[w].fd]].gone
        BY <3>2, <4>1, HeldSession
      <4>3. QED
        BY <3>1, <4>1, <4>2
    <3>3. QED
      BY <1>0, <3>1, <3>2 DEF Others
  <2>2. CASE LoginNew(w)
    <3> DEFINE n == Cmd(w).n
    <3>1. /\ n \in Items /\ n # 0 /\ items[n].org = 0 /\ wk[w].fd \in Fds /\ wk[w].pc = "loop"
          /\ wk[w].port = "client" /\ \A j \in Items \ {n} : items'[j] = items[j]
          /\ fdmap'[wk[w].fd] = n /\ \A fd \in Fds \ {wk[w].fd} : fdmap'[fd] = fdmap[fd]
      <4>1. Makes(w, Cmd(w).n, wk[w].org, at, from)
        BY <2>2, LoginNewDoes
      <4>2. QED
        BY <2>2, <4>1 DEF Makes
    <3>2. items'[n].gone = FALSE
      <4>1. items'[n] = NewItem(wk[w].org)
        <5>1. Makes(w, Cmd(w).n, wk[w].org, at, from)
          BY <2>2, LoginNewDoes
        <5>2. QED
          BY <2>2, <5>1 DEF Makes
      <4>2. QED
        BY <4>1 DEF NewItem
    <3>3. Moves(w, "adduser", n, wk[w].st, wk[w].succ)
      <4>1. Makes(w, Cmd(w).n, wk[w].org, at, from)
        BY <2>2, LoginNewDoes
      <4>2. QED
        BY <2>2, <4>1 DEF Makes
    <3> HIDE DEF n
    <3>4. P(w)'
      BY <3>1, <3>2, <3>3 DEF Moves
    <3>5. ASSUME NEW v \in Workers, v # w, wk[v].pc # "idle", wk[v].port = "client", wk[v].item # 0
          PROVE  /\ fdmap'[wk[v].fd] = fdmap[wk[v].fd] /\ items'[wk[v].item] = items[wk[v].item]
      <4>1. wk[v].fd # wk[w].fd
        BY <3>1, <3>5, OneClient
      <4>2. wk[v].fd \in Fds /\ wk[v].item \in Items /\ wk[v].item # n
        BY <3>1, <3>5, Known, HeldSession
      <4>3. QED
        BY <3>1, <4>1, <4>2
    <3>6. QED
      BY <1>0, <3>3, <3>4, <3>5 DEF Moves
  <2>3. CASE LogoutDelFd(w)
    <3> DEFINE i == wk[w].item
    <3>1. /\ wk[w].pc = "delfd" /\ wk[w].fd \in Fds /\ wk[w].port = "client" /\ i # 0
          /\ Drops(w) /\ fdmap'[wk[w].fd] = 0
          /\ \A fd \in Fds \ {wk[w].fd} : fdmap'[fd] = fdmap[fd]
      <4>1. Forgets(w)
        BY <2>3, LogoutDelFdDoes
      <4>2. QED
        BY <2>3, <4>1 DEF Forgets
    <3>2. items'[i].gone = TRUE /\ \A j \in Items \ {i} : items'[j] = items[j]
      <4>1. Forgets(w)
        BY <2>3, LogoutDelFdDoes
      <4>2. QED
        BY <2>3, <4>1 DEF Becomes, Forgets
    <3> HIDE DEF i
    <3>3. P(w)'
      <4>1. CASE wk'[w].pc = "idle"
        BY <4>1
      <4>2. CASE wk'[w].pc # "idle"
        <5>1. wk'[w].fd = wk[w].fd /\ wk'[w].item = i
          BY <3>1, <4>2 DEF Drops, Idle, i
        <5>2. QED
          BY <3>1, <3>2, <5>1
      <4>3. QED
        BY <4>1, <4>2
    <3>4. ASSUME NEW v \in Workers, v # w, wk[v].pc # "idle", wk[v].port = "client", wk[v].item # 0
          PROVE  /\ fdmap'[wk[v].fd] = fdmap[wk[v].fd] /\ items'[wk[v].item] = items[wk[v].item]
      <4>1. wk[v].fd # wk[w].fd /\ wk[v].item # i
        BY <3>1, <3>4, OneClient DEF i
      <4>2. wk[v].fd \in Fds /\ wk[v].item \in Items
        BY <3>4, Known
      <4>3. QED
        BY <3>1, <3>2, <4>1, <4>2
    <3>5. QED
      BY <1>0, <3>1, <3>3, <3>4 DEF Drops, Others
  <2>4. ASSUME Others(w), fdmap' = fdmap, wk[w].pc # "idle",
               \A j \in Items : items'[j].gone = items[j].gone,
               wk'[w].pc # "idle" /\ wk'[w].port = "client" =>
                 wk'[w].fd = wk[w].fd /\ wk[w].port = "client" /\ wk'[w].item = wk[w].item
        PROVE  \A v \in Workers : P(v)'
    <3>1. \A v \in Workers : wk[v].item # 0 => wk[v].item \in Items
      BY HeldSession
    <3>2. P(w)'
      BY <1>0, <2>4, <3>1
    <3>3. QED
      BY <1>0, <2>4, <3>1, <3>2 DEF Others
  <2>5. CASE ShellExit(w) \/ LogoutDelUser(w) \/ SvrRegister(w)
    <3>1. /\ fdmap' = fdmap /\ wk[w].pc # "idle" /\ (wk[w].pc = "register" => wk[w].port = "shell")
      BY <2>5, Known DEF ShellExit, LogoutDelUser, SvrRegister, Stage, InitPc
    <3>2. \E pc : Moves(w, pc, wk[w].item, wk[w].st, wk[w].succ)
      BY <2>5, ShellExitDoes, LogoutDelUserCore, SvrRegisterDoes
    <3>3. \A j \in Items : items'[j].gone = items[j].gone
      BY <2>5, ShellExitDoes, SvrRegisterDoes DEF Becomes, LogoutDelUser
    <3>4. QED
      BY <2>4, <3>1, <3>2, <3>3 DEF Moves, Others
  <2>6. CASE Aside(w)
    BY <2>4, <2>6 DEF Aside
  <2>7. QED
    BY <1>2, <2>1, <2>2, <2>3, <2>5, <2>6, WorkerDoes
<1>3. QED
  BY <1>1, <1>2 DEF Next, StateRegistered

(* The session a worker serves a client with stands in the map under the   *)
(* client's descriptor until the worker's own LOGOUT, whatever the event   *)
(* thread and the other workers do: the state looked up once per buffer.   *)
THEOREM RegisteredCorrect == Spec => []StateRegistered
<1>1. Init => StateRegistered
  BY DEF Init, StateRegistered, Idle
<1>2. CoreInv /\ StateRegistered /\ [Next]_vars => StateRegistered'
  BY StepRegistered DEF CoreInv
<1>3. QED
  BY <1>1, <1>2, CoreCorrect, PTL DEF Spec

-----------------------------------------------------------------------------
(* MMS_EXIT.                                                               *)

(* Past ShellExit, the shell client registered last has been sent MMS_EXIT *)
(* or came too late for it.                                                *)
ShellInv ==
  \A i \in Items : ExitPassed(i) /\ items[i].shell \in items[i].left => items[i].late

(* Every step: a shell client registered before ShellExit is told to exit, *)
(* one registered after it is late.                                        *)
LEMMA StepShell ==
  ASSUME NEW at, NEW from, Core(at, from), ShellInv, [Next]_vars
  PROVE  ShellInv'
<1>1. CASE Peers \/ EventLoop \/ UNCHANGED vars
  <2>1. UNCHANGED <<wk, items>>
    BY <1>1, Outside
  <2>2. QED
    BY <2>1, Zenon DEF ShellInv, ExitPassed
<1>2. ASSUME NEW w \in Workers, Worker(w), NEW i \in Items
      PROVE  (ExitPassed(i) /\ items[i].shell \in items[i].left => items[i].late)'
  <2> DEFINE k == wk[w].item
  <2>0. ExitPassed(i) /\ items[i].shell \in items[i].left => items[i].late
    BY DEF ShellInv
  <2>1. ASSUME Others(w), items'[i].gone = items[i].gone,
               wk'[w].pc \in {"deluser", "delfd"} /\ wk'[w].item = i => ExitPassed(i)
        PROVE  ExitPassed(i)' => ExitPassed(i)
    BY <2>1 DEF ExitPassed, Others
  <2>2. ASSUME ExitPassed(i)' => ExitPassed(i), items'[i].shell = items[i].shell,
               items'[i].left = items[i].left, items'[i].late = items[i].late
        PROVE  (ExitPassed(i) /\ items[i].shell \in items[i].left => items[i].late)'
    BY <2>0, <2>2
  <2>3. CASE Aside(w)
    <3>1. ExitPassed(i)' => ExitPassed(i)
      BY <2>1, <2>3 DEF Aside
    <3>2. QED
      BY <2>2, <2>3, <3>1 DEF Aside
  <2>4. CASE TakeJob(w)
    <3>1. items' = items /\ Others(w) /\ wk'[w].pc = "loop"
      <4>1. Takes(w, jobs[w][1]) /\ Pops(w) /\ jobs[w][1] \in Job /\ WorkOK(jobs[w][1], w, at, from)
        BY <2>4, TakeJobDoes
      <4>2. QED
        BY <2>4, <4>1 DEF TakeJob, Takes, Pops
    <3>2. QED
      BY <2>1, <2>2, <3>1
  <2>5. CASE LoginNew(w)
    <3>1. /\ items'[Cmd(w).n] = NewItem(wk[w].org)
          /\ \A j \in Items \ {Cmd(w).n} : items'[j] = items[j]
          /\ Moves(w, "adduser", Cmd(w).n, wk[w].st, wk[w].succ)
      <4>1. Makes(w, Cmd(w).n, wk[w].org, at, from)
        BY <2>5, LoginNewDoes
      <4>2. QED
        BY <2>5, <4>1 DEF Makes
    <3>2. CASE i = Cmd(w).n
      <4>1. items'[i].left = {}
        BY <3>1, <3>2 DEF NewItem
      <4>2. QED
        BY <4>1
    <3>3. CASE i # Cmd(w).n
      BY <2>1, <2>2, <3>1, <3>3 DEF Moves, Others
    <3>4. QED
      BY <3>2, <3>3
  <2>6. CASE ShellExit(w)
    <3>1. Moves(w, "deluser", k, wk[w].st, wk[w].succ)
      BY <2>6, ShellExitDoes
    <3>2. CASE i = k
      <4>1. items'[k].shell = items[k].shell /\ items'[k].left = items[k].left \ {items[k].shell}
        BY <2>6, ShellExitDoes DEF Becomes
      <4>2. QED
        BY <3>2, <4>1
    <3>3. CASE i # k
      <4>1. items'[i] = items[i]
        BY <2>6, <3>3, ShellExitDoes DEF Becomes
      <4>2. QED
        BY <2>1, <2>2, <3>1, <3>3, <4>1 DEF Moves, Others
    <3>4. QED
      BY <3>2, <3>3
  <2>7. CASE LogoutDelUser(w)
    <3>1. Moves(w, "delfd", k, wk[w].st, wk[w].succ) /\ items' = items /\ wk[w].pc = "deluser"
      BY <2>7, LogoutDelUserCore DEF LogoutDelUser
    <3>2. QED
      BY <2>1, <2>2, <3>1 DEF Moves, Others, ExitPassed
  <2>8. CASE LogoutDelFd(w)
    <3>1. wk[w].pc = "delfd" /\ Drops(w)
      <4>1. Forgets(w)
        BY <2>8, LogoutDelFdDoes
      <4>2. QED
        BY <2>8, <4>1 DEF Forgets
    <3>2. /\ \A j \in Items \ {k} : items'[j] = items[j]
          /\ items'[k].shell = items[k].shell /\ items'[k].left = items[k].left
          /\ items'[k].late = items[k].late
      <4>1. Forgets(w)
        BY <2>8, LogoutDelFdDoes
      <4>2. QED
        BY <2>8, <4>1 DEF Becomes, Forgets
    <3>3. ExitPassed(i)' => ExitPassed(i)
      <4>1. CASE i = k
        BY <3>1, <4>1 DEF ExitPassed
      <4>2. CASE i # k
        BY <2>1, <3>1, <3>2, <4>2 DEF Drops, Others, Idle
      <4>3. QED
        BY <4>1, <4>2
    <3>4. QED
      BY <2>2, <3>2, <3>3
  <2>9. CASE SvrRegister(w)
    <3>1. Moves(w, "svrtell", k, wk[w].st, wk[w].succ)
      BY <2>9, SvrRegisterDoes
    <3>2. /\ \A j \in Items \ {k} : items'[j] = items[j]
          /\ items'[k].gone = items[k].gone /\ items'[k].late = ExitPassed(k)
      BY <2>9, SvrRegisterDoes DEF Becomes
    <3>3. items'[i].gone = items[i].gone
      BY <3>2
    <3>4. ExitPassed(i)' => ExitPassed(i)
      BY <2>1, <3>1, <3>3 DEF Moves, Others
    <3>5. QED
      BY <2>2, <3>2, <3>4
  <2>10. QED
    BY <1>2, <2>3, <2>4, <2>5, <2>6, <2>7, <2>8, <2>9, WorkerDoes
<1>3. QED
  BY <1>1, <1>2 DEF Next, ShellInv

(* After LOGOUT the shell client registered last has been sent MMS_EXIT,   *)
(* whichever worker came first, unless its SVR_INIT came between ShellExit *)
(* and the removal of the session.                                         *)
THEOREM ExitCorrect == Spec => []LastShellExits
<1>1. Init => ShellInv
  BY DEF Init, ShellInv, NewItem
<1>2. CoreInv /\ ShellInv /\ [Next]_vars => ShellInv'
  BY StepShell DEF CoreInv
<1>3. ShellInv => LastShellExits
  BY DEF ShellInv, ExitPassed, LastShellExits
<1>4. QED
  BY <1>1, <1>2, <1>3, CoreCorrect, PTL DEF Spec

-----------------------------------------------------------------------------
(* OPENURL.                                                                *)

(* A worker past its store has it in the session; the last url answered    *)
(* with bSucc is the session's; and the shell client has been sent it, or  *)
(* its own worker is about to, or the answer is still to come.             *)
Answering(w, i) == wk[w].item = i /\ wk[w].pc = "answer" /\ wk[w].succ

(* What a worker at OPENURL has stored in url, once visible, is the url of *)
(* its command.                                                            *)
UrlStored ==
  \A w \in Workers : wk[w].pc \in UrlPc /\ wk[w].st = 0 => items[wk[w].item].url = Cmd(w).n

(* Worker v is about to send the url to the shell client it has registered *)
(* for session i.                                                          *)
Telling(v, i) == wk[v].pc = "svrtell" /\ wk[v].item = i /\ wk[v].fd = items[i].shell

(* A url answered with success, or about to be, has been sent to the shell *)
(* client of session i, or is about to be sent to it.                      *)
Told(i) ==
  /\ items[i].ok # 0 => items[i].ok = items[i].url
  /\ items[i].shell # 0 /\ (items[i].ok # 0 \/ \E w \in Workers : Answering(w, i)) =>
       \/ <<items[i].shell, items[i].url>> \in items[i].told
       \/ \E v \in Workers : Telling(v, i)

(* The invariant of the urls.                                              *)
UrlInv == UrlStored /\ \A i \in Items : Told(i)

(* Session i keeps its url, its answer and its shell client.               *)
SameUrl(i) ==
  /\ items'[i].shell = items[i].shell /\ items'[i].url = items[i].url
  /\ items'[i].ok = items[i].ok /\ items'[i].told = items[i].told

(* A step that changes nothing about the urls of session i.                *)
LEMMA KeepTold ==
  ASSUME NEW w \in Workers, NEW i \in Items, Others(w), Told(i), SameUrl(i),
         wk'[w].item # i \/ wk'[w].pc # "answer" \/ wk'[w].succ # TRUE,
         wk[w].item # i \/ wk[w].pc # "svrtell"
  PROVE  Told(i)'
<1>1. ASSUME NEW v \in Workers, Answering(v, i)'
      PROVE  Answering(v, i)
  <2>1. v # w
    BY <1>1 DEF Answering, Others, Local
  <2>2. QED
    BY <1>1, <2>1 DEF Answering, Others
<1>2. ASSUME NEW v \in Workers, Telling(v, i)
      PROVE  Telling(v, i)'
  <2>1. v # w
    BY <1>2 DEF Telling
  <2>2. QED
    BY <1>2, <2>1 DEF Telling, Others, SameUrl
<1>3. QED
  BY <1>1, <1>2 DEF Told, SameUrl

(* What the other workers have stored is not touched.                      *)
LEMMA KeepStored ==
  ASSUME NEW at, NEW from, Core(at, from), NEW w \in Workers, UrlStored, Others(w),
         NEW i, \A j \in Items \ {i} : items'[j].url = items[j].url,
         \A v \in Workers : v # w /\ wk[v].pc \in UrlPc => wk[v].item # i \/ items'[i].url = items[i].url,
         wk'[w].pc \in UrlPc /\ wk'[w].st = 0 => items'[wk'[w].item].url = Cmd(w)'.n
  PROVE  UrlStored'
<1> SUFFICES ASSUME NEW v \in Workers, wk'[v].pc \in UrlPc, wk'[v].st = 0, v # w
             PROVE  items'[wk'[v].item].url = Cmd(v)'.n
  BY DEF UrlStored
<1>1. wk'[v] = wk[v] /\ Cmd(v)' = Cmd(v)
  BY DEF Others, Cmd
<1>2. items[wk[v].item].url = Cmd(v).n
  BY <1>1 DEF UrlStored
<1>3. wk[v].item \in Items
  BY <1>1, Known DEF Stage, UrlPc
<1>4. QED
  BY <1>1, <1>2, <1>3

(* The steps that have nothing to do with OPENURL.                         *)
LEMMA KeepUrl ==
  ASSUME NEW at, NEW from, Core(at, from), NEW w \in Workers, UrlInv, Others(w),
         \A i \in Items : SameUrl(i),
         wk[w].pc # "svrtell", wk'[w].pc \notin UrlPc
  PROVE  UrlInv'
<1>1. wk'[w].pc # "answer"
  BY DEF UrlPc
<1>2. \A i \in Items : Told(i)'
  BY <1>1, KeepTold DEF UrlInv
<1>3. UrlStored'
  <2>1. \A j \in Items \ {0} : items'[j].url = items[j].url
    BY DEF SameUrl
  <2>2. \A v \in Workers : v # w /\ wk[v].pc \in UrlPc => wk[v].item # 0 \/ items'[0].url = items[0].url
    BY Known DEF Stage, UrlPc
  <2>3. QED
    BY <2>1, <2>2, KeepStored DEF UrlInv
<1>4. QED
  BY <1>2, <1>3 DEF UrlInv

(* UrlPc: the worker has a session, and its command is its client's.       *)
LEMMA AtUrl ==
  ASSUME NEW at, NEW from, Core(at, from), NEW w \in Workers,
         wk[w].pc \in UrlPc \/ InSession(w, "OPENURL")
  PROVE  /\ wk[w].item \in Items /\ wk[w].port = "client" /\ wk[w].pc # "idle" /\ Cmd(w).n # 0
         /\ \A v \in Workers : v # w /\ wk[v].pc \in UrlPc => wk[v].item # wk[w].item
<1>1. wk[w].pc # "idle" /\ Stage(w) /\ wk[w].item \in Items \cup {0}
  <2>1. wk[w].pc # "idle"
    BY DEF UrlPc, InSession, At
  <2>2. QED
    BY <2>1, Known
<1>2. wk[w].port = "client" /\ Cmd(w).cmd = "OPENURL" /\ wk[w].item \in Items /\ wk[w].item # 0
  <2>1. wk[w].port = "client" /\ Cmd(w).cmd = "OPENURL" /\ wk[w].item # 0
    BY <1>1 DEF Stage, InSession, At
  <2>2. QED
    BY <1>1, <2>1
<1>3. Cmd(w).n # 0
  <2>1. wk[w].org # 0
    BY <1>1, <1>2, NotLogout
  <2>2. Cmd(w).n \in 1 .. nmsg
    BY <1>1, <1>2, <2>1, AtWork DEF Core
  <2>3. QED
    BY <2>2
<1>4. ASSUME NEW v \in Workers, v # w, wk[v].pc \in UrlPc
      PROVE  wk[v].item # wk[w].item
  <2>1. wk[v].pc # "idle" /\ Stage(v)
    BY <1>4, Known DEF UrlPc
  <2>2. wk[v].port = "client"
    BY <1>4, <2>1 DEF Stage
  <2>3. QED
    BY <1>1, <1>2, <1>4, <2>1, <2>2, OneClient
<1>5. QED
  BY <1>1, <1>2, <1>3, <1>4

(* The steps of OPENURL.                                                   *)
LEMMA OpenUrlInv ==
  ASSUME NEW at, NEW from, Core(at, from), NEW w \in Workers, UrlInv,
         OpenUrl(w) \/ UrlVisible(w) \/ OpenUrlRoute(w)
  PROVE  UrlInv'
<1>0. PICK i : i = wk[w].item
  OBVIOUS
<1>1. /\ i \in Items /\ wk[w].pc # "svrtell" /\ Cmd(w).n # 0
      /\ \A v \in Workers : v # w /\ wk[v].pc \in UrlPc => wk[v].item # i
  <2>1. CASE OpenUrl(w)
    BY <1>0, <2>1, AtUrl DEF OpenUrl, InSession, At
  <2>2. CASE UrlVisible(w)
    BY <1>0, <2>2, AtUrl, UrlVisibleDoes DEF UrlPc
  <2>3. CASE OpenUrlRoute(w)
    BY <1>0, <2>3, AtUrl DEF OpenUrlRoute, UrlPc
  <2>4. QED
    BY <2>1, <2>2, <2>3
<1>2. CASE OpenUrl(w) \/ OpenUrlRoute(w)
  <2>1. items' = items
    BY <1>2 DEF OpenUrl, OpenUrlRoute
  <2>2. PICK pc, st : pc \in {"route", "openurl", "exec"} /\ Moves(w, pc, i, st, wk[w].succ)
    BY <1>0, <1>2, OpenUrlDoes, OpenUrlRouteCore
  <2>3. Others(w) /\ wk'[w].pc # "answer" /\ wk'[w].item = i /\ Cmd(w)' = Cmd(w)
    BY <2>2, MovesStay DEF Moves, Others
  <2>4. \A j \in Items : Told(j)'
    BY <1>1, <2>1, <2>3, KeepTold DEF UrlInv, SameUrl
  <2>5. wk'[w].st = 0 => items[i].url = Cmd(w).n
    <3>1. CASE OpenUrl(w)
      <4>1. wk'[w].st = Cmd(w).n
        BY <3>1, OpenUrlDoes DEF Moves
      <4>2. QED
        BY <1>1, <4>1
    <3>2. CASE OpenUrlRoute(w)
      <4>1. wk'[w].st = wk[w].st /\ wk[w].pc \in UrlPc
        BY <3>2, OpenUrlRouteCore DEF Moves, OpenUrlRoute, UrlPc
      <4>2. QED
        BY <1>0, <4>1 DEF UrlInv, UrlStored
    <3>3. QED
      BY <1>2, <3>1, <3>2
  <2>6. UrlStored'
    BY <1>1, <2>1, <2>3, <2>5, KeepStored DEF UrlInv
  <2>7. QED
    BY <2>4, <2>6 DEF UrlInv
<1>3. CASE UrlVisible(w)
  <2>1. /\ wk[w].st = Cmd(w).n /\ Moves(w, wk[w].pc, i, 0, wk[w].succ)
        /\ wk[w].pc \in {"route", "openurl", "exec"}
    BY <1>0, <1>3, UrlVisibleDoes
  <2>2. Others(w) /\ wk'[w].pc # "answer" /\ wk'[w].item = i /\ Cmd(w)' = Cmd(w)
    BY <2>1, MovesStay DEF Moves, Others
  <2>3. /\ \A j \in Items \ {i} : items'[j] = items[j]
        /\ items'[i].url = wk[w].st /\ items'[i].ok = 0
    BY <1>0, <1>3, UrlVisibleDoes DEF Becomes
  <2>4. \A j \in Items \ {i} : Told(j)'
    BY <1>1, <2>2, <2>3, KeepTold DEF UrlInv, SameUrl
  <2>5. \A v \in Workers : ~Answering(v, i)'
    BY <1>1, <2>2 DEF Answering, Others, UrlPc
  <2>6. Told(i)'
    BY <2>3, <2>5 DEF Told
  <2>7. UrlStored'
    BY <1>1, <2>1, <2>2, <2>3, KeepStored DEF UrlInv
  <2>8. QED
    BY <2>4, <2>6, <2>7 DEF UrlInv
<1>4. QED
  BY <1>2, <1>3

(* The steps of OPENURL that tell the shell client, start one, or answer.  *)
LEMMA AnswerUrlInv ==
  ASSUME NEW at, NEW from, Core(at, from), NEW w \in Workers, UrlInv,
         OpenUrlTell(w) \/ ShellExec(w) \/ OpenUrlAnswer(w)
  PROVE  UrlInv'
<1>0. PICK i : i = wk[w].item
  OBVIOUS
<1>1. /\ wk[w].pc \in UrlPc /\ wk[w].st = 0 /\ wk[w].pc # "svrtell"
  <2>1. wk[w].pc \in {"openurl", "exec", "answer"}
    BY DEF OpenUrlTell, ShellExec, OpenUrlAnswer
  <2>2. wk[w].st = 0
    BY <2>1, Known DEF OpenUrlTell, ShellExec, OpenUrlAnswer
  <2>3. QED
    BY <2>1, <2>2 DEF UrlPc
<1>2. /\ i \in Items /\ \A v \in Workers : v # w /\ wk[v].pc \in UrlPc => wk[v].item # i
      /\ Cmd(w).n # 0 /\ items[i].url = Cmd(w).n
  BY <1>0, <1>1, AtUrl DEF UrlInv, UrlStored
<1>3. \A v \in Workers \ {w} : ~Answering(v, i)
  BY <1>2 DEF Answering, UrlPc
<1>4. CASE OpenUrlTell(w)
  <2>1. Moves(w, "answer", i, 0, TRUE)
    BY <1>0, <1>4, OpenUrlTellDoes
  <2>2. Others(w) /\ wk'[w].item = i /\ Cmd(w)' = Cmd(w)
    BY <2>1, MovesStay DEF Moves, Others
  <2>3. /\ \A j \in Items \ {i} : items'[j] = items[j]
        /\ items'[i].url = items[i].url /\ items'[i].ok = items[i].ok
        /\ items'[i].shell = items[i].shell
        /\ items'[i].told = items[i].told \cup {<<items[i].shell, items[i].url>>}
    <3>1. Becomes(i, items[i].yyID, items[i].shell, items[i].url, items[i].gone, items[i].ok,
                  items[i].told \cup {<<items[i].shell, items[i].url>>}, items[i].left,
                  items[i].late)
      BY <1>0, <1>4, OpenUrlTellDoes
    <3>2. QED
      BY <3>1, Zenon DEF Becomes
  <2>4. \A j \in Items \ {i} : Told(j)'
    BY <1>1, <2>2, <2>3, KeepTold DEF UrlInv, SameUrl
  <2>5. Told(i)'
    BY <1>2, <2>3 DEF Told, UrlInv
  <2>6. UrlStored'
    BY <1>2, <2>2, <2>3, KeepStored DEF UrlInv
  <2>7. QED
    BY <2>4, <2>5, <2>6 DEF UrlInv
<1>5. CASE ShellExec(w)
  <2>0. items' = items
    BY <1>5 DEF ShellExec
  <2>1. PICK succ \in BOOLEAN : Moves(w, "answer", i, 0, succ) /\ (succ => items[i].shell = 0)
    BY <1>0, <1>5, ShellExecDoes
  <2>2. Others(w) /\ wk'[w].item = i /\ Cmd(w)' = Cmd(w) /\ wk'[w].succ = succ
    BY <2>1, MovesStay DEF Moves, Others
  <2>3. \A j \in Items \ {i} : Told(j)'
    BY <1>1, <2>0, <2>2, KeepTold DEF UrlInv, SameUrl
  <2>4. Told(i)'
    <3>1. CASE succ
      BY <1>2, <2>0, <2>1, <3>1 DEF Told, UrlInv
    <3>2. CASE ~succ
      <4>1. wk'[w].succ # TRUE
        BY <2>2, <3>2
      <4>2. QED
        BY <1>1, <1>2, <2>0, <2>2, <4>1, KeepTold DEF UrlInv, SameUrl
    <3>3. QED
      BY <3>1, <3>2
  <2>5. UrlStored'
    BY <1>2, <2>0, <2>2, KeepStored DEF UrlInv
  <2>6. QED
    BY <2>3, <2>4, <2>5 DEF UrlInv
<1>6. CASE OpenUrlAnswer(w)
  <2>1. Drops(w) /\ wk[w].pc = "answer"
    BY <1>6, OpenUrlAnswerDoes
  <2>2. Others(w) /\ wk'[w].pc \notin UrlPc
    BY <2>1 DEF Drops, Others, UrlPc, Idle
  <2>3. PICK ok \in {0, Cmd(w).n} :
          /\ ok # 0 => wk[w].succ /\ ok = Cmd(w).n
          /\ Becomes(i, items[i].yyID, items[i].shell, items[i].url, items[i].gone, ok,
                     items[i].told, items[i].left, items[i].late)
    BY <1>0, <1>6, OpenUrlAnswerDoes
  <2>4. /\ \A j \in Items \ {i} : items'[j] = items[j]
        /\ items'[i].url = items[i].url /\ items'[i].ok = ok
        /\ items'[i].shell = items[i].shell /\ items'[i].told = items[i].told
    BY <2>3 DEF Becomes
  <2>5. \A j \in Items \ {i} : Told(j)'
    BY <1>1, <2>2, <2>4, KeepTold DEF UrlInv, SameUrl, UrlPc
  <2>6. Told(i)'
    <3>1. \A v \in Workers : ~Answering(v, i)'
      BY <1>3, <2>2 DEF Answering, Others, UrlPc
    <3>2. ok # 0 => Answering(w, i)
      BY <1>0, <2>1, <2>3 DEF Answering
    <3>3. \A v \in Workers : Telling(v, i) => Telling(v, i)'
      BY <1>1, <2>2, <2>4 DEF Telling, Others
    <3>4. QED
      BY <1>2, <2>3, <2>4, <3>1, <3>2, <3>3 DEF Told, UrlInv
  <2>7. UrlStored'
    BY <1>2, <2>2, <2>4, KeepStored DEF UrlInv
  <2>8. QED
    BY <2>5, <2>6, <2>7 DEF UrlInv
<1>7. QED
  BY <1>4, <1>5, <1>6

(* The steps of the shell's worker, and a new session.                     *)
LEMMA ShellUrlInv ==
  ASSUME NEW at, NEW from, Core(at, from), NEW w \in Workers, UrlInv,
         SvrRegister(w) \/ SvrTell(w) \/ LoginNew(w)
  PROVE  UrlInv'
<1>1. CASE SvrRegister(w)
  <2>0. PICK i : i = wk[w].item
    OBVIOUS
  <2>1. Moves(w, "svrtell", i, wk[w].st, wk[w].succ) /\ wk[w].pc = "register"
    BY <1>1, <2>0, SvrRegisterDoes
  <2>2. /\ Others(w) /\ wk'[w].pc = "svrtell" /\ wk'[w].item = i /\ wk'[w].fd = wk[w].fd
        /\ wk'[w].pc \notin UrlPc
    BY <2>1 DEF Moves, Others, UrlPc
  <2>3. /\ \A j \in Items \ {i} : items'[j] = items[j]
        /\ i \in Items /\ items'[i].shell = wk[w].fd
        /\ items'[i].url = items[i].url /\ items'[i].ok = items[i].ok
    BY <1>1, <2>0, SvrRegisterDoes DEF Becomes
  <2>4. \A j \in Items \ {i} : Told(j)'
    BY <2>1, <2>2, <2>3, KeepTold DEF UrlInv, SameUrl
  <2>5. Telling(w, i)'
    BY <2>2, <2>3 DEF Telling
  <2>6. Told(i)'
    BY <2>3, <2>5 DEF Told, UrlInv
  <2>7. UrlStored'
    BY <2>2, <2>3, KeepStored DEF UrlInv
  <2>8. QED
    BY <2>4, <2>6, <2>7 DEF UrlInv
<1>2. CASE SvrTell(w)
  <2>0. PICK i : i = wk[w].item
    OBVIOUS
  <2>1. Drops(w) /\ wk[w].pc = "svrtell"
    BY <1>2, SvrTellDoes
  <2>2. Others(w) /\ wk'[w].pc \notin UrlPc /\ wk'[w].pc # "answer"
    BY <2>1 DEF Drops, Others, UrlPc, Idle
  <2>3. /\ \A j \in Items \ {i} : items'[j] = items[j]
        /\ i \in Items /\ items'[i].shell = items[i].shell
        /\ items'[i].url = items[i].url /\ items'[i].ok = items[i].ok
        /\ items'[i].told = items[i].told \cup {<<wk[w].fd, items[i].url>>}
    <3>1. Becomes(i, items[i].yyID, items[i].shell, items[i].url, items[i].gone, items[i].ok,
                  items[i].told \cup {<<wk[w].fd, items[i].url>>}, items[i].left, items[i].late)
      BY <1>2, <2>0, SvrTellDoes
    <3>2. QED
      BY <3>1, Zenon DEF Becomes
  <2>4. \A j \in Items \ {i} : Told(j)'
    BY <2>0, <2>2, <2>3, KeepTold DEF UrlInv, SameUrl
  <2>5. Told(i)'
    <3>1. ASSUME NEW v \in Workers, Answering(v, i)'
          PROVE  Answering(v, i)
      BY <2>2, <3>1 DEF Answering, Others
    <3>2. ASSUME NEW v \in Workers, Telling(v, i)
          PROVE  Telling(v, i)' \/ items[i].shell = wk[w].fd
      BY <2>2, <2>3, <3>2 DEF Telling, Others
    <3>3. Told(i)
      BY <2>3 DEF UrlInv
    <3>4. QED
      BY <2>3, <3>1, <3>2, <3>3 DEF Told
  <2>6. UrlStored'
    BY <2>2, <2>3, KeepStored DEF UrlInv
  <2>7. QED
    BY <2>4, <2>5, <2>6 DEF UrlInv
<1>3. CASE LoginNew(w)
  <2>0. PICK i : i = Cmd(w).n
    OBVIOUS
  <2>1. /\ Moves(w, "adduser", i, wk[w].st, wk[w].succ) /\ wk[w].pc = "loop"
        /\ i \in Items /\ i # 0 /\ items[i].org = 0 /\ items'[i] = NewItem(wk[w].org)
        /\ \A j \in Items \ {i} : items'[j] = items[j]
    <3>1. Makes(w, Cmd(w).n, wk[w].org, at, from)
      BY <1>3, <2>0, LoginNewDoes
    <3>2. QED
      BY <1>3, <2>0, <3>1 DEF Makes
  <2>2. Others(w) /\ wk'[w].pc \notin UrlPc /\ wk'[w].pc # "answer"
    BY <2>1 DEF Moves, Others, UrlPc
  <2>3. items'[i].ok = 0 /\ items'[i].shell = 0
    BY <2>1 DEF NewItem
  <2>4. \A j \in Items \ {i} : Told(j)'
    BY <2>1, <2>2, KeepTold DEF UrlInv, SameUrl
  <2>5. Told(i)'
    BY <2>3 DEF Told
  <2>6. \A v \in Workers : wk[v].item # i
    BY <2>1, HeldSession
  <2>7. UrlStored'
    BY <2>1, <2>2, <2>6, KeepStored DEF UrlInv
  <2>8. QED
    BY <2>4, <2>5, <2>7 DEF UrlInv
<1>4. QED
  BY <1>1, <1>2, <1>3

(* Every step.                                                             *)
LEMMA StepUrl ==
  ASSUME NEW at, NEW from, Core(at, from), UrlInv, [Next]_vars
  PROVE  UrlInv'
<1>1. CASE Peers \/ EventLoop \/ UNCHANGED vars
  <2>1. UNCHANGED <<wk, items>>
    BY <1>1, Outside
  <2>2. UrlStored'
    BY <2>1, Zenon DEF UrlInv, UrlStored, Cmd
  <2>3. \A i \in Items : Told(i)'
    BY <2>1, Zenon DEF UrlInv, Told, Answering, Telling
  <2>4. QED
    BY <2>2, <2>3 DEF UrlInv
<1>2. ASSUME NEW w \in Workers, Worker(w)
      PROVE  UrlInv'
  <2>1. ASSUME Others(w), items' = items, wk[w].pc # "svrtell", wk'[w].pc \notin UrlPc
        PROVE  UrlInv'
    BY <2>1, KeepUrl DEF SameUrl
  <2>2. CASE \/ NotLogin(w) \/ BadFrame(w) \/ OtherCmd(w) \/ LoginCmd(w) \/ LoginRefused(w)
             \/ Login1(w) \/ Logout(w)
    <3>1. items' = items /\ wk[w].pc # "svrtell"
      BY <2>2, PlainDoes
    <3>2. Others(w) /\ wk'[w].pc \notin UrlPc
      <4>1. CASE Drops(w)
        BY <4>1 DEF Drops, UrlPc, Idle
      <4>2. CASE \E pc \in {"spin", "refuse", "shellexit"} :
                   Moves(w, pc, wk[w].item, wk[w].st, wk[w].succ)
        BY <4>2 DEF Moves, Others, UrlPc
      <4>3. QED
        BY <2>2, <4>1, <4>2, PlainDoes
    <3>3. QED
      BY <2>1, <3>1, <3>2
  <2>3. CASE TakeJob(w)
    <3>1. items' = items /\ wk[w].pc # "svrtell" /\ Others(w) /\ wk'[w].pc = "loop"
      <4>1. Takes(w, jobs[w][1]) /\ Pops(w) /\ jobs[w][1] \in Job /\ WorkOK(jobs[w][1], w, at, from)
        BY <2>3, TakeJobDoes
      <4>2. QED
        BY <2>3, <4>1 DEF TakeJob, Takes, Pops
    <3>2. QED
      BY <2>1, <3>1 DEF UrlPc
  <2>4. CASE LoginAccount(w)
    <3>1. wk[w].pc # "svrtell" /\ Moves(w, "check", wk[w].item, wk[w].st, wk[w].succ)
      BY <2>4, LoginAccountDoes
    <3>2. \A i \in Items : SameUrl(i)
      BY <2>4, LoginAccountDoes DEF Becomes, SameUrl
    <3>3. Others(w) /\ wk'[w].pc \notin UrlPc
      BY <3>1 DEF Moves, Others, UrlPc
    <3>4. QED
      BY <3>1, <3>2, <3>3, KeepUrl
  <2>5. CASE ShellExit(w)
    <3>1. wk[w].pc # "svrtell" /\ Moves(w, "deluser", wk[w].item, wk[w].st, wk[w].succ)
      BY <2>5, ShellExitDoes DEF ShellExit
    <3>2. \A i \in Items : SameUrl(i)
      BY <2>5, ShellExitDoes DEF Becomes, SameUrl
    <3>3. Others(w) /\ wk'[w].pc \notin UrlPc
      BY <3>1 DEF Moves, Others, UrlPc
    <3>4. QED
      BY <3>1, <3>2, <3>3, KeepUrl
  <2>6. CASE LogoutDelUser(w)
    <3>1. /\ wk[w].pc # "svrtell" /\ Moves(w, "delfd", wk[w].item, wk[w].st, wk[w].succ)
          /\ items' = items
      BY <2>6, LogoutDelUserCore DEF LogoutDelUser
    <3>2. Others(w) /\ wk'[w].pc \notin UrlPc
      BY <3>1 DEF Moves, Others, UrlPc
    <3>3. QED
      BY <2>1, <3>1, <3>2
  <2>7. CASE LogoutDelFd(w)
    <3>1. wk[w].pc # "svrtell" /\ Drops(w)
      <4>1. Forgets(w)
        BY <2>7, LogoutDelFdDoes
      <4>2. QED
        BY <2>7, <4>1 DEF Forgets
    <3>2. \A i \in Items : SameUrl(i)
      <4>1. Forgets(w)
        BY <2>7, LogoutDelFdDoes
      <4>2. QED
        BY <2>7, <4>1 DEF Becomes, SameUrl, Forgets
    <3>3. Others(w) /\ wk'[w].pc \notin UrlPc
      BY <3>1 DEF Drops, Others, UrlPc, Idle
    <3>4. QED
      BY <3>1, <3>2, <3>3, KeepUrl
  <2>8. CASE SvrInit(w)
    <3>1. items' = items /\ wk[w].pc # "svrtell"
      BY <2>8 DEF SvrInit, At
    <3>2. Others(w) /\ wk'[w].pc \notin UrlPc
      BY <2>8, SvrInitDoes DEF Drops, Moves, Others, UrlPc, Idle
    <3>3. QED
      BY <2>1, <3>1, <3>2
  <2>9. CASE \/ OpenUrl(w) \/ UrlVisible(w) \/ OpenUrlRoute(w) \/ OpenUrlTell(w) \/ ShellExec(w)
             \/ OpenUrlAnswer(w)
    BY <2>9, OpenUrlInv, AnswerUrlInv
  <2>10. CASE SvrRegister(w) \/ SvrTell(w) \/ LoginNew(w)
    BY <2>10, ShellUrlInv
  <2>11. QED
    BY <1>2, <2>2, <2>3, <2>4, <2>5, <2>6, <2>7, <2>8, <2>9, <2>10 DEF Worker
<1>3. QED
  BY <1>1, <1>2 DEF Next

(* Once OPENURL has been answered with success, the shell client connected *)
(* for the session has been sent that url, whichever of the client's and   *)
(* the shell's worker came first and however late their unlocked stores to *)
(* url and shellClient_fd become visible: the second look ShellExec takes  *)
(* at shellClient_fd is what makes it so.                                  *)
THEOREM UrlCorrect == Spec => []AnsweredUrlReachesShell
<1>1. Init => UrlInv
  BY DEF Init, UrlInv, UrlStored, Told, NewItem, Idle, UrlPc
<1>2. CoreInv /\ UrlInv /\ [Next]_vars => UrlInv'
  BY StepUrl DEF CoreInv
<1>3. UrlInv => AnsweredUrlReachesShell
  BY DEF UrlInv, Told, Telling, AnsweredUrlReachesShell, SettledSession
<1>4. QED
  BY <1>1, <1>2, <1>3, CoreCorrect, PTL DEF Spec

-----------------------------------------------------------------------------
(* Sessions and the connections that follow one another on a descriptor.   *)

(* A simulated LOGOUT stands between two places of the job queue.          *)
LogoutIn(fd, lo, hi) ==
  \E j \in 1 .. Len(jobs[ThreadOf(fd)]) :
    lo < j /\ j < hi /\ jobs[ThreadOf(fd)][j].fd = fd /\ jobs[ThreadOf(fd)][j].org = 0

(* Connection d was closed with data pending and no session, or a Logout   *)
(* of fd is queued between lo and hi.                                      *)
Ended(d, fd, lo, hi) == d \in rude \/ LogoutIn(fd, lo, hi)

(* It is being processed.                                                  *)
Ending(fd) ==
  wk[ThreadOf(fd)].pc # "idle" /\ wk[ThreadOf(fd)].fd = fd /\ wk[ThreadOf(fd)].org = 0

(* Before place hi, where the data of connection c begins, everything of   *)
(* an earlier connection on the descriptor is followed by a LOGOUT.        *)
Closed(fd, hi, c) ==
  /\ \A k \in 1 .. Len(jobs[ThreadOf(fd)]) :
       LET j == jobs[ThreadOf(fd)][k] IN
       k < hi /\ j.fd = fd /\ j.org \notin {0, c} => Ended(j.org, fd, k, hi)
  /\ LET k == wk[ThreadOf(fd)] IN
     k.pc # "idle" /\ k.fd = fd /\ k.org \notin {0, c} => Ended(k.org, fd, 0, hi)
  /\ fdmap[fd] # 0 /\ items[fdmap[fd]].org # c
       => Ended(items[fdmap[fd]].org, fd, 0, hi) \/ Ending(fd)

(* The connection open on fd, and that of each job queued for fd, has no   *)
(* predecessor whose session it could find.                                *)
Heirs ==
  \A fd \in Fds :
    /\ Closed(fd, Len(jobs[ThreadOf(fd)]) + 1, open[fd])
    /\ \A i \in 1 .. Len(jobs[ThreadOf(fd)]) :
         LET j == jobs[ThreadOf(fd)][i] IN j.fd = fd /\ j.org # 0 => Closed(fd, i, j.org)

(* The queue of w only grows, and rude too.                                *)
Longer(w) ==
  /\ Len(jobs[w]) \in Nat /\ Len(jobs'[w]) \in Nat /\ Len(jobs'[w]) >= Len(jobs[w])
  /\ \A k \in 1 .. Len(jobs[w]) : jobs'[w][k] = jobs[w][k]
  /\ rude \subseteq rude'

(* A Logout in the queue stays in it while jobs are added.                 *)
LEMMA EndedLater ==
  ASSUME NEW fd, Longer(ThreadOf(fd)), NEW d, NEW lo \in Int, NEW hi \in Int, NEW hi2 \in Int,
         hi <= hi2, Ended(d, fd, lo, hi)
  PROVE  Ended(d, fd, lo, hi2)'
<1> DEFINE w == ThreadOf(fd)
<1>0. ThreadOf(fd)' = w
  BY DEF ThreadOf
<1>1. CASE d \in rude
  BY <1>1 DEF Longer, Ended
<1>2. CASE LogoutIn(fd, lo, hi)
  <2>1. PICK j \in 1 .. Len(jobs[w]) : lo < j /\ j < hi /\ jobs[w][j].fd = fd /\ jobs[w][j].org = 0
    BY <1>2 DEF LogoutIn
  <2>2. j \in 1 .. Len(jobs'[w]) /\ jobs'[w][j] = jobs[w][j] /\ j < hi2
    BY <2>1 DEF Longer
  <2>3. LogoutIn(fd, lo, hi2)'
    BY <1>0, <2>1, <2>2 DEF LogoutIn
  <2>4. QED
    BY <2>3 DEF Ended
<1>3. QED
  BY <1>1, <1>2 DEF Ended

(* The session under fd is the one before, or the one a worker has just    *)
(* made for the connection it serves.                                      *)
Succeeds(fd) ==
  LET w == ThreadOf(fd) IN
  fdmap'[fd] # 0 =>
    \/ /\ fdmap'[fd] = fdmap[fd] /\ items'[fdmap[fd]].org = items[fdmap[fd]].org
       /\ Ending(fd) => Ending(fd)'
    \/ /\ items'[fdmap'[fd]].org = wk[w].org
       /\ wk[w].pc # "idle" /\ wk[w].fd = fd /\ wk[w].org # 0

(* Worker w takes nothing new.                                             *)
Goes(w) ==
  wk'[w].pc # "idle" => wk[w].pc # "idle" /\ wk'[w].fd = wk[w].fd /\ wk'[w].org = wk[w].org

(* A descriptor whose earlier connections are all ended stays so when jobs *)
(* of its connection are added.                                            *)
LEMMA ClosedLater ==
  ASSUME NEW fd, NEW w, w = ThreadOf(fd), Longer(w), Goes(w), Succeeds(fd),
         NEW hi \in Nat, NEW hi2 \in Nat, NEW c, Closed(fd, hi, c), hi <= hi2,
         \A k \in 1 .. Len(jobs'[w]) :
           k < hi2 => \/ k < hi /\ k \in 1 .. Len(jobs[w])
                      \/ jobs'[w][k].fd # fd \/ jobs'[w][k].org \in {0, c}
  PROVE  Closed(fd, hi2, c)'
<1>0. ThreadOf(fd)' = w
  BY DEF ThreadOf
<1>1. ASSUME NEW k \in 1 .. Len(jobs'[w]), k < hi2, jobs'[w][k].fd = fd, jobs'[w][k].org \notin {0, c}
      PROVE  jobs'[w][k].org \in rude' \/ LogoutIn(fd, k, hi2)'
  <2>1. k < hi /\ k \in 1 .. Len(jobs[w]) /\ jobs'[w][k] = jobs[w][k]
    BY <1>1 DEF Longer
  <2>2. PICK d : d = jobs[w][k].org
    OBVIOUS
  <2>3. Ended(d, fd, k, hi)
    BY <1>1, <2>1, <2>2 DEF Closed
  <2>4. Ended(d, fd, k, hi2)'
    BY <2>1, <2>3, EndedLater
  <2>5. QED
    BY <2>1, <2>2, <2>4 DEF Ended
<1>2. ASSUME wk[w].pc # "idle", wk[w].fd = fd, wk[w].org \notin {0, c}
      PROVE  wk[w].org \in rude' \/ LogoutIn(fd, 0, hi2)'
  <2>2. PICK d : d = wk[w].org
    OBVIOUS
  <2>3. Ended(d, fd, 0, hi)
    BY <1>2, <2>2 DEF Closed
  <2>4. Ended(d, fd, 0, hi2)'
    BY <2>3, EndedLater
  <2>5. QED
    BY <2>2, <2>4 DEF Ended
<1>3. wk'[w].pc # "idle" /\ wk'[w].fd = fd /\ wk'[w].org \notin {0, c}
        => wk'[w].org \in rude' \/ LogoutIn(fd, 0, hi2)'
  BY <1>2 DEF Goes
<1>4. ASSUME fdmap'[fd] # 0, items'[fdmap'[fd]].org # c
      PROVE  items'[fdmap'[fd]].org \in rude' \/ LogoutIn(fd, 0, hi2)' \/ Ending(fd)'
  <2>1. CASE /\ fdmap'[fd] = fdmap[fd] /\ items'[fdmap[fd]].org = items[fdmap[fd]].org
             /\ Ending(fd) => Ending(fd)'
    <3>1. PICK d : d = items[fdmap[fd]].org
      OBVIOUS
    <3>2. Ended(d, fd, 0, hi) \/ Ending(fd)
      BY <1>4, <2>1, <3>1 DEF Closed
    <3>3. Ended(d, fd, 0, hi) => Ended(d, fd, 0, hi2)'
      BY EndedLater
    <3>4. QED
      BY <2>1, <3>1, <3>2, <3>3 DEF Ended
  <2>2. CASE /\ items'[fdmap'[fd]].org = wk[w].org
             /\ wk[w].pc # "idle" /\ wk[w].fd = fd /\ wk[w].org # 0
    BY <1>2, <1>4, <2>2
  <2>3. QED
    BY <1>4, <2>1, <2>2 DEF Succeeds
<1>5. QED
  BY <1>0, <1>1, <1>3, <1>4 DEF Closed, Ended

(* A step that leaves the queues and the connections alone.                *)
LEMMA SameQueueHeirs ==
  ASSUME TypeOK, Heirs, UNCHANGED <<jobs, open, rude>>, \A w \in Workers : Goes(w),
         \A fd \in Fds : Succeeds(fd)
  PROVE  Heirs'
<1> SUFFICES ASSUME NEW fd \in Fds
             PROVE  (/\ Closed(fd, Len(jobs[ThreadOf(fd)]) + 1, open[fd])
                     /\ \A i \in 1 .. Len(jobs[ThreadOf(fd)]) :
                          LET j == jobs[ThreadOf(fd)][i] IN j.fd = fd /\ j.org # 0 => Closed(fd, i, j.org))'
  BY DEF Heirs
<1>1. PICK w \in Workers : w = ThreadOf(fd) /\ ThreadOf(fd)' = w
  BY ThreadOfWorker DEF ThreadOf
<1>2. Len(jobs[w]) \in Nat
  BY LenProperties DEF TypeOK
<1>3. Longer(w)
  BY <1>2 DEF Longer
<1>4. ASSUME NEW hi \in Nat, NEW c, Closed(fd, hi, c), hi <= Len(jobs[w]) + 1
      PROVE  Closed(fd, hi, c)'
  BY <1>1, <1>2, <1>3, <1>4, ClosedLater
<1>5. PICK L, c : L \in Nat /\ L = Len(jobs[w]) + 1 /\ c = open[fd] /\ Closed(fd, L, c)
  BY <1>1, <1>2 DEF Heirs
<1>6. Closed(fd, L, c)'
  BY <1>2, <1>4, <1>5
<1>7. ASSUME NEW i \in 1 .. Len(jobs[w]), jobs[w][i].fd = fd, jobs[w][i].org # 0
      PROVE  Closed(fd, i, jobs[w][i].org)'
  <2>1. PICK d : d = jobs[w][i].org /\ Closed(fd, i, d)
    BY <1>1, <1>7 DEF Heirs
  <2>2. Closed(fd, i, d)'
    BY <1>2, <1>4, <2>1
  <2>3. QED
    BY <2>1, <2>2 DEF Closed
<1>8. Closed(fd, Len(jobs[w]) + 1, open[fd])'
  BY <1>5, <1>6 DEF Closed, Ended, LogoutIn
<1>9. QED
  BY <1>1, <1>7, <1>8

(* The steps of the workers.                                               *)
LEMMA StepGoes ==
  ASSUME NEW w \in Workers, Others(w),
         wk'[w].pc # "idle" => wk[w].pc # "idle" /\ wk'[w].fd = wk[w].fd /\ wk'[w].org = wk[w].org
  PROVE  \A v \in Workers : Goes(v)
  BY DEF Others, Goes

(* A step that leaves the map and the owners of the sessions alone.        *)
LEMMA StepSucceeds ==
  ASSUME NEW at, NEW from, Core(at, from), NEW w \in Workers, Others(w), fdmap' = fdmap,
         \A i \in Items : items'[i].org = items[i].org,
         wk'[w].pc = "idle" => wk[w].org # 0,
         wk'[w].pc # "idle" => wk'[w].fd = wk[w].fd /\ wk'[w].org = wk[w].org
  PROVE  \A fd \in Fds : Succeeds(fd)
<1> SUFFICES ASSUME NEW fd \in Fds, fdmap[fd] # 0
             PROVE  /\ items'[fdmap[fd]].org = items[fdmap[fd]].org
                    /\ Ending(fd) => Ending(fd)'
  BY DEF Succeeds
<1>1. fdmap[fd] \in Items
  BY HeldSession
<1>2. PICK u \in Workers : u = ThreadOf(fd) /\ ThreadOf(fd)' = u
  BY ThreadOfWorker DEF ThreadOf
<1>3. Ending(fd) => Ending(fd)'
  <2>1. CASE u = w
    BY <1>2, <2>1 DEF Ending
  <2>2. CASE u # w
    BY <1>2, <2>2 DEF Ending, Others
  <2>3. QED
    BY <2>1, <2>2
<1>4. QED
  BY <1>1, <1>3

(* The steps of a worker within its job.                                   *)
LEMMA WorkerHeirs ==
  ASSUME NEW at, NEW from, Core(at, from), NEW w \in Workers, Heirs, Worker(w), ~TakeJob(w)
  PROVE  Heirs'
<1>0. TypeOK /\ UNCHANGED <<jobs, open, rude>>
  BY DEF Core, Worker, NotLogin, BadFrame, OtherCmd, LoginNew, LoginAccount, LoginCmd, LoginRefused,
         Login1, Logout, ShellExit, LogoutDelUser, LogoutDelFd, OpenUrl, UrlVisible, OpenUrlRoute,
         OpenUrlTell, ShellExec, OpenUrlAnswer, SvrInit, SvrRegister, SvrTell, workerFrame
<1>1. CASE Aside(w)
  BY <1>0, <1>1, StepGoes, StepSucceeds, SameQueueHeirs DEF Aside
<1>2. CASE ShellExit(w) \/ LogoutDelUser(w) \/ SvrRegister(w)
  <2>1. fdmap' = fdmap /\ wk[w].pc # "idle"
    BY <1>2 DEF ShellExit, LogoutDelUser, SvrRegister
  <2>2. \E pc \in {"deluser", "delfd", "svrtell"} : Moves(w, pc, wk[w].item, wk[w].st, wk[w].succ)
    BY <1>2, ShellExitDoes, LogoutDelUserCore, SvrRegisterDoes
  <2>3. \A j \in Items : items'[j].org = items[j].org
    BY <1>2, ShellExitDoes, SvrRegisterDoes DEF Becomes, LogoutDelUser
  <2>4. /\ Others(w) /\ wk'[w].pc # "idle" /\ wk'[w].fd = wk[w].fd /\ wk'[w].org = wk[w].org
    BY <2>2 DEF Moves, Others
  <2>5. QED
    BY <1>0, <2>1, <2>3, <2>4, StepGoes, StepSucceeds, SameQueueHeirs
<1>3. CASE LoginNew(w)
  <2>1. PICK n : n = Cmd(w).n
    OBVIOUS
  <2>0. Moves(w, "adduser", n, wk[w].st, wk[w].succ)
    <3>1. Makes(w, Cmd(w).n, wk[w].org, at, from)
      BY <1>3, <2>1, LoginNewDoes
    <3>2. QED
      BY <1>3, <2>1, <3>1 DEF Makes
  <2>2. /\ n \in Items /\ n # 0 /\ items[n].org = 0 /\ wk[w].fd \in Fds /\ wk[w].pc = "loop"
        /\ \A j \in Items \ {n} : items'[j] = items[j]
        /\ items'[n] = NewItem(wk[w].org) /\ wk[w].org # 0
        /\ fdmap'[wk[w].fd] = n /\ \A fd \in Fds \ {wk[w].fd} : fdmap'[fd] = fdmap[fd]
    <3> DEFINE m == Cmd(w).n
    <3>1. /\ m \in Items /\ m # 0 /\ items[m].org = 0 /\ wk[w].fd \in Fds /\ wk[w].pc = "loop"
          /\ \A j \in Items \ {m} : items'[j] = items[j]
      <4>1. Makes(w, Cmd(w).n, wk[w].org, at, from)
        BY <1>3, LoginNewDoes
      <4>2. QED
        BY <1>3, <4>1 DEF Makes
    <3>2. /\ items'[m] = NewItem(wk[w].org) /\ wk[w].org # 0
          /\ fdmap'[wk[w].fd] = m /\ \A fd \in Fds \ {wk[w].fd} : fdmap'[fd] = fdmap[fd]
      <4>1. Makes(w, Cmd(w).n, wk[w].org, at, from)
        BY <1>3, LoginNewDoes
      <4>2. QED
        BY <1>3, <4>1 DEF Makes
    <3>3. n = m
      BY <2>1
    <3> HIDE DEF m
    <3>4. QED
      BY <3>1, <3>2, <3>3
  <2>3. items'[n].org = wk[w].org
    BY <2>2 DEF NewItem
  <2>4. Others(w) /\ wk'[w].pc # "idle" /\ wk'[w].fd = wk[w].fd /\ wk'[w].org = wk[w].org
    BY <2>0 DEF Moves, Others
  <2>5. ThreadOf(wk[w].fd) = w
    BY <2>2, AtWork DEF Core
  <2>6. ASSUME NEW fd \in Fds
        PROVE  Succeeds(fd)
    <3>1. CASE fd = wk[w].fd
      BY <2>2, <2>3, <2>5, <3>1 DEF Succeeds
    <3>2. CASE fd # wk[w].fd
      <4>1. fdmap'[fd] = fdmap[fd] /\ (fdmap[fd] # 0 => items'[fdmap[fd]].org = items[fdmap[fd]].org)
        BY <2>2, <3>2, HeldSession
      <4>2. PICK u \in Workers : u = ThreadOf(fd) /\ ThreadOf(fd)' = u
        BY ThreadOfWorker DEF ThreadOf
      <4>3. Ending(fd) => Ending(fd)'
        BY <2>4, <3>2, <4>2 DEF Ending, Others
      <4>4. QED
        BY <4>1, <4>3 DEF Succeeds
    <3>3. QED
      BY <3>1, <3>2
  <2>7. QED
    BY <1>0, <2>2, <2>4, <2>6, StepGoes, SameQueueHeirs
<1>4. CASE LogoutDelFd(w)
  <2>1. /\ wk[w].pc = "delfd" /\ wk[w].fd \in Fds /\ Drops(w) /\ fdmap'[wk[w].fd] = 0
        /\ \A fd \in Fds \ {wk[w].fd} : fdmap'[fd] = fdmap[fd]
    <3>1. Forgets(w)
      BY <1>4, LogoutDelFdDoes
    <3>2. QED
      BY <1>4, <3>1 DEF Forgets
  <2>2. \A j \in Items : items'[j].org = items[j].org
    <3>1. Forgets(w)
      BY <1>4, LogoutDelFdDoes
    <3>2. QED
      BY <1>4, <3>1 DEF Becomes, Forgets
  <2>3. /\ Others(w)
        /\ wk'[w].pc # "idle" => wk'[w].fd = wk[w].fd /\ wk'[w].org = wk[w].org
    BY <2>1 DEF Drops, Idle
  <2>4. ASSUME NEW fd \in Fds
        PROVE  Succeeds(fd)
    <3>1. CASE fd = wk[w].fd
      BY <2>1, <3>1 DEF Succeeds
    <3>2. CASE fd # wk[w].fd
      <4>1. fdmap'[fd] = fdmap[fd] /\ (fdmap[fd] # 0 => items'[fdmap[fd]].org = items[fdmap[fd]].org)
        BY <2>1, <2>2, <3>2, HeldSession
      <4>2. PICK u \in Workers : u = ThreadOf(fd) /\ ThreadOf(fd)' = u
        BY ThreadOfWorker DEF ThreadOf
      <4>3. Ending(fd) => Ending(fd)'
        BY <2>3, <3>2, <4>2 DEF Ending, Others
      <4>4. QED
        BY <4>1, <4>3 DEF Succeeds
    <3>3. QED
      BY <3>1, <3>2
  <2>5. QED
    BY <1>0, <2>1, <2>3, <2>4, StepGoes, SameQueueHeirs
<1>5. QED
  BY <1>1, <1>2, <1>3, <1>4, WorkerDoes

(* A worker takes its next job: the places move up, and a LOGOUT may have  *)
(* left the queue to be processed.                                         *)
LEMMA TakeJobClosed ==
  ASSUME NEW at, NEW from, Core(at, from), NEW fd \in Fds, NEW w \in Workers, w = ThreadOf(fd),
         TakeJob(w), NEW hi \in Nat, hi >= 1, hi <= Len(jobs[w]), NEW c, Closed(fd, hi + 1, c)
  PROVE  Closed(fd, hi, c)'
<1>0. ThreadOf(fd)' = w
  BY DEF ThreadOf
<1>1. /\ wk[w].pc = "idle" /\ Len(jobs[w]) \in Nat /\ Len(jobs[w]) >= 1
      /\ wk'[w].pc = "loop" /\ wk'[w].fd = jobs[w][1].fd /\ wk'[w].org = jobs[w][1].org
      /\ Len(jobs'[w]) = Len(jobs[w]) - 1
      /\ \A i \in 1 .. Len(jobs[w]) - 1 : jobs'[w][i] = jobs[w][i + 1]
  <2>1. Takes(w, jobs[w][1]) /\ Pops(w)
    BY TakeJobDoes
  <2>2. QED
    BY <2>1 DEF Takes, Pops
<1>2. UNCHANGED <<items, fdmap, rude>>
  BY DEF TakeJob
<1>3. ASSUME NEW lo \in Nat, NEW l1 \in Nat, l1 = lo + 1, LogoutIn(fd, l1, hi + 1)
      PROVE  LogoutIn(fd, lo, hi)'
  <2>1. PICK j \in 1 .. Len(jobs[w]) : /\ l1 < j /\ j < hi + 1
                                       /\ jobs[w][j].fd = fd /\ jobs[w][j].org = 0
    BY <1>3 DEF LogoutIn
  <2>2. j - 1 \in 1 .. Len(jobs'[w]) /\ lo < j - 1 /\ j - 1 < hi /\ jobs'[w][j - 1] = jobs[w][j]
    <3>1. j - 1 \in 1 .. Len(jobs[w]) - 1 /\ (j - 1) + 1 = j /\ lo < j - 1 /\ j - 1 < hi
      <4>1. PICK L \in Nat : L = Len(jobs[w])
        BY <1>1
      <4>2. j \in 1 .. L /\ hi <= L
        BY <4>1
      <4>3. j - 1 \in 1 .. L - 1 /\ (j - 1) + 1 = j /\ lo < j - 1 /\ j - 1 < hi
        BY <1>3, <2>1, <4>2
      <4>4. QED
        BY <4>1, <4>3
    <3>2. QED
      BY <1>1, <3>1
  <2>3. QED
    BY <1>0, <2>1, <2>2 DEF LogoutIn
<1>4. ASSUME NEW k \in 1 .. Len(jobs'[w]), k < hi, jobs'[w][k].fd = fd, jobs'[w][k].org \notin {0, c}
      PROVE  jobs'[w][k].org \in rude' \/ LogoutIn(fd, k, hi)'
  <2>1. k + 1 \in 1 .. Len(jobs[w]) /\ k + 1 < hi + 1 /\ jobs'[w][k] = jobs[w][k + 1]
    BY <1>1, <1>4
  <2>2. jobs[w][k + 1].org \in rude \/ LogoutIn(fd, k + 1, hi + 1)
    BY <1>4, <2>1 DEF Closed, Ended
  <2>3. k \in Nat /\ k + 1 \in Nat
    BY <2>1
  <2>4. QED
    BY <1>2, <1>3, <2>1, <2>2, <2>3
<1>5. ASSUME wk'[w].fd = fd, wk'[w].org \notin {0, c}
      PROVE  wk'[w].org \in rude' \/ LogoutIn(fd, 0, hi)'
  <2>1. 1 \in 1 .. Len(jobs[w]) /\ 1 < hi + 1
    BY <1>1
  <2>2. jobs[w][1].org \in rude \/ LogoutIn(fd, 1, hi + 1)
    BY <1>1, <1>5, <2>1 DEF Closed, Ended
  <2>3. QED
    BY <1>1, <1>2, <1>3, <2>2
<1>6. ASSUME fdmap[fd] # 0, items[fdmap[fd]].org # c
      PROVE  items[fdmap[fd]].org \in rude \/ LogoutIn(fd, 0, hi)' \/ Ending(fd)'
  <2>1. items[fdmap[fd]].org \in rude \/ LogoutIn(fd, 0, hi + 1)
    BY <1>1, <1>6 DEF Closed, Ended, Ending
  <2>2. CASE LogoutIn(fd, 0, hi + 1)
    <3>1. PICK j \in 1 .. Len(jobs[w]) : j < hi + 1 /\ jobs[w][j].fd = fd /\ jobs[w][j].org = 0
      BY <2>2 DEF LogoutIn
    <3>2. CASE j = 1
      BY <1>0, <1>1, <3>1, <3>2 DEF Ending
    <3>3. CASE j # 1
      <4>1. 1 < j
        BY <1>1, <3>1, <3>3
      <4>2. LogoutIn(fd, 1, hi + 1)
        BY <3>1, <4>1 DEF LogoutIn
      <4>3. QED
        BY <1>3, <4>2
    <3>4. QED
      BY <3>2, <3>3
  <2>3. QED
    BY <2>1, <2>2
<1>7. QED
  BY <1>0, <1>2, <1>4, <1>5, <1>6 DEF Closed, Ended

(* A worker takes a job: a Logout at the head of the queue becomes the one *)
(* being processed.                                                        *)
LEMMA TakeJobHeirs ==
  ASSUME NEW at, NEW from, Core(at, from), NEW w \in Workers, Heirs, TakeJob(w)
  PROVE  Heirs'
<1>1. /\ TypeOK /\ Len(jobs[w]) \in Nat /\ Len(jobs[w]) >= 1 /\ Others(w)
      /\ Len(jobs'[w]) = Len(jobs[w]) - 1
      /\ \A i \in 1 .. Len(jobs[w]) - 1 : jobs'[w][i] = jobs[w][i + 1]
      /\ \A v \in Workers \ {w} : jobs'[v] = jobs[v]
  <2>1. Takes(w, jobs[w][1]) /\ Pops(w) /\ jobs[w][1] \in Job /\ WorkOK(jobs[w][1], w, at, from)
    BY TakeJobDoes
  <2>2. QED
    BY <2>1 DEF Core, Takes, Pops
<1>2. UNCHANGED <<items, fdmap, rude, open>>
  BY DEF TakeJob
<1>3. ASSUME NEW fd \in Fds
      PROVE  (/\ Closed(fd, Len(jobs[ThreadOf(fd)]) + 1, open[fd])
              /\ \A i \in 1 .. Len(jobs[ThreadOf(fd)]) :
                   LET j == jobs[ThreadOf(fd)][i] IN j.fd = fd /\ j.org # 0 => Closed(fd, i, j.org))'
  <2>1. PICK u \in Workers : u = ThreadOf(fd) /\ ThreadOf(fd)' = u
    BY ThreadOfWorker DEF ThreadOf
  <2>2. PICK c : c = open[fd]
    OBVIOUS
  <2>3. CASE u = w
    <3>1. PICK L \in Nat : L = Len(jobs[w]) /\ L >= 1
      BY <1>1
    <3>2. Closed(fd, L + 1, c)
      BY <2>1, <2>2, <2>3, <3>1 DEF Heirs
    <3>0. w = ThreadOf(fd) /\ L <= Len(jobs[w])
      BY <2>1, <2>3, <3>1
    <3>3. Closed(fd, L, c)'
      BY <3>0, <3>1, <3>2, TakeJobClosed
    <3>4. Len(jobs'[w]) + 1 = L /\ Len(jobs'[w]) = L - 1
      BY <1>1, <3>1
    <3>5. Closed(fd, Len(jobs[w]) + 1, open[fd])'
      BY <1>2, <2>2, <3>3, <3>4 DEF Closed, Ended, LogoutIn
    <3>6. ASSUME NEW i \in 1 .. L - 1, jobs'[w][i].fd = fd, jobs'[w][i].org # 0
          PROVE  Closed(fd, i, jobs[w][i].org)'
      <4>1. i + 1 \in 1 .. L /\ jobs'[w][i] = jobs[w][i + 1] /\ i \in Nat /\ i >= 1 /\ i <= L
        BY <1>1, <3>1
      <4>2. PICK d : d = jobs[w][i + 1].org /\ Closed(fd, i + 1, d)
        BY <2>1, <2>3, <3>1, <3>6, <4>1 DEF Heirs
      <4>3. Closed(fd, i, d)'
        BY <2>1, <2>3, <3>1, <4>1, <4>2, TakeJobClosed
      <4>4. QED
        BY <4>1, <4>2, <4>3 DEF Closed
    <3>7. QED
      BY <2>1, <2>3, <3>4, <3>5, <3>6
  <2>4. CASE u # w
    <3>1. jobs'[u] = jobs[u] /\ wk'[u] = wk[u]
      BY <1>1, <2>4 DEF Others
    <3>2. ASSUME NEW hi, NEW d, Closed(fd, hi, d)
          PROVE  Closed(fd, hi, d)'
      BY <1>2, <2>1, <3>1, <3>2, Zenon DEF Closed, Ended, LogoutIn, Ending
    <3>3. PICK L : L = Len(jobs[u]) + 1 /\ Closed(fd, L, c)
      BY <2>1, <2>2 DEF Heirs
    <3>4. Closed(fd, Len(jobs[u]) + 1, open[fd])'
      <4>1. Closed(fd, L, c)'
        BY <3>2, <3>3
      <4>2. QED
        BY <1>2, <2>2, <3>1, <3>3, <4>1 DEF Closed, Ended, LogoutIn
    <3>5. ASSUME NEW i \in 1 .. Len(jobs[u]), jobs[u][i].fd = fd, jobs[u][i].org # 0
          PROVE  Closed(fd, i, jobs[u][i].org)'
      <4>1. PICK d : d = jobs[u][i].org /\ Closed(fd, i, d)
        BY <2>1, <3>5 DEF Heirs
      <4>2. Closed(fd, i, d)'
        BY <3>2, <4>1
      <4>3. QED
        BY <3>1, <4>1, <4>2 DEF Closed
    <3>6. QED
      BY <2>1, <3>1, <3>4, <3>5
  <2>5. QED
    BY <2>3, <2>4
<1>4. QED
  BY <1>3 DEF Heirs

(* A step of the event thread on descriptor fd.                            *)
LEMMA EventHeirs ==
  ASSUME TypeOK, Heirs, UNCHANGED <<wk, items, fdmap>>, rude \subseteq rude', NEW fd \in Fds, NEW x,
         jobs' = jobs \/ (Joins(x) /\ x.fd = fd /\ x.org \in {0, open[fd]}),
         \A g \in Fds \ {fd} : open'[g] = open[g],
         Closed(fd, Len(jobs[ThreadOf(fd)]) + 1, open[fd])'
  PROVE  Heirs'
<1>1. ASSUME NEW g \in Fds
      PROVE  (/\ Closed(g, Len(jobs[ThreadOf(g)]) + 1, open[g])
              /\ \A i \in 1 .. Len(jobs[ThreadOf(g)]) :
                   LET j == jobs[ThreadOf(g)][i] IN j.fd = g /\ j.org # 0 => Closed(g, i, j.org))'
  <2>1. PICK u \in Workers : u = ThreadOf(g) /\ ThreadOf(g)' = u
    BY ThreadOfWorker DEF ThreadOf
  <2>2. Len(jobs[u]) \in Nat
    BY LenProperties DEF TypeOK
  <2>3. /\ Longer(u) /\ Goes(u) /\ Succeeds(g)
    <3>1. Longer(u)
      <4>1. CASE jobs' = jobs
        BY <2>2, <4>1 DEF Longer
      <4>2. CASE Joins(x) /\ u = ThreadOf(x.fd)
        <5>1. Len(jobs'[u]) = Len(jobs[u]) + 1 /\ \A i \in 1 .. Len(jobs[u]) : jobs'[u][i] = jobs[u][i]
          BY <4>2 DEF Joins
        <5>2. QED
          BY <2>2, <5>1 DEF Longer
      <4>3. CASE Joins(x) /\ u # ThreadOf(x.fd)
        <5>1. jobs'[u] = jobs[u]
          BY <4>3 DEF Joins
        <5>2. QED
          BY <2>2, <5>1 DEF Longer
      <4>4. QED
        BY <4>1, <4>2, <4>3
    <3>2. Goes(u)
      BY DEF Goes
    <3>3. Succeeds(g)
      BY DEF Succeeds, Ending, ThreadOf
    <3>4. QED
      BY <3>1, <3>2, <3>3
  <2>0. PICK c : c = open[g]
    OBVIOUS
  <2>4. PICK L \in Nat : c = open[g] /\ L = Len(jobs[u]) + 1 /\ Closed(g, L, c)
    BY <2>0, <2>1, <2>2 DEF Heirs
  <2>5. ASSUME NEW k \in 1 .. Len(jobs'[u])
        PROVE  \/ k \in 1 .. Len(jobs[u]) /\ jobs'[u][k] = jobs[u][k]
               \/ Joins(x) /\ u = ThreadOf(fd) /\ k = L /\ jobs'[u][k] = x
    <3>1. CASE jobs' = jobs
      BY <3>1
    <3>2. CASE jobs' # jobs
      BY <2>4, <3>2, JoinedJobs
    <3>3. QED
      BY <3>1, <3>2
  <2>6. ASSUME NEW i \in Nat, NEW d, Closed(g, i, d), i <= L
        PROVE  Closed(g, i, d)'
    <3>1. \A k \in 1 .. Len(jobs'[u]) : k < i => k < i /\ k \in 1 .. Len(jobs[u])
      BY <2>2, <2>4, <2>6
    <3>2. i <= i
      OBVIOUS
    <3>3. QED
      BY <2>1, <2>3, <2>6, <3>1, <3>2, ClosedLater
  <2>7. ASSUME NEW i \in 1 .. Len(jobs'[u]), jobs'[u][i].fd = g, jobs'[u][i].org # 0
        PROVE  Closed(g, i, jobs[u][i].org)'
    <3>1. CASE i \in 1 .. Len(jobs[u]) /\ jobs'[u][i] = jobs[u][i]
      <4>1. PICK d : d = jobs[u][i].org /\ Closed(g, i, d)
        BY <2>1, <2>7, <3>1 DEF Heirs
      <4>2. i \in Nat /\ i <= L
        BY <2>2, <2>4, <3>1
      <4>3. Closed(g, i, d)'
        BY <2>6, <4>1, <4>2
      <4>4. QED
        BY <3>1, <4>1, <4>3 DEF Closed
    <3>2. CASE Joins(x) /\ u = ThreadOf(fd) /\ i = L /\ jobs'[u][i] = x
      <4>1. jobs' # jobs
        <5>1. Len(jobs'[u]) = Len(jobs[u]) + 1
          BY <3>2 DEF Joins
        <5>2. QED
          BY <2>2, <5>1
      <4>2. x.fd = g /\ g = fd /\ x.org = c
        BY <2>4, <2>7, <3>2, <4>1
      <4>3. Closed(g, L, c)'
        BY <2>4, <2>6
      <4>4. QED
        BY <3>2, <4>2, <4>3 DEF Closed
    <3>3. QED
      BY <2>5, <3>1, <3>2
  <2>8. Closed(g, Len(jobs[u]) + 1, open[g])'
    <3>1. CASE g = fd
      BY <2>1, <3>1 DEF Closed
    <3>2. CASE g # fd
      <4>1. PICK M \in Nat : M = Len(jobs'[u]) + 1
        BY <2>3 DEF Longer
      <4>2. L <= M
        BY <2>3, <2>4, <4>1 DEF Longer
      <4>3. ASSUME NEW k \in 1 .. Len(jobs'[u])
            PROVE  \/ k < L /\ k \in 1 .. Len(jobs[u])
                   \/ jobs'[u][k].fd # g
        <5>1. CASE k \in 1 .. Len(jobs[u]) /\ jobs'[u][k] = jobs[u][k]
          BY <2>2, <2>4, <5>1
        <5>2. CASE Joins(x) /\ u = ThreadOf(fd) /\ k = L /\ jobs'[u][k] = x
          <6>1. jobs' # jobs
            <7>1. Len(jobs'[u]) = Len(jobs[u]) + 1
              BY <5>2 DEF Joins
            <7>2. QED
              BY <2>2, <7>1
          <6>2. QED
            BY <3>2, <5>2, <6>1
        <5>3. QED
          BY <2>5, <5>1, <5>2
      <4>4. Closed(g, M, c)'
        BY <2>1, <2>3, <2>4, <4>2, <4>3, ClosedLater
      <4>5. open'[g] = c
        BY <2>4, <3>2
      <4>6. QED
        BY <4>1, <4>4, <4>5 DEF Closed, Ended, LogoutIn
    <3>3. QED
      BY <3>1, <3>2
  <2>9. QED
    BY <2>1, <2>7, <2>8
<1>2. QED
  BY <1>1 DEF Heirs

(* A connection is closed: its session gets a LOGOUT, or it has none and   *)
(* what it has sent before is still to be processed.                       *)
LEMMA FreeHeirs ==
  ASSUME NEW at, NEW from, Core(at, from), Heirs, NEW fd \in Fds, open[fd] # 0, FreeFdState(fd),
         UNCHANGED <<wk, items, fdmap>>
  PROVE  Heirs'
<1>1. /\ open'[fd] = 0 /\ \A g \in Fds \ {fd} : open'[g] = open[g]
      /\ rude' = IF fdmap[fd] = 0 /\ Unprocessed(open[fd]) THEN rude \cup {open[fd]} ELSE rude
      /\ fdmap[fd] # 0 => Joins(LogoutJob(fd))
      /\ fdmap[fd] = 0 => jobs' = jobs
  BY FreeDoes
<1>2. PICK w \in Workers : w = ThreadOf(fd) /\ ThreadOf(fd)' = w
  BY ThreadOfWorker DEF ThreadOf
<1>0. LogoutJob(fd).fd = fd /\ LogoutJob(fd).org = 0
  BY DEF LogoutJob
<1>3. PICK x : x = LogoutJob(fd) /\ x.fd = fd /\ x.org = 0
  BY <1>0
<1>4. TypeOK /\ rude \subseteq rude' /\ Len(jobs[w]) \in Nat
  BY <1>1, LenProperties DEF Core, TypeOK
<1>5. PICK c, L : c = open[fd] /\ L = Len(jobs[w]) + 1 /\ Closed(fd, L, c)
  BY <1>2 DEF Heirs
<1>6. Closed(fd, Len(jobs[w]) + 1, 0)'
  <2>1. CASE fdmap[fd] # 0
    <3>1. /\ Len(jobs'[w]) = L /\ jobs'[w][L] = x /\ L \in Nat /\ L >= 1
      BY <1>1, <1>2, <1>3, <1>4, <1>5, <2>1 DEF Joins
    <3>2. ASSUME NEW k \in Nat, k < L
          PROVE  LogoutIn(fd, k, L + 1)'
      <4>1. L \in 1 .. Len(jobs'[w]) /\ k < L /\ L < L + 1 /\ jobs'[w][L].fd = fd /\ jobs'[w][L].org = 0
        BY <1>3, <3>1, <3>2
      <4>2. QED
        BY <1>2, <4>1 DEF LogoutIn
    <3>3. ASSUME NEW k \in 1 .. Len(jobs'[w]), k < L + 1, jobs'[w][k].org # 0
          PROVE  LogoutIn(fd, k, L + 1)'
      <4>1. k # L /\ k \in Nat
        BY <1>3, <3>1, <3>3
      <4>2. k < L
        BY <3>1, <3>3, <4>1
      <4>3. QED
        BY <3>2, <4>1, <4>2
    <3>4. LogoutIn(fd, 0, L + 1)'
      BY <3>1, <3>2
    <3>5. Closed(fd, L + 1, 0)'
      BY <1>2, <3>3, <3>4 DEF Closed, Ended
    <3>6. QED
      BY <3>1, <3>5 DEF Closed, Ended, LogoutIn
  <2>2. CASE fdmap[fd] = 0
    <3>1. jobs' = jobs /\ fdmap'[fd] = 0
      BY <1>1, <2>2
    <3>2. ASSUME NEW lo, NEW d, Ended(d, fd, lo, L)
          PROVE  d \in rude' \/ LogoutIn(fd, lo, L)'
      <4>1. LogoutIn(fd, lo, L) => LogoutIn(fd, lo, L)'
        BY <1>2, <3>1 DEF LogoutIn
      <4>2. QED
        BY <1>4, <3>2, <4>1 DEF Ended
    <3>3. ASSUME NEW k \in 1 .. Len(jobs[w]), k < L, jobs[w][k].fd = fd, jobs[w][k].org # 0
          PROVE  jobs[w][k].org \in rude' \/ LogoutIn(fd, k, L)'
      <4>1. CASE jobs[w][k].org = c
        BY <1>1, <1>5, <2>2, <4>1 DEF Unprocessed
      <4>2. CASE jobs[w][k].org # c
        BY <1>2, <1>5, <3>2, <3>3, <4>2 DEF Closed
      <4>3. QED
        BY <4>1, <4>2
    <3>4. ASSUME wk[w].pc # "idle", wk[w].fd = fd, wk[w].org # 0
          PROVE  wk[w].org \in rude' \/ LogoutIn(fd, 0, L)'
      <4>1. CASE wk[w].org = c
        BY <1>1, <1>5, <2>2, <3>4, <4>1 DEF Unprocessed
      <4>2. CASE wk[w].org # c
        BY <1>2, <1>5, <3>2, <3>4, <4>2 DEF Closed
      <4>3. QED
        BY <4>1, <4>2
    <3>5. Closed(fd, L, 0)'
      BY <1>2, <3>1, <3>3, <3>4 DEF Closed, Ended
    <3>6. QED
      BY <1>5, <3>1, <3>5 DEF Closed, Ended, LogoutIn
  <2>3. QED
    BY <2>1, <2>2
<1>7. Closed(fd, Len(jobs[ThreadOf(fd)]) + 1, open[fd])'
  BY <1>1, <1>2, <1>6 DEF Closed
<1>8. jobs' = jobs \/ (Joins(x) /\ x.fd = fd /\ x.org \in {0, open[fd]})
  BY <1>1, <1>3
<1>9. QED
  BY <1>1, <1>4, <1>7, <1>8, EventHeirs

(* Data of the connection is queued behind the Logout of its predecessors. *)
LEMMA DoReadHeirs ==
  ASSUME NEW at, NEW from, Core(at, from), Heirs, NEW fd \in Fds, DoRead(fd)
  PROVE  Heirs'
<1>1. PICK c : c = open[fd]
  OBVIOUS
<1>2. PICK x : /\ x = [fd |-> fd, port |-> port[c], msgs |-> inbox[c], org |-> c]
               /\ x.fd = fd /\ x.org = c
  <2> DEFINE r == [fd |-> fd, port |-> port[c], msgs |-> inbox[c], org |-> c]
  <2>1. r.fd = fd /\ r.org = c
    OBVIOUS
  <2> HIDE DEF r
  <2>2. \E x : x = r /\ x.fd = fd /\ x.org = c
    BY <2>1
  <2>3. QED
    BY <2>2 DEF r
<1>3. Joins(x) /\ open' = open /\ UNCHANGED <<wk, items, fdmap, rude>>
  <2>1. Joins(x)
    BY <1>1, <1>2, DoReadDoes
  <2>2. QED
    BY <2>1 DEF DoRead
<1>4. PICK w \in Workers : w = ThreadOf(fd) /\ ThreadOf(fd)' = w
  BY ThreadOfWorker DEF ThreadOf
<1>5. /\ Len(jobs[w]) \in Nat /\ Len(jobs'[w]) = Len(jobs[w]) + 1
      /\ jobs'[w][Len(jobs[w]) + 1] = x /\ \A i \in 1 .. Len(jobs[w]) : jobs'[w][i] = jobs[w][i]
  BY <1>2, <1>3, <1>4 DEF Joins
<1>6. PICK L \in Nat : L = Len(jobs[w]) + 1 /\ Closed(fd, L, c)
  BY <1>1, <1>4, <1>5 DEF Heirs
<1>7. Longer(w) /\ Goes(w) /\ Succeeds(fd)
  <2>1. Longer(w)
    BY <1>3, <1>5 DEF Longer
  <2>2. Goes(w)
    BY <1>3 DEF Goes
  <2>3. Succeeds(fd)
    BY <1>3 DEF Succeeds, Ending, ThreadOf
  <2>4. QED
    BY <2>1, <2>2, <2>3
<1>8. ASSUME NEW k \in 1 .. Len(jobs'[w])
      PROVE  (k < L /\ k \in 1 .. Len(jobs[w])) \/ jobs'[w][k].org = c
  <2>1. k \in 1 .. Len(jobs[w]) \/ k = L
    BY <1>5, <1>6
  <2>2. k \in 1 .. Len(jobs[w]) => k < L
    BY <1>5, <1>6
  <2>3. QED
    BY <1>2, <1>5, <1>6, <2>1, <2>2
<1>9. Closed(fd, L + 1, c)'
  <2>1. L <= L + 1 /\ L + 1 \in Nat
    OBVIOUS
  <2>2. QED
    BY <1>4, <1>6, <1>7, <1>8, <2>1, ClosedLater
<1>10. Closed(fd, Len(jobs[ThreadOf(fd)]) + 1, open[fd])'
  BY <1>1, <1>3, <1>4, <1>5, <1>6, <1>9 DEF Closed, Ended, LogoutIn
<1>11. TypeOK /\ rude \subseteq rude' /\ (\A g \in Fds \ {fd} : open'[g] = open[g])
  BY <1>3 DEF Core
<1>12. Joins(x) /\ x.fd = fd /\ x.org \in {0, open[fd]}
  BY <1>1, <1>2, <1>3
<1>13. QED
  BY <1>3, <1>10, <1>11, <1>12, EventHeirs

(* A new connection on a descriptor finds its predecessors ended, or their *)
(* Logout queued.                                                          *)
LEMMA AcceptHeirs ==
  ASSUME NEW at, NEW from, Core(at, from), Heirs, NEW fd \in Fds, NEW p \in {"client", "shell"},
         Accept(fd, p)
  PROVE  Heirs'
<1>1. /\ open[fd] = 0 /\ \A g \in Fds \ {fd} : open'[g] = open[g]
      /\ UNCHANGED <<jobs, wk, items, fdmap, rude>>
  BY AcceptDoes DEF Core
<1>2. PICK c, L : c = open'[fd] /\ L = Len(jobs[ThreadOf(fd)]) + 1 /\ Closed(fd, L, 0)
  BY <1>1 DEF Heirs
<1>3. Closed(fd, L, c)
  <2>1. fdmap[fd] # 0 => items[fdmap[fd]].org # 0
    BY HeldSession
  <2>2. QED
    BY <1>2, <2>1 DEF Closed
<1>4. Closed(fd, L, c)'
  BY <1>1, <1>3, Zenon DEF Closed, Ended, LogoutIn, Ending, ThreadOf
<1>5. Closed(fd, Len(jobs[ThreadOf(fd)]) + 1, open[fd])'
  BY <1>1, <1>2, <1>4 DEF Closed, Ended, LogoutIn, ThreadOf
<1>6. TypeOK /\ rude \subseteq rude' /\ jobs' = jobs
  BY <1>1 DEF Core
<1>7. QED
  BY <1>1, <1>5, <1>6, EventHeirs

(* Every step.                                                             *)
LEMMA StepHeirs ==
  ASSUME NEW at, NEW from, Core(at, from), Heirs, [Next]_vars
  PROVE  Heirs'
<1>1. ASSUME UNCHANGED <<jobs, open, rude, wk, items, fdmap>>
      PROVE  Heirs'
  <2>1. (\A w \in Workers : Goes(w)) /\ (\A fd \in Fds : Succeeds(fd))
    BY <1>1 DEF Goes, Succeeds, Ending, ThreadOf
  <2>2. QED
    BY <1>1, <2>1, SameQueueHeirs DEF Core
<1>2. CASE UNCHANGED vars
  BY <1>1, <1>2 DEF vars
<1>3. CASE Peers
  BY <1>1, <1>3 DEF Peers, PeerSend, PeerClose
<1>4. CASE \E w \in Workers : Worker(w)
  BY <1>4, WorkerHeirs, TakeJobHeirs
<1>5. CASE EventLoop
  <2>1. ASSUME NEW fd \in Fds, NEW p \in {"client", "shell"}, Accept(fd, p)
        PROVE  Heirs'
    BY <2>1, AcceptHeirs
  <2>2. ASSUME NEW fd \in Fds, DoRead(fd)
        PROVE  Heirs'
    BY <2>2, DoReadHeirs
  <2>3. ASSUME NEW fd \in Fds, PeerGone(fd)
        PROVE  Heirs'
    BY <2>3, FreeHeirs, PeerGoneCore DEF PeerGone
  <2>4. ASSUME NEW fd \in Fds, DoWrite(fd)
        PROVE  Heirs'
    BY <1>1, <2>4 DEF DoWrite
  <2>5. CASE QueueReceive
    <3>1. UNCHANGED <<wk, items, fdmap>>
      BY <2>5 DEF QueueReceive
    <3>2. Head(outq).fd \in Fds
      <4>1. outq # <<>> /\ outq \in Seq(Out)
        BY <2>5 DEF QueueReceive, Core, TypeOK
      <4>2. Head(outq) \in Out
        BY <4>1, TailFacts
      <4>3. QED
        BY <4>2 DEF Out
    <3>3. CASE open[Head(outq).fd] # 0 /\ FreeFdState(Head(outq).fd)
      BY <3>1, <3>2, <3>3, FreeHeirs
    <3>4. CASE UNCHANGED <<open, jobs, rude>>
      BY <1>1, <3>1, <3>4
    <3>5. QED
      BY <2>5, <3>3, <3>4 DEF QueueReceive
  <2>6. QED
    BY <1>5, <2>1, <2>2, <2>3, <2>4, <2>5 DEF EventLoop
<1>6. QED
  BY <1>2, <1>3, <1>4, <1>5 DEF Next

(* A connection is served with a session of its own, or of a connection    *)
(* that was closed before its session existed.                             *)
LEMMA StepInherited ==
  ASSUME NEW at, NEW from, Core(at, from), Heirs, NoInheritedSession, [Next]_vars
  PROVE  NoInheritedSession'
<1> DEFINE P(v) == wk[v].pc # "idle" /\ wk[v].port = "client" /\ wk[v].org # 0 /\ wk[v].item # 0
                     => items[wk[v].item].org \in {wk[v].org} \cup rude
<1>0. \A v \in Workers : P(v)
  BY DEF NoInheritedSession
<1>1. rude \subseteq rude'
  <2>1. CASE Peers \/ UNCHANGED vars
    BY <2>1 DEF Peers, PeerSend, PeerClose, vars
  <2>2. CASE EventLoop
    BY <2>2 DEF EventLoop, Accept, DoRead, PeerGone, DoWrite, QueueReceive, FreeFdState
  <2>3. ASSUME NEW w \in Workers, Worker(w)
        PROVE  rude' = rude
    BY <2>3 DEF Worker, NotLogin, BadFrame, OtherCmd, LoginNew, LoginAccount, LoginCmd, LoginRefused,
         Login1, Logout, ShellExit, LogoutDelUser, LogoutDelFd, OpenUrl, UrlVisible, OpenUrlRoute,
         OpenUrlTell, ShellExec, OpenUrlAnswer, SvrInit, SvrRegister, SvrTell, TakeJob, workerFrame
  <2>4. QED
    BY <2>1, <2>2, <2>3 DEF Next
<1>2. CASE Peers \/ EventLoop \/ UNCHANGED vars
  <2>1. UNCHANGED <<wk, items>>
    BY <1>2, Outside
  <2>2. QED
    BY <1>0, <1>1, <2>1 DEF NoInheritedSession
<1>3. ASSUME NEW w \in Workers, Worker(w)
      PROVE  \A v \in Workers : P(v)'
  <2>0. \A v \in Workers : wk[v].item # 0 => wk[v].item \in Items
    BY HeldSession
  <2>1. ASSUME Others(w), \A v \in Workers : wk[v].item # 0 => items'[wk[v].item].org = items[wk[v].item].org,
               P(w)'
        PROVE  \A v \in Workers : P(v)'
    BY <1>0, <1>1, <2>1 DEF Others
  <2>2. ASSUME wk[w].pc # "idle", \A i \in Items : items'[i].org = items[i].org,
               wk'[w].pc # "idle" => /\ wk'[w].port = wk[w].port /\ wk'[w].org = wk[w].org
                                     /\ wk'[w].port = "client" => wk'[w].item = wk[w].item
        PROVE  P(w)'
    BY <1>0, <1>1, <2>0, <2>2
  <2>3. CASE Aside(w)
    <3>1. Others(w) /\ \A i \in Items : items'[i].org = items[i].org
      BY <2>3 DEF Aside
    <3>2. P(w)'
      BY <2>2, <2>3 DEF Aside
    <3>3. QED
      BY <2>0, <2>1, <3>1, <3>2
  <2>4. CASE ShellExit(w) \/ LogoutDelUser(w) \/ SvrRegister(w)
    <3>1. wk[w].pc # "idle"
      BY <2>4 DEF ShellExit, LogoutDelUser, SvrRegister
    <3>2. \E pc \in {"deluser", "delfd", "svrtell"} : Moves(w, pc, wk[w].item, wk[w].st, wk[w].succ)
      BY <2>4, ShellExitDoes, LogoutDelUserCore, SvrRegisterDoes
    <3>3. \A j \in Items : items'[j].org = items[j].org
      BY <2>4, ShellExitDoes, SvrRegisterDoes DEF Becomes, LogoutDelUser
    <3>4. /\ Others(w) /\ wk'[w].port = wk[w].port /\ wk'[w].org = wk[w].org
          /\ wk'[w].item = wk[w].item
      BY <3>2 DEF Moves, Others
    <3>5. P(w)'
      BY <2>2, <3>1, <3>3, <3>4
    <3>6. QED
      BY <2>0, <2>1, <3>3, <3>4, <3>5
  <2>5. CASE LogoutDelFd(w)
    <3>1. wk[w].pc # "idle" /\ Drops(w)
      <4>1. Forgets(w)
        BY <2>5, LogoutDelFdDoes
      <4>2. QED
        BY <2>5, <4>1 DEF Forgets
    <3>2. \A j \in Items : items'[j].org = items[j].org
      <4>1. Forgets(w)
        BY <2>5, LogoutDelFdDoes
      <4>2. QED
        BY <2>5, <4>1 DEF Becomes, Forgets
    <3>3. /\ Others(w)
          /\ wk'[w].pc # "idle" => /\ wk'[w].port = wk[w].port /\ wk'[w].org = wk[w].org
                                   /\ wk'[w].port = "client" => wk'[w].item = wk[w].item
      BY <3>1 DEF Drops, Idle
    <3>4. P(w)'
      BY <2>2, <3>1, <3>2, <3>3
    <3>5. QED
      BY <2>0, <2>1, <3>2, <3>3, <3>4
  <2>6. CASE LoginNew(w)
    <3> DEFINE n == Cmd(w).n
    <3>1. /\ n \in Items /\ items[n].org = 0 /\ items'[n] = NewItem(wk[w].org)
          /\ \A j \in Items \ {n} : items'[j] = items[j]
      <4>1. Makes(w, Cmd(w).n, wk[w].org, at, from)
        BY <2>6, LoginNewDoes
      <4>2. QED
        BY <2>6, <4>1 DEF Makes
    <3>2. Moves(w, "adduser", n, wk[w].st, wk[w].succ)
      <4>1. Makes(w, Cmd(w).n, wk[w].org, at, from)
        BY <2>6, LoginNewDoes
      <4>2. QED
        BY <2>6, <4>1 DEF Makes
    <3> HIDE DEF n
    <3>3. items'[n].org = wk[w].org
      BY <3>1 DEF NewItem
    <3>4. Others(w) /\ wk'[w].item = n /\ wk'[w].org = wk[w].org
      BY <3>2 DEF Moves, Others
    <3>5. P(w)'
      BY <3>3, <3>4
    <3>6. \A v \in Workers : wk[v].item # 0 => items'[wk[v].item].org = items[wk[v].item].org
      BY <3>1, HeldSession
    <3>7. QED
      BY <2>1, <3>4, <3>5, <3>6
  <2>7. CASE TakeJob(w)
    <3> DEFINE j == jobs[w][1]
    <3>1. /\ wk[w].pc = "idle" /\ Len(jobs[w]) \in Nat /\ Len(jobs[w]) >= 1
          /\ WorkOK(j, w, at, from) /\ Others(w)
          /\ wk'[w].fd = j.fd /\ wk'[w].port = j.port /\ wk'[w].org = j.org
          /\ j.port = "client" => wk'[w].item = fdmap[j.fd]
      <4>1. /\ wk[w].pc = "idle" /\ Len(jobs[w]) \in Nat /\ Len(jobs[w]) >= 1 /\ Others(w)
            /\ WorkOK(j, w, at, from)
        <5>1. Takes(w, jobs[w][1]) /\ Pops(w) /\ jobs[w][1] \in Job /\ WorkOK(jobs[w][1], w, at, from)
          BY <2>7, TakeJobDoes
        <5>2. QED
          BY <2>7, <5>1 DEF Takes, Pops
      <4>2. wk'[w].fd = j.fd /\ wk'[w].port = j.port /\ wk'[w].org = j.org
        <5>1. Takes(w, jobs[w][1]) /\ Pops(w) /\ jobs[w][1] \in Job /\ WorkOK(jobs[w][1], w, at, from)
          BY <2>7, TakeJobDoes
        <5>2. QED
          BY <2>7, <5>1 DEF Takes, Pops
      <4>3. j.port = "client" => wk'[w].item = fdmap[j.fd]
        <5>1. Takes(w, jobs[w][1]) /\ Pops(w) /\ jobs[w][1] \in Job /\ WorkOK(jobs[w][1], w, at, from)
          BY <2>7, TakeJobDoes
        <5>2. QED
          BY <2>7, <5>1 DEF Takes, Pops
      <4>4. QED
        BY <4>1, <4>2, <4>3
    <3>2. UNCHANGED <<items, fdmap, rude>>
      BY <2>7 DEF TakeJob
    <3> HIDE DEF j
    <3>3. j.fd \in Fds /\ ThreadOf(j.fd) = w
      BY <3>1 DEF WorkOK
    <3>4. ASSUME j.org # 0, fdmap[j.fd] # 0
          PROVE  items[fdmap[j.fd]].org \in {j.org} \cup rude
      <4>1. Closed(j.fd, 1, j.org)
        <5>1. 1 \in 1 .. Len(jobs[w])
          BY <3>1
        <5>2. QED
          BY <3>3, <3>4, <5>1 DEF Heirs, j
      <4>2. ~LogoutIn(j.fd, 0, 1)
        BY <3>1, <3>3 DEF LogoutIn
      <4>3. ~Ending(j.fd)
        BY <3>1, <3>3 DEF Ending
      <4>4. QED
        BY <3>4, <4>1, <4>2, <4>3 DEF Closed, Ended
    <3>5. P(w)'
      BY <3>1, <3>2, <3>4
    <3>6. QED
      BY <2>1, <3>1, <3>2, <3>5
  <2>8. QED
    BY <1>3, <2>3, <2>4, <2>5, <2>6, <2>7, WorkerDoes
<1>4. QED
  BY <1>2, <1>3 DEF Next, NoInheritedSession

(* A connection is served with a session of an earlier connection on the   *)
(* same descriptor only if that one was closed after it had sent data and  *)
(* before its session existed: in every other case the LOGOUT simulated by *)
(* fd_close stands in the queue before the first data of its successor.    *)
THEOREM InheritedCorrect == Spec => []NoInheritedSession
<1>1. Init => Heirs /\ NoInheritedSession
  <2> SUFFICES ASSUME Init
               PROVE  Heirs /\ NoInheritedSession
    OBVIOUS
  <2>1. /\ \A w \in Workers : jobs[w] = <<>> /\ wk[w].pc = "idle"
        /\ \A fd \in Fds : fdmap[fd] = 0
    BY DEF Init, Idle
  <2>2. \A i : i \notin 1 .. Len(<<>>)
    OBVIOUS
  <2>3. Heirs
    BY <2>1, <2>2, ThreadOfWorker DEF Heirs, Closed
  <2>4. QED
    BY <2>1, <2>3 DEF NoInheritedSession
<1>2. CoreInv /\ Heirs /\ NoInheritedSession /\ [Next]_vars => Heirs' /\ NoInheritedSession'
  BY StepHeirs, StepInherited DEF CoreInv
<1>3. QED
  BY <1>1, <1>2, CoreCorrect, PTL DEF Spec

-----------------------------------------------------------------------------
(* The answers to a client, from its commands to what it receives.         *)

(* The worker may still answer its command.                                *)
Pre(w) == wk[w].pc \in {"loop", "adduser", "check", "spin"} \cup UrlPc

(* n is the number of a command of connection c, on descriptor fd, that is *)
(* still to be answered, or to be sent.                                    *)
Waits(n, fd, c) ==
  LET w == ThreadOf(fd) IN
  \/ n > nmsg
  \/ \E k \in 1 .. Len(inbox[c]) : n = inbox[c][k].n
  \/ \E i \in 1 .. Len(jobs[w]) :
       jobs[w][i].fd = fd /\ \E k \in 1 .. Len(jobs[w][i].msgs) : n = jobs[w][i].msgs[k].n
  \/ /\ wk[w].pc # "idle" /\ wk[w].fd = fd
     /\ \E k \in 1 .. Len(wk[w].msgs) : n = wk[w].msgs[k].n /\ (k # 1 \/ Pre(w))

(* m is below everything still to be answered.                             *)
Behind(m, fd, c) == \A n \in Nat : Waits(n, fd, c) => m < n

(* What is on its way to fd is of its connection, in order, and older than *)
(* what is still to be answered.                                           *)
Sent(fd, i) == i \in 1 .. Len(outq) /\ outq[i].fd = fd /\ outq[i].kind # "CLOSE"

Line(fd, c) ==
  /\ \A i \in 1 .. Len(outq) : outq[i].fd = fd => outq[i].org = c
  /\ \A i \in 1 .. Len(wbuf[fd]) : wbuf[fd][i].org = c
  /\ \A i \in 1 .. Len(got[c]), j \in 1 .. Len(wbuf[fd]) : got[c][i].n < wbuf[fd][j].n
  /\ \A i \in 1 .. Len(got[c]), j \in 1 .. Len(outq) : Sent(fd, j) => got[c][i].n < outq[j].n
  /\ \A i \in 1 .. Len(wbuf[fd]), j \in 1 .. Len(outq) : Sent(fd, j) => wbuf[fd][i].n < outq[j].n
  /\ \A i, j \in 1 .. Len(wbuf[fd]) : i < j => wbuf[fd][i].n < wbuf[fd][j].n
  /\ \A i, j \in 1 .. Len(outq) : Sent(fd, i) /\ Sent(fd, j) /\ i < j => outq[i].n < outq[j].n
  /\ \A i \in 1 .. Len(got[c]) : Behind(got[c][i].n, fd, c)
  /\ \A i \in 1 .. Len(wbuf[fd]) : Behind(wbuf[fd][i].n, fd, c)
  /\ \A i \in 1 .. Len(outq) : Sent(fd, i) => Behind(outq[i].n, fd, c)

(* What is being processed for fd is of its connection, and fd is no shell *)
(* client's.                                                               *)
Own(fd, c) ==
  LET w == ThreadOf(fd) IN
  /\ \A i \in 1 .. Len(jobs[w]) : jobs[w][i].fd = fd => jobs[w][i].org = c
  /\ wk[w].pc # "idle" /\ wk[w].fd = fd => wk[w].org = c
  /\ \A i \in Items : items[i].shell # fd

(* A client that was accepted when nothing was pending for its descriptor. *)
Tidy(fd, c) == open[fd] = c /\ c # 0 /\ c \in clean /\ port[c] = "client"

(* The invariant of the answers.                                           *)
CleanInv ==
  /\ \A c \in Conns : c > conns => got[c] = <<>> /\ c \notin clean
  /\ \A fd \in Fds : open[fd] = 0 => wbuf[fd] = <<>>
  /\ AnswersInOrder
  /\ \A fd \in Fds, c \in Conns : Tidy(fd, c) => Own(fd, c) /\ Line(fd, c)

-----------------------------------------------------------------------------
(* What a step of a worker says, and to whom.                              *)

(* Worker w has a job and keeps its command, never to answer it again once *)
(* answered, or goes on to the next.                                       *)
Turn(w) ==
  /\ wk[w].pc # "idle" /\ Others(w)
  /\ Drops(w) \/ (Stays(w) /\ (Pre(w)' => Pre(w)))

(* b is the answer to the worker's command, a request to close, or goes to *)
(* a shell client.                                                         *)
Says(w, b) ==
  /\ b \in Out /\ b.org = wk[w].org
  /\ \/ b.kind = "CLOSE" /\ b.fd = wk[w].fd
     \/ /\ b.fd = wk[w].fd /\ b.n = Cmd(w).n /\ Pre(w) /\ (Drops(w) \/ ~Pre(w)')
        /\ wk[w].port = "client"
     \/ b.fd = wk[w].fd /\ wk[w].port = "shell"
     \/ \E i \in Items : b.fd = items[i].shell

(* The step sends at most one buffer.                                      *)
Tells(w) == outq' = outq \/ \E b : outq' = Append(outq, b) /\ Says(w, b)

(* The step registers no descriptor but that of a shell client.            *)
Shells(w) ==
  \A i \in Items : \/ items'[i].shell \in {items[i].shell, 0}
                   \/ items'[i].shell = wk[w].fd /\ wk[w].port = "shell"

(* A sent buffer, by its fields.                                           *)
LEMMA SendSays ==
  ASSUME TypeOK, NEW w \in Workers, NEW fd \in Fds, NEW kind \in OutKinds, NEW n \in 0 .. MaxMsgs,
         Send(w, fd, kind, n)
  PROVE  \E b : /\ outq' = Append(outq, b) /\ b \in Out
                /\ b.org = wk[w].org /\ b.fd = fd /\ b.kind = kind /\ b.n = n
<1> DEFINE b == [fd |-> fd, kind |-> kind, n |-> n, org |-> wk[w].org]
<1>1. wk[w].org \in 0 .. MaxConns
  BY TypeLocal DEF Local
<1>2. b \in Out /\ b.org = wk[w].org /\ b.fd = fd /\ b.kind = kind /\ b.n = n
  BY <1>1 DEF Out
<1>3. outq' = Append(outq, b)
  BY DEF Send
<1> HIDE DEF b
<1>4. QED
  BY <1>2, <1>3

(* An answer to the client the worker serves.                              *)
LEMMA SendAnswer ==
  ASSUME NEW at, NEW from, Core(at, from), NEW w \in Workers, wk[w].pc # "idle",
         NEW kind \in OutKinds, Send(w, wk[w].fd, kind, Cmd(w).n),
         Pre(w), Drops(w) \/ ~Pre(w)', wk[w].port = "client"
  PROVE  Tells(w)
<1>1. TypeOK /\ wk[w].fd \in Fds /\ Cmd(w).n \in 0 .. MaxMsgs
  BY Known
<1>2. PICK b : /\ outq' = Append(outq, b) /\ b \in Out
               /\ b.org = wk[w].org /\ b.fd = wk[w].fd /\ b.kind = kind /\ b.n = Cmd(w).n
  BY <1>1, SendSays
<1>3. QED
  BY <1>2 DEF Tells, Says

(* A request to close the connection.                                      *)
LEMMA SendClose ==
  ASSUME NEW at, NEW from, Core(at, from), NEW w \in Workers, wk[w].pc # "idle",
         Send(w, wk[w].fd, "CLOSE", 0)
  PROVE  Tells(w)
<1>1. TypeOK /\ wk[w].fd \in Fds
  BY Known
<1>0. "CLOSE" \in OutKinds /\ 0 \in 0 .. MaxMsgs
  BY BoundsAssumption DEF OutKinds
<1>2. PICK b : /\ outq' = Append(outq, b) /\ b \in Out
               /\ b.org = wk[w].org /\ b.fd = wk[w].fd /\ b.kind = "CLOSE"
  BY <1>0, <1>1, SendSays
<1>3. QED
  BY <1>2 DEF Tells, Says

(* A message to a shell client.                                            *)
LEMMA SendShell ==
  ASSUME TypeOK, NEW w \in Workers, NEW fd \in Fds, NEW kind \in OutKinds, NEW n \in 0 .. MaxMsgs,
         Send(w, fd, kind, n),
         (fd = wk[w].fd /\ wk[w].port = "shell") \/ \E i \in Items : fd = items[i].shell
  PROVE  Tells(w)
<1>1. PICK b : /\ outq' = Append(outq, b) /\ b \in Out /\ b.org = wk[w].org /\ b.fd = fd
  BY SendSays
<1>2. QED
  BY <1>1 DEF Tells, Says

(* How the worker goes on.                                                 *)
LEMMA MovesTurn ==
  ASSUME NEW w \in Workers, NEW pc, NEW item, NEW st, NEW succ, wk[w].pc # "idle",
         Moves(w, pc, item, st, succ), pc \notin {"idle", "loop"},
         pc \in {"adduser", "check", "spin"} \cup UrlPc => Pre(w)
  PROVE  Turn(w) /\ (pc \notin {"adduser", "check", "spin"} \cup UrlPc => ~Pre(w)')
<1>1. Stays(w) /\ wk'[w].pc = pc /\ Others(w)
  BY MovesStay DEF Moves, Others
<1>2. QED
  BY <1>1 DEF Turn, Pre

(* ... or ends its command.                                                *)
LEMMA DropsTurn ==
  ASSUME NEW w \in Workers, wk[w].pc # "idle", Drops(w)
  PROVE  Turn(w)
  BY DEF Turn, Drops

(* The steps of a worker that has a job.                                   *)
LEMMA PlainTurn ==
  ASSUME NEW at, NEW from, NEW w \in Workers, Core(at, from),
         NotLogin(w) \/ BadFrame(w) \/ OtherCmd(w) \/ LoginRefused(w)
  PROVE  Turn(w) /\ Tells(w) /\ Shells(w)
<1>0. wk[w].pc # "idle"
  BY DEF NotLogin, BadFrame, OtherCmd, LoginRefused, InSession, At
<1>1. wk \in [Workers -> Local] /\ wk[w].msgs # <<>> /\ wk[w].pc \in Pc
  BY <1>0, Known DEF Local
<1>2. items' = items /\ Shells(w)
  BY DEF NotLogin, BadFrame, OtherCmd, LoginRefused, Shells
<1>3. CASE NotLogin(w)
  <2>1. Goto(w, "spin") /\ Pre(w) /\ outq' = outq /\ "spin" \in Pc
    BY <1>3 DEF NotLogin, Pre, Pc
  <2>2. Moves(w, "spin", wk[w].item, wk[w].st, wk[w].succ)
    BY <1>1, <2>1, GotoShape
  <2>3. Turn(w)
    BY <1>0, <2>1, <2>2, MovesTurn
  <2>4. QED
    BY <1>2, <2>1, <2>3 DEF Tells
<1>4. CASE BadFrame(w)
  <2>1. Turn(w)
    BY <1>0, <1>1, <1>4, IdleDrops, DropsTurn DEF BadFrame
  <2>2. Tells(w)
    BY <1>0, <1>4, SendClose DEF BadFrame, Tells
  <2>3. QED
    BY <1>2, <2>1, <2>2
<1>5. CASE OtherCmd(w)
  <2>1. Turn(w) /\ outq' = outq
    BY <1>0, <1>1, <1>5, NextDrops, DropsTurn DEF OtherCmd
  <2>2. QED
    BY <1>2, <2>1 DEF Tells
<1>6. CASE LoginRefused(w)
  <2>1. Turn(w)
    BY <1>0, <1>1, <1>6, NextDrops, DropsTurn DEF LoginRefused
  <2>2. Tells(w)
    BY <1>0, <1>6, SendClose DEF LoginRefused
  <2>3. QED
    BY <1>2, <2>1, <2>2
<1>7. QED
  BY <1>3, <1>4, <1>5, <1>6

(* LOGIN, LOGIN1 and LOGOUT are answered once.                             *)
LEMMA AnswerTurn ==
  ASSUME NEW at, NEW from, NEW w \in Workers, Core(at, from),
         LoginCmd(w) \/ Login1(w) \/ Logout(w)
  PROVE  Turn(w) /\ Tells(w) /\ Shells(w)
<1>0. wk[w].pc # "idle"
  BY DEF LoginCmd, Login1, Logout, InSession, At
<1>1. wk \in [Workers -> Local] /\ wk[w].msgs # <<>> /\ wk[w].pc \in Pc /\ Stage(w)
  BY <1>0, Known DEF Local
<1>2. items' = items /\ Shells(w)
  BY DEF LoginCmd, Login1, Logout, Shells
<1>3. Pre(w) /\ wk[w].port = "client"
  BY <1>1 DEF LoginCmd, Login1, Logout, InSession, At, Pre, Stage, LoginPc
<1>4. CASE NextCmd(w) /\ (outq' = outq \/ \E kind \in OutKinds : Send(w, wk[w].fd, kind, Cmd(w).n))
  <2>1. Drops(w) /\ Turn(w)
    BY <1>0, <1>1, <1>4, NextDrops, DropsTurn
  <2>2. Tells(w)
    BY <1>0, <1>3, <1>4, <2>1, SendAnswer DEF Tells
  <2>3. QED
    BY <1>2, <2>1, <2>2
<1>5. CASE \E pc \in {"refuse", "shellexit"}, kind \in OutKinds :
             Goto(w, pc) /\ Send(w, wk[w].fd, kind, Cmd(w).n)
  <2>1. PICK pc \in {"refuse", "shellexit"}, kind \in OutKinds :
          Goto(w, pc) /\ Send(w, wk[w].fd, kind, Cmd(w).n)
    BY <1>5
  <2>2. pc \in Pc /\ pc \notin {"idle", "loop"} /\ pc \notin {"adduser", "check", "spin"} \cup UrlPc
    BY DEF Pc, LoginPc, LogoutPc, UrlPc
  <2>3. Moves(w, pc, wk[w].item, wk[w].st, wk[w].succ)
    BY <1>1, <2>1, <2>2, GotoShape
  <2>4. Turn(w) /\ ~Pre(w)'
    BY <1>0, <1>3, <2>2, <2>3, MovesTurn
  <2>5. Tells(w)
    BY <1>0, <1>3, <2>1, <2>4, SendAnswer
  <2>6. QED
    BY <1>2, <2>4, <2>5
<1>6. {"LOGIN_OK", "LOGIN_NO", "LOGIN1_RES", "LOGOUT_RES"} \subseteq OutKinds
  BY DEF OutKinds
<1>7. QED
  BY <1>4, <1>5, <1>6 DEF LoginCmd, Login1, Logout

(* A change of fields registers no descriptor but that of a shell client.  *)
LEMMA BecomesShells ==
  ASSUME NEW w \in Workers, NEW i, NEW yyID, NEW shell, NEW url, NEW gone, NEW ok, NEW told, NEW left,
         NEW late, Becomes(i, yyID, shell, url, gone, ok, told, left, late),
         shell = items[i].shell \/ (shell = wk[w].fd /\ wk[w].port = "shell")
  PROVE  Shells(w)
<1> SUFFICES ASSUME NEW j \in Items
             PROVE  \/ items'[j].shell \in {items[j].shell, 0}
                    \/ items'[j].shell = wk[w].fd /\ wk[w].port = "shell"
  BY DEF Shells
<1>1. CASE j = i
  BY <1>1 DEF Becomes
<1>2. CASE j # i
  <2>1. items'[j] = items[j]
    BY <1>2 DEF Becomes
  <2>2. QED
    BY <2>1
<1>3. QED
  BY <1>1, <1>2

(* The steps that make, fill and end a session send nothing.               *)
LEMMA LoginTurn ==
  ASSUME NEW at, NEW from, NEW w \in Workers, Core(at, from),
         LoginNew(w) \/ LoginAccount(w) \/ LogoutDelUser(w) \/ LogoutDelFd(w)
  PROVE  Turn(w) /\ Tells(w) /\ Shells(w)
<1>0. wk[w].pc # "idle" /\ outq' = outq
  BY DEF LoginNew, LoginAccount, LogoutDelUser, LogoutDelFd, InSession, At
<1>1. Tells(w) /\ Stage(w) /\ items \in [Items -> Item] /\ wk[w].item \in Items \cup {0}
  BY <1>0, Known DEF Tells
<1>2. CASE LoginNew(w)
  <2>1. PICK i : i = Cmd(w).n
    OBVIOUS
  <2>2. /\ wk[w].pc = "loop" /\ items'[i] = NewItem(wk[w].org)
        /\ \A j \in Items \ {i} : items'[j] = items[j]
    <3>1. Makes(w, Cmd(w).n, wk[w].org, at, from)
      BY <1>2, <2>1, LoginNewDoes
    <3>2. QED
      BY <1>2, <2>1, <3>1 DEF Makes
  <2>3. Moves(w, "adduser", i, wk[w].st, wk[w].succ)
    <3>1. Makes(w, Cmd(w).n, wk[w].org, at, from)
      BY <1>2, <2>1, LoginNewDoes
    <3>2. QED
      BY <1>2, <2>1, <3>1 DEF Makes
  <2>4. Turn(w)
    BY <1>0, <2>2, <2>3, MovesTurn DEF Pre
  <2>5. items'[i].shell = 0
    BY <2>2 DEF NewItem
  <2>6. Shells(w)
    BY <2>2, <2>5 DEF Shells
  <2>7. QED
    BY <1>1, <2>4, <2>6
<1>3. CASE LoginAccount(w)
  <2>1. PICK i : i = wk[w].item
    OBVIOUS
  <2>2. wk[w].pc \in {"adduser", "loop"} /\ Moves(w, "check", i, wk[w].st, wk[w].succ)
    BY <1>3, <2>1, LoginAccountDoes
  <2>3. \E y, url, gone, ok, told, left, late :
          Becomes(i, y, items[i].shell, url, gone, ok, told, left, late)
    BY <1>3, <2>1, LoginAccountDoes
  <2>4. Turn(w)
    BY <1>0, <2>2, MovesTurn DEF Pre
  <2>5. QED
    BY <1>1, <2>3, <2>4, BecomesShells
<1>4. CASE LogoutDelUser(w)
  <2>1. items' = items /\ Moves(w, "delfd", wk[w].item, wk[w].st, wk[w].succ)
    BY <1>4, LogoutDelUserCore DEF LogoutDelUser
  <2>2. "delfd" \notin {"idle", "loop"} /\ "delfd" \notin {"adduser", "check", "spin"} \cup UrlPc
    BY DEF UrlPc
  <2>3. Turn(w)
    BY <1>0, <2>1, <2>2, MovesTurn
  <2>4. QED
    BY <1>1, <2>1, <2>3 DEF Shells
<1>5. CASE LogoutDelFd(w)
  <2>1. PICK i : i = wk[w].item
    OBVIOUS
  <2>2. Drops(w)
    <3>1. Forgets(w)
      BY <1>5, LogoutDelFdDoes
    <3>2. QED
      BY <1>5, <3>1 DEF Forgets
  <2>3. \E y, url, gone, ok, told, left, late :
          Becomes(i, y, items[i].shell, url, gone, ok, told, left, late)
    <3>1. Forgets(w)
      BY <1>5, <2>1, LogoutDelFdDoes
    <3>2. QED
      BY <1>5, <2>1, <3>1 DEF Forgets
  <2>4. QED
    BY <1>0, <1>1, <2>2, <2>3, BecomesShells, DropsTurn
<1>6. QED
  BY <1>2, <1>3, <1>4, <1>5

(* The steps of OPENURL that send nothing.                                 *)
LEMMA UrlTurn ==
  ASSUME NEW at, NEW from, NEW w \in Workers, Core(at, from),
         OpenUrl(w) \/ UrlVisible(w) \/ OpenUrlRoute(w) \/ ShellExec(w)
  PROVE  Turn(w) /\ Tells(w) /\ Shells(w)
<1>1. Tells(w)
  BY DEF OpenUrl, UrlVisible, OpenUrlRoute, ShellExec, Tells
<1>2. CASE OpenUrl(w) \/ OpenUrlRoute(w) \/ ShellExec(w)
  <2>1. items' = items /\ wk[w].pc # "idle" /\ Pre(w)
    BY <1>2 DEF OpenUrl, OpenUrlRoute, ShellExec, InSession, At, Pre, UrlPc
  <2>2. \E pc, st, succ : Moves(w, pc, wk[w].item, st, succ) /\ pc \in {"route", "openurl", "exec", "answer"}
    BY <1>2, OpenUrlDoes, OpenUrlRouteCore, ShellExecDoes
  <2>3. Turn(w)
    BY <2>1, <2>2, MovesTurn
  <2>4. QED
    BY <1>1, <2>1, <2>3 DEF Shells
<1>3. CASE UrlVisible(w)
  <2>1. PICK i : i = wk[w].item
    OBVIOUS
  <2>2. wk[w].pc \in {"route", "openurl", "exec"} /\ Moves(w, wk[w].pc, i, 0, wk[w].succ)
    BY <1>3, <2>1, UrlVisibleDoes
  <2>3. \E y, url, gone, ok, told, left, late :
          Becomes(i, y, items[i].shell, url, gone, ok, told, left, late)
    BY <1>3, <2>1, UrlVisibleDoes
  <2>4. Turn(w)
    BY <2>2, MovesTurn DEF Pre, UrlPc
  <2>5. QED
    BY <1>1, <2>3, <2>4, BecomesShells
<1>4. QED
  BY <1>2, <1>3

(* OPENURL is answered once; what else is sent goes to the shell client.   *)
LEMMA TellTurn ==
  ASSUME NEW at, NEW from, NEW w \in Workers, Core(at, from),
         OpenUrlTell(w) \/ OpenUrlAnswer(w) \/ ShellExit(w)
  PROVE  Turn(w) /\ Tells(w) /\ Shells(w)
<1>0. wk[w].pc \in {"openurl", "answer", "shellexit"}
  BY DEF OpenUrlTell, OpenUrlAnswer, ShellExit
<1>1. /\ TypeOK /\ Stage(w) /\ items \in [Items -> Item] /\ wk[w].item \in Items \cup {0}
  BY <1>0, Known
<1>2. wk[w].item \in Items /\ wk[w].port = "client"
  BY <1>0, <1>1 DEF Stage, UrlPc, LogoutPc
<1>3. PICK i \in Items : i = wk[w].item
  BY <1>2
<1>4. {"MMS_OPENURL", "OPENURL_RES", "MMS_EXIT"} \subseteq OutKinds /\ 0 \in 0 .. MaxMsgs
  BY BoundsAssumption DEF OutKinds
<1>5. items[i].shell \in Fds \cup {0} /\ items[i].url \in 0 .. MaxMsgs
  BY <1>1 DEF Item
<1>6. CASE OpenUrlTell(w)
  <2>1. Moves(w, "answer", i, 0, TRUE) /\ wk[w].pc = "openurl" /\ items[i].shell \in Fds
    BY <1>3, <1>6, OpenUrlTellDoes
  <2>2. Send(w, items[i].shell, "MMS_OPENURL", items[i].url)
    BY <1>3, <1>6, OpenUrlTellDoes
  <2>3. \E y, url, gone, ok, told, left, late :
          Becomes(i, y, items[i].shell, url, gone, ok, told, left, late)
    BY <1>3, <1>6, OpenUrlTellDoes
  <2>7. Pre(w) /\ wk[w].pc # "idle" /\ "answer" \notin {"idle", "loop"}
    BY <2>1 DEF Pre, UrlPc
  <2>4. Turn(w)
    BY <2>1, <2>7, MovesTurn
  <2>5. Tells(w)
    BY <1>1, <1>4, <1>5, <2>1, <2>2, SendShell
  <2>6. QED
    BY <2>3, <2>4, <2>5, BecomesShells
<1>7. CASE OpenUrlAnswer(w)
  <2>1. Drops(w) /\ wk[w].pc = "answer" /\ Send(w, wk[w].fd, "OPENURL_RES", Cmd(w).n)
    BY <1>7, OpenUrlAnswerDoes DEF OpenUrlAnswer
  <2>2. \E y, url, gone, ok, told, left, late :
          Becomes(i, y, items[i].shell, url, gone, ok, told, left, late)
    BY <1>3, <1>7, OpenUrlAnswerDoes
  <2>3. Pre(w)
    BY <2>1 DEF Pre, UrlPc
  <2>4. Tells(w)
    BY <1>2, <1>4, <2>1, <2>3, SendAnswer
  <2>5. QED
    BY <2>1, <2>2, <2>4, DropsTurn, BecomesShells
<1>8. CASE ShellExit(w)
  <2>1. Moves(w, "deluser", i, wk[w].st, wk[w].succ) /\ wk[w].pc = "shellexit"
    BY <1>3, <1>8, ShellExitDoes DEF ShellExit
  <2>2. IF items[i].shell # 0 THEN Send(w, items[i].shell, "MMS_EXIT", 0) ELSE outq' = outq
    BY <1>3, <1>8 DEF ShellExit
  <2>3. \E y, url, gone, ok, told, left, late :
          Becomes(i, y, items[i].shell, url, gone, ok, told, left, late)
    BY <1>3, <1>8, ShellExitDoes
  <2>4. "deluser" \notin {"idle", "loop"} /\ "deluser" \notin {"adduser", "check", "spin"} \cup UrlPc
    BY DEF UrlPc
  <2>5. Turn(w)
    BY <2>1, <2>4, MovesTurn
  <2>8. Tells(w)
    <3>1. CASE items[i].shell # 0
      BY <1>1, <1>4, <1>5, <2>2, <3>1, SendShell
    <3>2. CASE items[i].shell = 0
      BY <2>2, <3>2 DEF Tells
    <3>3. QED
      BY <3>1, <3>2
  <2>9. QED
    BY <2>3, <2>5, <2>8, BecomesShells
<1>9. QED
  BY <1>6, <1>7, <1>8

(* SVR_INIT: what is sent goes to the shell client.                        *)
LEMMA InitTurn ==
  ASSUME NEW at, NEW from, NEW w \in Workers, Core(at, from),
         SvrInit(w) \/ SvrRegister(w) \/ SvrTell(w)
  PROVE  Turn(w) /\ Tells(w) /\ Shells(w)
<1>0. wk[w].pc \in {"loop", "register", "svrtell"} /\ (SvrInit(w) => Cmd(w).cmd = "SVR_INIT")
  BY DEF SvrInit, SvrRegister, SvrTell, At
<1>1. /\ TypeOK /\ Stage(w) /\ items \in [Items -> Item] /\ wk[w].fd \in Fds
      /\ wk[w].item \in Items \cup {0}
  BY <1>0, Known
<1>2. wk[w].port = "shell"
  BY <1>0, <1>1, InitOnShell DEF Stage, InitPc, SvrRegister, SvrTell
<1>3. PICK i : i = wk[w].item
  OBVIOUS
<1>4. "MMS_OPENURL" \in OutKinds
  BY DEF OutKinds
<1>9. \A pc \in {"register", "svrtell"} : pc \notin {"idle", "loop"} /\ pc \notin {"adduser", "check", "spin"} \cup UrlPc
  BY DEF UrlPc
<1>5. CASE SvrInit(w)
  <2>1. items' = items /\ outq' = outq
    BY <1>5 DEF SvrInit
  <2>2. Drops(w) \/ \E item : Moves(w, "register", item, wk[w].st, wk[w].succ)
    BY <1>5, SvrInitDoes
  <2>3. Turn(w)
    BY <1>0, <1>9, <2>2, DropsTurn, MovesTurn
  <2>4. QED
    BY <2>1, <2>3 DEF Tells, Shells
<1>6. CASE SvrRegister(w)
  <2>1. Moves(w, "svrtell", i, wk[w].st, wk[w].succ) /\ outq' = outq
    BY <1>3, <1>6, SvrRegisterDoes DEF SvrRegister
  <2>2. \E y, url, gone, ok, told, left, late :
          Becomes(i, y, wk[w].fd, url, gone, ok, told, left, late)
    BY <1>3, <1>6, SvrRegisterDoes
  <2>3. Turn(w)
    BY <1>0, <1>9, <2>1, MovesTurn
  <2>4. QED
    BY <1>2, <2>1, <2>2, <2>3, BecomesShells DEF Tells
<1>7. CASE SvrTell(w)
  <2>1. Drops(w) /\ wk[w].pc = "svrtell" /\ TellShell(w, wk[w].fd)
    BY <1>7, SvrTellDoes DEF SvrTell
  <2>2. i \in Items
    BY <1>1, <1>3, <2>1 DEF Stage, InitPc
  <2>3. Send(w, wk[w].fd, "MMS_OPENURL", items[i].url) /\ items[i].url \in 0 .. MaxMsgs
    BY <1>1, <1>3, <2>1, <2>2 DEF TellShell, Item
  <2>4. \E y, url, gone, ok, told, left, late :
          Becomes(i, y, items[i].shell, url, gone, ok, told, left, late)
    BY <1>3, <1>7, SvrTellDoes
  <2>5. Tells(w)
    BY <1>1, <1>2, <1>4, <2>3, SendShell
  <2>6. QED
    BY <1>0, <2>1, <2>4, <2>5, DropsTurn, BecomesShells
<1>8. QED
  BY <1>5, <1>6, <1>7

(* Every step of a worker that has a job.                                  *)
LEMMA WorkerTurn ==
  ASSUME NEW at, NEW from, NEW w \in Workers, Core(at, from), Worker(w), ~TakeJob(w)
  PROVE  Turn(w) /\ Tells(w) /\ Shells(w)
  BY PlainTurn, AnswerTurn, LoginTurn, UrlTurn, TellTurn, InitTurn DEF Worker

(* ... and what such a step leaves alone.                                  *)
LEMMA TurnFrame ==
  ASSUME NEW w \in Workers, Worker(w), ~TakeJob(w)
  PROVE  UNCHANGED workerFrame
<1>1. CASE \/ NotLogin(w) \/ BadFrame(w) \/ OtherCmd(w) \/ LoginNew(w) \/ LoginAccount(w)
           \/ LoginCmd(w) \/ LoginRefused(w) \/ Login1(w) \/ Logout(w) \/ ShellExit(w)
  BY <1>1, Zenon DEF NotLogin, BadFrame, OtherCmd, LoginNew, LoginAccount, LoginCmd, LoginRefused,
     Login1, Logout, ShellExit
<1>2. CASE \/ LogoutDelUser(w) \/ LogoutDelFd(w) \/ OpenUrl(w) \/ UrlVisible(w) \/ OpenUrlRoute(w)
           \/ OpenUrlTell(w) \/ ShellExec(w) \/ OpenUrlAnswer(w) \/ SvrInit(w) \/ SvrRegister(w)
           \/ SvrTell(w)
  BY <1>2, Zenon DEF LogoutDelUser, LogoutDelFd, OpenUrl, UrlVisible, OpenUrlRoute, OpenUrlTell,
     ShellExec, OpenUrlAnswer, SvrInit, SvrRegister, SvrTell
<1>3. QED
  BY <1>1, <1>2 DEF Worker

-----------------------------------------------------------------------------
(* What waits to be answered only becomes less.                            *)

(* No number starts to wait.                                               *)
Settles(fd, c) == \A n \in Nat : Waits(n, fd, c)' => Waits(n, fd, c)

(* A step of a worker that has a job.                                      *)
LEMMA TurnSettles ==
  ASSUME NEW at, NEW from, Core(at, from), NEW w \in Workers, Turn(w),
         UNCHANGED <<nmsg, inbox, jobs>>, NEW fd \in Fds, NEW c
  PROVE  Settles(fd, c)
<1> SUFFICES ASSUME NEW n \in Nat, Waits(n, fd, c)'
             PROVE  Waits(n, fd, c)
  BY DEF Settles
<1>1. ThreadOf(fd) \in Workers /\ ThreadOf(fd)' = ThreadOf(fd)
  BY ThreadOfWorker DEF ThreadOf
<1>2. PICK v \in Workers : v = ThreadOf(fd)
  BY <1>1
<1>3. CASE n > nmsg' \/ (\E k \in 1 .. Len(inbox'[c]) : n = inbox'[c][k].n)
           \/ \E i \in 1 .. Len(jobs'[v]) :
                jobs'[v][i].fd = fd /\ \E k \in 1 .. Len(jobs'[v][i].msgs) : n = jobs'[v][i].msgs[k].n
  BY <1>2, <1>3 DEF Waits
<1>4. CASE /\ wk'[v].pc # "idle" /\ wk'[v].fd = fd
           /\ \E k \in 1 .. Len(wk'[v].msgs) : n = wk'[v].msgs[k].n /\ (k # 1 \/ Pre(v)')
  <2>1. PICK k \in 1 .. Len(wk'[v].msgs) : n = wk'[v].msgs[k].n /\ (k # 1 \/ Pre(v)')
    BY <1>4
  <2>2. CASE v # w
    <3>1. wk'[v] = wk[v]
      BY <2>2 DEF Turn, Others
    <3>2. Pre(v)' => Pre(v)
      BY <3>1 DEF Pre
    <3>3. QED
      BY <1>2, <1>4, <2>1, <3>1, <3>2 DEF Waits
  <2>3. CASE v = w /\ Stays(w) /\ (Pre(w)' => Pre(w))
    <3>1. wk'[v].msgs = wk[v].msgs /\ wk'[v].fd = wk[v].fd /\ wk[v].pc # "idle"
      BY <2>3 DEF Stays, Turn
    <3>2. QED
      BY <1>2, <1>4, <2>1, <2>3, <3>1 DEF Waits
  <2>4. CASE v = w /\ Drops(w)
    <3>1. /\ wk'[v].msgs = Tail(wk[v].msgs) /\ wk'[v].fd = wk[v].fd /\ wk[v].pc # "idle"
      BY <1>4, <2>4 DEF Drops, Turn, Idle
    <3>2. wk[v].msgs \in Seq(Msg) /\ wk[v].msgs # <<>>
      <4>1. wk[w] \in Local /\ wk[w].msgs # <<>>
        BY <2>4, <3>1, Known
      <4>2. QED
        BY <2>4, <4>1 DEF Local
    <3>3. /\ Len(wk[v].msgs) \in Nat /\ Len(Tail(wk[v].msgs)) = Len(wk[v].msgs) - 1
          /\ \A i \in 1 .. Len(wk[v].msgs) - 1 : Tail(wk[v].msgs)[i] = wk[v].msgs[i + 1]
      BY <3>2, TailFacts
    <3>4. k + 1 \in 1 .. Len(wk[v].msgs) /\ n = wk[v].msgs[k + 1].n /\ k + 1 # 1
      BY <2>1, <3>1, <3>3
    <3>5. QED
      BY <1>2, <1>4, <3>1, <3>4 DEF Waits
  <2>5. QED
    BY <2>2, <2>3, <2>4 DEF Turn
<1>5. QED
  BY <1>1, <1>2, <1>3, <1>4 DEF Waits

(* A worker takes a job.                                                   *)
LEMMA TakeJobSettles ==
  ASSUME NEW at, NEW from, Core(at, from), NEW w \in Workers, TakeJob(w), NEW fd \in Fds, NEW c
  PROVE  Settles(fd, c)
<1> SUFFICES ASSUME NEW n \in Nat, Waits(n, fd, c)'
             PROVE  Waits(n, fd, c)
  BY DEF Settles
<1>1. ThreadOf(fd) \in Workers /\ ThreadOf(fd)' = ThreadOf(fd)
  BY ThreadOfWorker DEF ThreadOf
<1>2. PICK v \in Workers : v = ThreadOf(fd)
  BY <1>1
<1>3. nmsg' = nmsg /\ inbox' = inbox
  BY DEF TakeJob, netVars
<1>5. /\ TypeOK /\ Len(jobs[w]) \in Nat /\ Len(jobs[w]) >= 1 /\ Others(w)
      /\ Len(jobs'[w]) = Len(jobs[w]) - 1
      /\ \A i \in 1 .. Len(jobs[w]) - 1 : jobs'[w][i] = jobs[w][i + 1]
      /\ \A u \in Workers \ {w} : jobs'[u] = jobs[u]
  <2>1. Takes(w, jobs[w][1]) /\ Pops(w) /\ jobs[w][1] \in Job /\ WorkOK(jobs[w][1], w, at, from)
    BY TakeJobDoes
  <2>2. QED
    BY <2>1 DEF Core, Takes, Pops
<1>6. wk'[w].fd = jobs[w][1].fd /\ wk'[w].msgs = jobs[w][1].msgs
  <2>1. Takes(w, jobs[w][1]) /\ Pops(w) /\ jobs[w][1] \in Job /\ WorkOK(jobs[w][1], w, at, from)
    BY TakeJobDoes
  <2>2. QED
    BY <2>1 DEF Takes, Pops
<1>7. CASE n > nmsg' \/ \E k \in 1 .. Len(inbox'[c]) : n = inbox'[c][k].n
  BY <1>2, <1>3, <1>7 DEF Waits
<1>8. CASE \E i \in 1 .. Len(jobs'[v]) :
             jobs'[v][i].fd = fd /\ \E k \in 1 .. Len(jobs'[v][i].msgs) : n = jobs'[v][i].msgs[k].n
  <2>1. CASE v # w
    <3>1. jobs'[v] = jobs[v]
      BY <1>5, <2>1
    <3>2. QED
      BY <1>2, <1>8, <3>1 DEF Waits
  <2>2. CASE v = w
    <3>1. PICK i \in 1 .. Len(jobs'[w]) :
             jobs'[w][i].fd = fd /\ \E k \in 1 .. Len(jobs'[w][i].msgs) : n = jobs'[w][i].msgs[k].n
      BY <1>8, <2>2
    <3>2. i + 1 \in 1 .. Len(jobs[w]) /\ jobs'[w][i] = jobs[w][i + 1]
      BY <1>5, <3>1
    <3>3. QED
      BY <1>2, <2>2, <3>1, <3>2 DEF Waits
  <2>3. QED
    BY <2>1, <2>2
<1>9. CASE /\ wk'[v].pc # "idle" /\ wk'[v].fd = fd
           /\ \E k \in 1 .. Len(wk'[v].msgs) : n = wk'[v].msgs[k].n /\ (k # 1 \/ Pre(v)')
  <2>1. CASE v # w
    <3>1. wk'[v] = wk[v]
      BY <1>5, <2>1 DEF Others
    <3>2. Pre(v)' => Pre(v)
      BY <3>1 DEF Pre
    <3>3. QED
      BY <1>2, <1>9, <3>1, <3>2 DEF Waits
  <2>2. CASE v = w
    <3>1. 1 \in 1 .. Len(jobs[w])
      BY <1>5
    <3>2. QED
      BY <1>2, <1>6, <1>9, <2>2, <3>1 DEF Waits
  <2>3. QED
    BY <2>1, <2>2
<1>10. QED
  BY <1>1, <1>2, <1>7, <1>8, <1>9 DEF Waits

(* Once answered, a command's number is below all that wait.               *)
LEMMA AnsweredBehind ==
  ASSUME NEW at, NEW from, Core(at, from), NEW w \in Workers, Turn(w), Pre(w),
         Drops(w) \/ ~Pre(w)', UNCHANGED <<nmsg, inbox, jobs>>,
         NEW fd \in Fds, NEW c \in Conns, wk[w].fd = fd, wk[w].org = c, wk[w].port = "client",
         Own(fd, c), NEW m, m = Cmd(w).n
  PROVE  Waits(m, fd, c) /\ Behind(m, fd, c)'
<1>0. TypeOK /\ Mail(at, from) /\ Order /\ wk[w].pc # "idle" /\ c # 0
  BY DEF Core, Turn, Conns
<1>1. PICK s : s = wk[w].msgs
  OBVIOUS
<1>2. /\ ThreadOf(fd) = w /\ s \in Seq(Msg) /\ s # <<>> /\ Before(s, inbox[c])
      /\ m \in 1 .. nmsg
  <2>1. Cmd(w).cmd # "SVR_INIT"
    BY <1>0, InitOnShell
  <2>2. QED
    BY <1>0, <1>1, <2>1, AtWork
<1>3. /\ Len(s) \in Nat /\ Len(s) >= 1 /\ m = s[1].n /\ Len(Tail(s)) = Len(s) - 1
      /\ \A i \in 1 .. Len(s) - 1 : Tail(s)[i] = s[i + 1]
  BY <1>1, <1>2, TailFacts DEF Cmd
<1>4. \A i \in 1 .. Len(s) : i # 1 => m < s[i].n
  <2>1. \A i, j \in 1 .. Len(s) : i < j => s[i].n < s[j].n
    BY <1>0, <1>1 DEF Mail, WorkOK, MsgsOK
  <2>2. QED
    BY <1>3, <2>1
<1>5. 1 \in 1 .. Len(s)
  BY <1>3
<1>6. Waits(m, fd, c)
  BY <1>0, <1>1, <1>2, <1>3, <1>5 DEF Waits
<1>7. nmsg \in Nat
  BY <1>0, BoundsAssumption DEF TypeOK
<1>8. ASSUME NEW n \in Nat, Waits(n, fd, c)'
      PROVE  m < n
  <2>1. ThreadOf(fd)' = w
    BY <1>2 DEF ThreadOf
  <2>2. CASE n > nmsg'
    BY <1>2, <1>7, <2>2
  <2>3. CASE \E k \in 1 .. Len(inbox'[c]) : n = inbox'[c][k].n
    BY <1>2, <1>3, <1>5, <2>3 DEF Before
  <2>4. CASE \E i \in 1 .. Len(jobs'[w]) :
               jobs'[w][i].fd = fd /\ \E k \in 1 .. Len(jobs'[w][i].msgs) : n = jobs'[w][i].msgs[k].n
    <3>1. PICK i \in 1 .. Len(jobs[w]) :
               jobs[w][i].fd = fd /\ \E k \in 1 .. Len(jobs[w][i].msgs) : n = jobs[w][i].msgs[k].n
      BY <2>4
    <3>2. jobs[w][i].org = c
      BY <1>2, <3>1 DEF Own
    <3>3. Before(s, jobs[w][i].msgs)
      BY <1>0, <1>1, <3>1, <3>2 DEF Order
    <3>4. QED
      BY <1>3, <1>5, <3>1, <3>3 DEF Before
  <2>5. CASE /\ wk'[w].pc # "idle" /\ wk'[w].fd = fd
             /\ \E k \in 1 .. Len(wk'[w].msgs) : n = wk'[w].msgs[k].n /\ (k # 1 \/ Pre(w)')
    <3>1. PICK k \in 1 .. Len(wk'[w].msgs) : n = wk'[w].msgs[k].n /\ (k # 1 \/ Pre(w)')
      BY <2>5
    <3>2. CASE Drops(w)
      <4>1. wk'[w].msgs = Tail(s)
        BY <1>1, <2>5, <3>2 DEF Drops, Idle
      <4>2. k + 1 \in 1 .. Len(s) /\ k + 1 # 1 /\ n = s[k + 1].n
        BY <1>3, <3>1, <4>1
      <4>3. QED
        BY <1>4, <4>2
    <3>3. CASE ~Drops(w)
      <4>1. wk'[w].msgs = s /\ ~Pre(w)'
        BY <1>1, <3>3 DEF Turn, Stays
      <4>2. QED
        BY <1>4, <3>1, <4>1
    <3>4. QED
      BY <3>2, <3>3
  <2>6. QED
    BY <1>8, <2>1, <2>2, <2>3, <2>4, <2>5 DEF Waits
<1>9. QED
  BY <1>6, <1>8 DEF Behind

-----------------------------------------------------------------------------
(* The way of the answers: the outgoing queue, the write buffer, the peer. *)

(* A buffer is sent.                                                       *)
LEMMA SendLine ==
  ASSUME NEW fd \in Fds, NEW c \in Conns, Line(fd, c), TypeOK, wbuf'[fd] = wbuf[fd], got'[c] = got[c],
         Settles(fd, c),
         \/ outq' = outq
         \/ \E b \in Out, m \in Nat :
              /\ outq' = Append(outq, b) /\ m = b.n
              /\ b.fd = fd => b.org = c
              /\ b.fd = fd /\ b.kind # "CLOSE" => Waits(m, fd, c) /\ Behind(m, fd, c)'
  PROVE  Line(fd, c)'
<1>0. outq \in Seq(Out) /\ Len(outq) \in Nat
  BY LenProperties DEF TypeOK
<1>1. CASE outq' = outq
  BY <1>1 DEF Line, Behind, Sent, Settles
<1>2. CASE \E b \in Out, m \in Nat :
              /\ outq' = Append(outq, b) /\ m = b.n
              /\ b.fd = fd => b.org = c
              /\ b.fd = fd /\ b.kind # "CLOSE" => Waits(m, fd, c) /\ Behind(m, fd, c)'
  <2>1. PICK b \in Out, m \in Nat :
              /\ outq' = Append(outq, b) /\ m = b.n
              /\ b.fd = fd => b.org = c
              /\ b.fd = fd /\ b.kind # "CLOSE" => Waits(m, fd, c) /\ Behind(m, fd, c)'
    BY <1>2
  <2>2. m = b.n
    BY <2>1
  <2>3. PICK L \in Nat : L = Len(outq)
    BY <1>0
  <2>4. /\ Len(outq') = L + 1 /\ outq'[L + 1] = b
        /\ \A i \in 1 .. L : outq'[i] = outq[i]
    BY <1>0, <2>1, <2>3, AppendFacts
  <2>5. \A i \in 1 .. Len(outq') : (i \in 1 .. L /\ outq'[i] = outq[i]) \/ (i = L + 1 /\ outq'[i] = b)
    <3> SUFFICES ASSUME NEW i \in 1 .. L + 1
                 PROVE  (i \in 1 .. L /\ outq'[i] = outq[i]) \/ (i = L + 1 /\ outq'[i] = b)
      BY <2>4
    <3>1. CASE i \in 1 .. L
      BY <2>4, <3>1
    <3>2. CASE i = L + 1
      BY <2>4, <3>2
    <3>3. QED
      BY <3>1, <3>2
  <2>6. b.fd = fd /\ b.kind # "CLOSE" => Waits(m, fd, c) /\ Behind(m, fd, c)'
    BY <2>1, <2>2
  <2>7. \A i \in 1 .. Len(outq') : outq'[i].fd = fd => outq'[i].org = c
    BY <2>1, <2>3, <2>5 DEF Line
  <2>8. \A i \in 1 .. Len(outq') : Sent(fd, i)' =>
          \/ Sent(fd, i) /\ outq'[i] = outq[i]
          \/ i = L + 1 /\ outq'[i].n = m /\ Waits(m, fd, c) /\ Behind(m, fd, c)'
    BY <2>2, <2>3, <2>5, <2>6 DEF Sent
  <2>9. \A i \in 1 .. Len(wbuf'[fd]) : wbuf'[fd][i].org = c
    BY DEF Line
  <2>10. \A i \in 1 .. Len(got'[c]), j \in 1 .. Len(wbuf'[fd]) : got'[c][i].n < wbuf'[fd][j].n
    BY DEF Line
  <2>11. \A i \in 1 .. Len(got'[c]), j \in 1 .. Len(outq') : Sent(fd, j)' => got'[c][i].n < outq'[j].n
    BY <2>3, <2>8 DEF Line, Behind, Sent
  <2>12. \A i \in 1 .. Len(wbuf'[fd]), j \in 1 .. Len(outq') : Sent(fd, j)' => wbuf'[fd][i].n < outq'[j].n
    BY <2>3, <2>8 DEF Line, Behind, Sent
  <2>13. \A i, j \in 1 .. Len(wbuf'[fd]) : i < j => wbuf'[fd][i].n < wbuf'[fd][j].n
    BY DEF Line
  <2>14. \A i, j \in 1 .. Len(outq') : Sent(fd, i)' /\ Sent(fd, j)' /\ i < j => outq'[i].n < outq'[j].n
    <3> SUFFICES ASSUME NEW i \in 1 .. Len(outq'), NEW j \in 1 .. Len(outq'), Sent(fd, i)', Sent(fd, j)', i < j
                 PROVE  outq'[i].n < outq'[j].n
      OBVIOUS
    <3>1. Sent(fd, i) /\ outq'[i] = outq[i] /\ i \in 1 .. Len(outq)
      BY <2>3, <2>4, <2>8 DEF Sent
    <3>2. CASE Sent(fd, j) /\ outq'[j] = outq[j]
      BY <3>1, <3>2 DEF Line, Sent
    <3>3. CASE outq'[j].n = m /\ Waits(m, fd, c)
      BY <3>1, <3>3 DEF Line, Behind
    <3>4. QED
      BY <2>8, <3>2, <3>3
  <2>15. \A i \in 1 .. Len(got'[c]) : Behind(got[c][i].n, fd, c)'
    BY DEF Line, Behind, Settles
  <2>16. \A i \in 1 .. Len(wbuf'[fd]) : Behind(wbuf[fd][i].n, fd, c)'
    BY DEF Line, Behind, Settles
  <2>17. \A i \in 1 .. Len(outq') : Sent(fd, i)' => Behind(outq[i].n, fd, c)'
    <3> SUFFICES ASSUME NEW i \in 1 .. Len(outq'), Sent(fd, i)', NEW n \in Nat, Waits(n, fd, c)'
                 PROVE  outq'[i].n < n
      BY DEF Behind
    <3>1. CASE Sent(fd, i) /\ outq'[i] = outq[i]
      <4>1. Waits(n, fd, c) /\ i \in 1 .. Len(outq)
        BY <3>1 DEF Settles, Sent
      <4>2. QED
        BY <3>1, <4>1 DEF Line, Behind
    <3>2. CASE outq'[i].n = m /\ Behind(m, fd, c)'
      BY <3>2 DEF Behind
    <3>3. QED
      BY <2>8, <3>1, <3>2
  <2>18. QED
    BY <2>7, <2>9, <2>10, <2>11, <2>12, <2>13, <2>14, <2>15, <2>16, <2>17 DEF Line
<1>3. QED
  BY <1>1, <1>2

(* The first buffer of the queue goes to the write buffer, or is not for   *)
(* the connection.                                                         *)
LEMMA PopLine ==
  ASSUME NEW fd \in Fds, NEW c \in Conns, Line(fd, c), TypeOK, got'[c] = got[c], Settles(fd, c),
         outq # <<>>, outq' = Tail(outq),
         \/ wbuf'[fd] = wbuf[fd] /\ ~Sent(fd, 1)
         \/ wbuf'[fd] = Append(wbuf[fd], outq[1]) /\ Sent(fd, 1)
  PROVE  Line(fd, c)'
<1>0. outq \in Seq(Out) /\ wbuf[fd] \in Seq(Out) /\ Len(outq) \in Nat /\ Len(wbuf[fd]) \in Nat
  BY LenProperties DEF TypeOK
<1>1. PICK L \in Nat : L = Len(outq)
  BY <1>0
<1>2. PICK M \in Nat : M = Len(wbuf[fd])
  BY <1>0
<1>3. /\ L >= 1 /\ Len(outq') = L - 1 /\ \A i \in 1 .. L - 1 : outq'[i] = outq[i + 1]
      /\ outq[1] \in Out
  BY <1>0, <1>1, TailFacts
<1>4. \A i \in 1 .. Len(outq') : i + 1 \in 1 .. Len(outq) /\ outq'[i] = outq[i + 1] /\ 1 < i + 1
  BY <1>1, <1>3
<1>5. \A i \in 1 .. Len(outq') : Sent(fd, i)' => Sent(fd, i + 1)
  BY <1>4 DEF Sent
<1>6. \A i \in 1 .. Len(wbuf'[fd]) :
        \/ i \in 1 .. Len(wbuf[fd]) /\ wbuf'[fd][i] = wbuf[fd][i]
        \/ i = Len(wbuf[fd]) + 1 /\ wbuf'[fd][i] = outq[1] /\ Sent(fd, 1)
  <2>1. CASE wbuf'[fd] = wbuf[fd]
    BY <2>1
  <2>2. CASE wbuf'[fd] = Append(wbuf[fd], outq[1]) /\ Sent(fd, 1)
    <3>1. /\ Len(wbuf'[fd]) = M + 1 /\ wbuf'[fd][M + 1] = outq[1]
          /\ \A i \in 1 .. M : wbuf'[fd][i] = wbuf[fd][i]
      BY <1>0, <1>2, <1>3, <2>2, AppendFacts
    <3> SUFFICES ASSUME NEW i \in 1 .. M + 1
                 PROVE  \/ i \in 1 .. M /\ wbuf'[fd][i] = wbuf[fd][i]
                        \/ i = M + 1 /\ wbuf'[fd][i] = outq[1]
      BY <1>2, <2>2, <3>1
    <3>2. CASE i \in 1 .. M
      BY <3>1, <3>2
    <3>3. CASE i = M + 1
      BY <3>1, <3>3
    <3>4. QED
      BY <3>2, <3>3
  <2>3. QED
    BY <2>1, <2>2
<1>7. 1 \in 1 .. Len(outq) /\ (Sent(fd, 1) => outq[1].org = c)
  BY <1>1, <1>3 DEF Line, Sent
<1>8. \A i \in 1 .. Len(outq') : outq'[i].fd = fd => outq'[i].org = c
  BY <1>4 DEF Line
<1>9. \A i \in 1 .. Len(wbuf'[fd]) : wbuf'[fd][i].org = c
  BY <1>6, <1>7 DEF Line
<1>10. \A i \in 1 .. Len(got'[c]), j \in 1 .. Len(wbuf'[fd]) : got'[c][i].n < wbuf'[fd][j].n
  BY <1>6, <1>7 DEF Line
<1>11. \A i \in 1 .. Len(got'[c]), j \in 1 .. Len(outq') : Sent(fd, j)' => got'[c][i].n < outq'[j].n
  BY <1>4, <1>5 DEF Line
<1>12. \A i \in 1 .. Len(wbuf'[fd]), j \in 1 .. Len(outq') : Sent(fd, j)' => wbuf'[fd][i].n < outq'[j].n
  <2> SUFFICES ASSUME NEW i \in 1 .. Len(wbuf'[fd]), NEW j \in 1 .. Len(outq'), Sent(fd, j)'
               PROVE  wbuf'[fd][i].n < outq'[j].n
    OBVIOUS
  <2>1. Sent(fd, j + 1) /\ j + 1 \in 1 .. Len(outq) /\ outq'[j] = outq[j + 1] /\ 1 < j + 1
    BY <1>4, <1>5
  <2>2. CASE i \in 1 .. Len(wbuf[fd]) /\ wbuf'[fd][i] = wbuf[fd][i]
    BY <2>1, <2>2 DEF Line
  <2>3. CASE wbuf'[fd][i] = outq[1] /\ Sent(fd, 1)
    BY <1>7, <2>1, <2>3 DEF Line
  <2>4. QED
    BY <1>6, <2>2, <2>3
<1>13. \A i, j \in 1 .. Len(wbuf'[fd]) : i < j => wbuf'[fd][i].n < wbuf'[fd][j].n
  <2> SUFFICES ASSUME NEW i \in 1 .. Len(wbuf'[fd]), NEW j \in 1 .. Len(wbuf'[fd]), i < j
               PROVE  wbuf'[fd][i].n < wbuf'[fd][j].n
    OBVIOUS
  <2>1. i \in 1 .. Len(wbuf[fd]) /\ wbuf'[fd][i] = wbuf[fd][i]
    <3>1. Len(wbuf'[fd]) \in {M, M + 1}
      <4>1. Len(Append(wbuf[fd], outq[1])) = M + 1
        BY <1>0, <1>2, <1>3, AppendFacts
      <4>2. QED
        BY <1>2, <4>1
    <3>2. i # M + 1
      BY <3>1
    <3>3. QED
      BY <1>2, <1>6, <3>2
  <2>2. CASE j \in 1 .. Len(wbuf[fd]) /\ wbuf'[fd][j] = wbuf[fd][j]
    BY <2>1, <2>2 DEF Line
  <2>3. CASE wbuf'[fd][j] = outq[1] /\ Sent(fd, 1)
    BY <1>7, <2>1, <2>3 DEF Line
  <2>4. QED
    BY <1>6, <2>2, <2>3
<1>14. \A i, j \in 1 .. Len(outq') : Sent(fd, i)' /\ Sent(fd, j)' /\ i < j => outq'[i].n < outq'[j].n
  <2> SUFFICES ASSUME NEW i \in 1 .. Len(outq'), NEW j \in 1 .. Len(outq'), Sent(fd, i)', Sent(fd, j)', i < j
               PROVE  outq'[i].n < outq'[j].n
    OBVIOUS
  <2>1. /\ Sent(fd, i + 1) /\ i + 1 \in 1 .. Len(outq) /\ outq'[i] = outq[i + 1]
        /\ Sent(fd, j + 1) /\ j + 1 \in 1 .. Len(outq) /\ outq'[j] = outq[j + 1]
    BY <1>4, <1>5
  <2>2. i + 1 < j + 1
    OBVIOUS
  <2>3. QED
    BY <2>1, <2>2 DEF Line
<1>15. \A i \in 1 .. Len(got'[c]) : Behind(got[c][i].n, fd, c)'
  BY DEF Line, Behind, Settles
<1>16. \A i \in 1 .. Len(wbuf'[fd]) : Behind(wbuf[fd][i].n, fd, c)'
  <2> SUFFICES ASSUME NEW i \in 1 .. Len(wbuf'[fd]), NEW n \in Nat, Waits(n, fd, c)'
               PROVE  wbuf'[fd][i].n < n
    BY DEF Behind
  <2>1. Waits(n, fd, c)
    BY DEF Settles
  <2>2. CASE i \in 1 .. Len(wbuf[fd]) /\ wbuf'[fd][i] = wbuf[fd][i]
    BY <2>1, <2>2 DEF Line, Behind
  <2>3. CASE wbuf'[fd][i] = outq[1] /\ Sent(fd, 1)
    BY <1>7, <2>1, <2>3 DEF Line, Behind
  <2>4. QED
    BY <1>6, <2>2, <2>3
<1>17. \A i \in 1 .. Len(outq') : Sent(fd, i)' => Behind(outq[i].n, fd, c)'
  <2> SUFFICES ASSUME NEW i \in 1 .. Len(outq'), Sent(fd, i)', NEW n \in Nat, Waits(n, fd, c)'
               PROVE  outq'[i].n < n
    BY DEF Behind
  <2>1. Waits(n, fd, c) /\ Sent(fd, i + 1) /\ i + 1 \in 1 .. Len(outq) /\ outq'[i] = outq[i + 1]
    BY <1>4, <1>5 DEF Settles
  <2>2. QED
    BY <2>1 DEF Line, Behind
<1>18. QED
  BY <1>8, <1>9, <1>10, <1>11, <1>12, <1>13, <1>14, <1>15, <1>16, <1>17 DEF Line

(* What has been received on connection c is its own, in order.            *)
InOrder(c) ==
  /\ \A i \in 1 .. Len(got[c]) : got[c][i].org = c
  /\ \A i, j \in 1 .. Len(got[c]) : i < j => got[c][i].n < got[c][j].n

(* The first k buffers are written, the others dropped.                    *)
LEMMA WriteLine ==
  ASSUME NEW fd \in Fds, NEW c \in Conns, Line(fd, c), TypeOK, Settles(fd, c), outq' = outq,
         NEW k \in 0 .. Len(wbuf[fd]), wbuf'[fd] = <<>>,
         got'[c] = got[c] \o SubSeq(wbuf[fd], 1, k),
         InOrder(c)
  PROVE  Line(fd, c)' /\ InOrder(c)'
<1>0. outq \in Seq(Out) /\ wbuf[fd] \in Seq(Out) /\ got[c] \in Seq(Out)
  BY DEF TypeOK
<1>1. PICK G \in Nat : G = Len(got[c])
  BY <1>0, LenProperties
<1>2. PICK M \in Nat : M = Len(wbuf[fd])
  BY <1>0, LenProperties
<1>3. PICK s : s = SubSeq(wbuf[fd], 1, k)
  OBVIOUS
<1>4. s \in Seq(Out) /\ Len(s) = k /\ \A i \in 1 .. k : s[i] = wbuf[fd][i]
  BY <1>0, <1>2, <1>3
<1>5. /\ Len(got'[c]) = G + k
      /\ \A i \in 1 .. G : got'[c][i] = got[c][i]
      /\ \A i \in 1 .. k : got'[c][G + i] = s[i]
  <2>1. PICK g : g = got[c]
    OBVIOUS
  <2>2. g \in Seq(Out) /\ G = Len(g) /\ got'[c] = g \o s /\ k \in Nat
    BY <1>0, <1>1, <1>2, <1>3, <2>1
  <2>3. /\ Len(g \o s) = G + k
        /\ \A i \in 1 .. G : (g \o s)[i] = g[i]
        /\ \A i \in 1 .. k : (g \o s)[G + i] = s[i]
    BY <1>4, <2>2
  <2>4. QED
    BY <2>1, <2>2, <2>3
<1>6. \A i \in 1 .. Len(got'[c]) :
        \/ i \in 1 .. Len(got[c]) /\ got'[c][i] = got[c][i]
        \/ i > G /\ i - G \in 1 .. Len(wbuf[fd]) /\ got'[c][i] = wbuf[fd][i - G]
  <2> SUFFICES ASSUME NEW i \in 1 .. G + k
               PROVE  \/ i \in 1 .. G /\ got'[c][i] = got[c][i]
                      \/ i > G /\ i - G \in 1 .. M /\ got'[c][i] = wbuf[fd][i - G]
    BY <1>1, <1>2, <1>5
  <2>1. CASE i \in 1 .. G
    BY <1>5, <2>1
  <2>2. CASE i > G
    <3>1. i - G \in 1 .. k /\ G + (i - G) = i /\ i - G \in 1 .. M
      BY <1>2, <2>2
    <3>2. got'[c][G + (i - G)] = s[i - G] /\ s[i - G] = wbuf[fd][i - G]
      BY <1>4, <1>5, <3>1
    <3>3. QED
      BY <2>2, <3>1, <3>2
  <2>3. i \in 1 .. G \/ i > G
    BY <1>2
  <2>4. QED
    BY <2>1, <2>2, <2>3
<1>7. Len(wbuf'[fd]) = 0
  OBVIOUS
<1>8. \A i \in 1 .. Len(got'[c]) : got'[c][i].org = c
  BY <1>6 DEF Line, InOrder
<1>9. \A i, j \in 1 .. Len(got'[c]) : i < j => got'[c][i].n < got'[c][j].n
  <2> SUFFICES ASSUME NEW i \in 1 .. Len(got'[c]), NEW j \in 1 .. Len(got'[c]), i < j
               PROVE  got'[c][i].n < got'[c][j].n
    OBVIOUS
  <2>1. CASE j \in 1 .. Len(got[c]) /\ got'[c][j] = got[c][j]
    <3>1. i \in 1 .. Len(got[c]) /\ got'[c][i] = got[c][i]
      BY <1>1, <1>6, <2>1
    <3>2. QED
      BY <2>1, <3>1 DEF InOrder
  <2>2. CASE j > G /\ j - G \in 1 .. Len(wbuf[fd]) /\ got'[c][j] = wbuf[fd][j - G]
    <3>1. CASE i \in 1 .. Len(got[c]) /\ got'[c][i] = got[c][i]
      BY <2>2, <3>1 DEF Line
    <3>2. CASE i > G /\ i - G \in 1 .. Len(wbuf[fd]) /\ got'[c][i] = wbuf[fd][i - G]
      <4>1. i - G < j - G
        BY <1>5
      <4>2. QED
        BY <2>2, <3>2, <4>1 DEF Line
    <3>3. QED
      BY <1>6, <3>1, <3>2
  <2>3. QED
    BY <1>6, <2>1, <2>2
<1>10. \A i \in 1 .. Len(got'[c]), j \in 1 .. Len(outq') : Sent(fd, j)' => got'[c][i].n < outq'[j].n
  BY <1>6 DEF Line, Sent
<1>11. \A i \in 1 .. Len(got'[c]) : Behind(got[c][i].n, fd, c)'
  <2> SUFFICES ASSUME NEW i \in 1 .. Len(got'[c]), NEW n \in Nat, Waits(n, fd, c)'
               PROVE  got'[c][i].n < n
    BY DEF Behind
  <2>1. Waits(n, fd, c)
    BY DEF Settles
  <2>2. QED
    BY <1>6, <2>1 DEF Line, Behind
<1>12. \A i \in 1 .. Len(outq') : Sent(fd, i)' => Behind(outq[i].n, fd, c)'
  BY DEF Line, Behind, Settles, Sent
<1>13. /\ \A i \in 1 .. Len(outq') : outq'[i].fd = fd => outq'[i].org = c
       /\ \A i, j \in 1 .. Len(outq') : Sent(fd, i)' /\ Sent(fd, j)' /\ i < j => outq'[i].n < outq'[j].n
  BY DEF Line, Sent
<1>14. Line(fd, c)'
  <2>1. 1 .. Len(wbuf'[fd]) = {}
    BY <1>7
  <2>2. QED
    BY <1>10, <1>11, <1>12, <1>13, <2>1 DEF Line
<1>15. QED
  BY <1>8, <1>9, <1>14 DEF InOrder

-----------------------------------------------------------------------------
(* The event thread and the lines of the other descriptors.                *)

(* A job is queued, what was not read may be lost.                         *)
LEMMA EventSettles ==
  ASSUME NEW fd \in Fds, NEW c, UNCHANGED <<nmsg, wk>>, inbox'[c] \in {inbox[c], <<>>}, NEW x,
         jobs' = jobs \/ (Joins(x) /\ (x.fd = fd => x.msgs = inbox[c]))
  PROVE  Settles(fd, c)
<1> SUFFICES ASSUME NEW n \in Nat, Waits(n, fd, c)'
             PROVE  Waits(n, fd, c)
  BY DEF Settles
<1>1. PICK v \in Workers : v = ThreadOf(fd)
  BY ThreadOfWorker
<1>2. ThreadOf(fd)' = v
  BY <1>1 DEF ThreadOf
<1>3. CASE n > nmsg'
  BY <1>3 DEF Waits
<1>4. CASE \E k \in 1 .. Len(inbox'[c]) : n = inbox'[c][k].n
  BY <1>4 DEF Waits
<1>5. CASE \E i \in 1 .. Len(jobs'[v]) :
             jobs'[v][i].fd = fd /\ \E k \in 1 .. Len(jobs'[v][i].msgs) : n = jobs'[v][i].msgs[k].n
  <2>1. PICK i \in 1 .. Len(jobs'[v]) :
             jobs'[v][i].fd = fd /\ \E k \in 1 .. Len(jobs'[v][i].msgs) : n = jobs'[v][i].msgs[k].n
    BY <1>5
  <2>2. CASE i \in 1 .. Len(jobs[v]) /\ jobs'[v][i] = jobs[v][i]
    BY <1>1, <2>1, <2>2 DEF Waits
  <2>3. CASE jobs'[v][i] = x /\ Joins(x) /\ (x.fd = fd => x.msgs = inbox[c])
    BY <2>1, <2>3 DEF Waits
  <2>4. QED
    BY <2>1, <2>2, <2>3, JoinedJobs
<1>6. CASE /\ wk'[v].pc # "idle" /\ wk'[v].fd = fd
           /\ \E k \in 1 .. Len(wk'[v].msgs) : n = wk'[v].msgs[k].n /\ (k # 1 \/ Pre(v)')
  <2>1. Pre(v)' => Pre(v)
    BY DEF Pre
  <2>2. QED
    BY <1>1, <1>6, <2>1 DEF Waits
<1>7. QED
  BY <1>2, <1>3, <1>4, <1>5, <1>6 DEF Waits

(* A job of another descriptor, or of the same connection, is queued.      *)
LEMMA EventOwn ==
  ASSUME NEW fd \in Fds, NEW c, Own(fd, c), UNCHANGED <<wk, items>>, NEW x,
         jobs' = jobs \/ (Joins(x) /\ (x.fd = fd => x.org = c))
  PROVE  Own(fd, c)'
<1>1. PICK v \in Workers : v = ThreadOf(fd)
  BY ThreadOfWorker
<1>2. ThreadOf(fd)' = v
  BY <1>1 DEF ThreadOf
<1>3. ASSUME NEW i \in 1 .. Len(jobs'[v]), jobs'[v][i].fd = fd
      PROVE  jobs'[v][i].org = c
  <2>1. CASE i \in 1 .. Len(jobs[v]) /\ jobs'[v][i] = jobs[v][i]
    BY <1>1, <1>3, <2>1 DEF Own
  <2>2. CASE jobs'[v][i] = x /\ (x.fd = fd => x.org = c)
    BY <1>3, <2>2
  <2>3. QED
    BY <2>1, <2>2, JoinedJobs
<1>4. wk'[v].pc # "idle" /\ wk'[v].fd = fd => wk'[v].org = c
  BY <1>1 DEF Own
<1>5. \A i \in Items : items'[i].shell # fd
  BY DEF Own
<1>6. QED
  BY <1>2, <1>3, <1>4, <1>5 DEF Own

(* A line is left alone.                                                   *)
LEMMA SameLine ==
  ASSUME NEW fd \in Fds, NEW c \in Conns, Line(fd, c), TypeOK, wbuf'[fd] = wbuf[fd], got'[c] = got[c],
         Settles(fd, c), outq' = outq
  PROVE  Line(fd, c)'
  BY SendLine

(* What a tidy connection's worker does is for it.                         *)
LEMMA OwnWork ==
  ASSUME NEW at, NEW from, Core(at, from), NEW fd \in Fds, NEW c \in Conns, Tidy(fd, c), Own(fd, c),
         NEW w \in Workers, wk[w].pc # "idle", wk[w].fd = fd
  PROVE  wk[w].org = c /\ wk[w].port = "client" /\ ThreadOf(fd) = w
<1>1. TypeOK /\ Mail(at, from) /\ c # 0
  BY DEF Core, Conns
<1>2. ThreadOf(fd) = w
  BY <1>1, AtWork
<1>3. wk[w].org = c
  BY <1>2 DEF Own
<1>4. wk[w].port = port[c]
  BY <1>1, <1>3, AtWork
<1>5. QED
  BY <1>2, <1>3, <1>4 DEF Tidy

(* A worker with a job: what it sends to the connection is the answer to   *)
(* its next command, or a request to close.                                *)
LEMMA TurnClean ==
  ASSUME NEW at, NEW from, Core(at, from), NEW fd \in Fds, NEW c \in Conns, Tidy(fd, c),
         Own(fd, c), Line(fd, c), NEW w \in Workers, Worker(w), ~TakeJob(w)
  PROVE  Own(fd, c)' /\ Line(fd, c)'
<1>0. /\ Turn(w) /\ Tells(w) /\ Shells(w) /\ TypeOK /\ wk[w].pc # "idle"
      /\ UNCHANGED <<nmsg, inbox, jobs, wbuf, got>>
  BY WorkerTurn, TurnFrame DEF Core, workerFrame, netVars, Turn
<1>1. wk[w].fd = fd => wk[w].org = c /\ wk[w].port = "client" /\ ThreadOf(fd) = w
  BY <1>0, OwnWork
<1>2. Own(fd, c)'
  <2>1. PICK v \in Workers : v = ThreadOf(fd)
    BY ThreadOfWorker
  <2>2. ThreadOf(fd)' = v
    BY <2>1 DEF ThreadOf
  <2>3. \A i \in 1 .. Len(jobs'[v]) : jobs'[v][i].fd = fd => jobs'[v][i].org = c
    BY <1>0, <2>1 DEF Own
  <2>4. wk'[v].pc # "idle" /\ wk'[v].fd = fd => wk'[v].org = c
    <3>1. CASE v # w
      BY <1>0, <2>1, <3>1 DEF Own, Turn, Others
    <3>2. CASE v = w
      <4>1. wk'[w].pc # "idle" => wk'[w].fd = wk[w].fd /\ wk'[w].org = wk[w].org
        BY <1>0 DEF Turn, Stays, Drops, Idle
      <4>2. QED
        BY <1>1, <3>2, <4>1
    <3>3. QED
      BY <3>1, <3>2
  <2>5. ASSUME NEW i \in Items
        PROVE  items'[i].shell # fd
    <3>1. fd # 0
      BY FdsAssumption
    <3>2. items[i].shell # fd
      BY DEF Own
    <3>3. CASE items'[i].shell \in {items[i].shell, 0}
      BY <3>1, <3>2, <3>3
    <3>4. CASE items'[i].shell = wk[w].fd /\ wk[w].port = "shell"
      BY <1>1, <3>4
    <3>5. QED
      BY <1>0, <3>3, <3>4 DEF Shells
  <2>6. QED
    BY <2>2, <2>3, <2>4, <2>5 DEF Own
<1>3. Settles(fd, c)
  BY <1>0, TurnSettles
<1>4. CASE outq' = outq
  BY <1>0, <1>2, <1>3, <1>4, SameLine
<1>5. CASE \E b : outq' = Append(outq, b) /\ Says(w, b)
  <2>1. PICK b : outq' = Append(outq, b) /\ Says(w, b)
    BY <1>5
  <2>2. PICK m \in Nat : m = b.n
    BY <2>1, BoundsAssumption DEF Says, Out
  <2>3. b \in Out /\ b.org = wk[w].org
    BY <2>1 DEF Says
  <2>4. \A i \in Items : items[i].shell # fd
    BY DEF Own
  <2>5. b.fd = fd => wk[w].fd = fd
    BY <2>1, <2>4 DEF Says
  <2>6. b.fd = fd => b.org = c
    BY <1>1, <2>3, <2>5
  <2>7. b.fd = fd /\ b.kind # "CLOSE" => Waits(m, fd, c) /\ Behind(m, fd, c)'
    <3> SUFFICES ASSUME b.fd = fd, b.kind # "CLOSE"
                 PROVE  Waits(m, fd, c) /\ Behind(m, fd, c)'
      OBVIOUS
    <3>1. wk[w].fd = fd /\ wk[w].org = c /\ wk[w].port = "client"
      BY <1>1, <2>5
    <3>2. m = Cmd(w).n /\ Pre(w) /\ (Drops(w) \/ ~Pre(w)')
      BY <2>1, <2>2, <2>4, <3>1 DEF Says
    <3>3. QED
      BY <1>0, <3>1, <3>2, AnsweredBehind
  <2>8. \E b2 \in Out, m2 \in Nat :
          /\ outq' = Append(outq, b2) /\ m2 = b2.n
          /\ b2.fd = fd => b2.org = c
          /\ b2.fd = fd /\ b2.kind # "CLOSE" => Waits(m2, fd, c) /\ Behind(m2, fd, c)'
    BY <2>1, <2>2, <2>3, <2>6, <2>7
  <2>9. QED
    BY <1>0, <1>2, <1>3, <2>8, SendLine
<1>6. QED
  BY <1>0, <1>4, <1>5 DEF Tells

(* A worker takes a job.                                                   *)
LEMMA TakeJobClean ==
  ASSUME NEW at, NEW from, Core(at, from), NEW fd \in Fds, NEW c \in Conns,
         Own(fd, c), Line(fd, c), NEW w \in Workers, TakeJob(w)
  PROVE  Own(fd, c)' /\ Line(fd, c)'
<1>0. TypeOK /\ UNCHANGED <<items, wbuf, got, outq>>
  BY DEF TakeJob, netVars, Core
<1>1. Line(fd, c)'
  BY <1>0, TakeJobSettles, SameLine
<1>2. PICK v \in Workers : v = ThreadOf(fd)
  BY ThreadOfWorker
<1>3. ThreadOf(fd)' = v
  BY <1>2 DEF ThreadOf
<1>4. Takes(w, jobs[w][1]) /\ Pops(w)
  BY TakeJobDoes
<1>5. \A i \in Items : items'[i].shell # fd
  BY <1>0 DEF Own
<1>6. \A i \in 1 .. Len(jobs[v]) : jobs[v][i].fd = fd => jobs[v][i].org = c
  BY <1>2 DEF Own
<1>7. CASE v # w
  <2>1. jobs'[v] = jobs[v] /\ wk'[v] = wk[v]
    BY <1>4, <1>7 DEF Takes, Pops, Others
  <2>2. wk'[v].pc # "idle" /\ wk'[v].fd = fd => wk'[v].org = c
    BY <1>2, <2>1 DEF Own
  <2>3. QED
    BY <1>1, <1>3, <1>5, <1>6, <2>1, <2>2 DEF Own
<1>8. CASE v = w
  <2>1. 1 \in 1 .. Len(jobs[w]) /\ \A i \in 1 .. Len(jobs'[w]) : i + 1 \in 1 .. Len(jobs[w]) /\ jobs'[w][i] = jobs[w][i + 1]
    BY <1>4 DEF Pops
  <2>2. wk'[w].fd = fd => wk'[w].org = c
    BY <1>4, <1>6, <1>8, <2>1 DEF Takes
  <2>3. \A i \in 1 .. Len(jobs'[w]) : jobs'[w][i].fd = fd => jobs'[w][i].org = c
    BY <1>6, <1>8, <2>1
  <2>4. QED
    BY <1>1, <1>3, <1>5, <1>8, <2>2, <2>3 DEF Own
<1>9. QED
  BY <1>7, <1>8

(* A command is sent: its number is the highest.                           *)
LEMMA PeerSendClean ==
  ASSUME NEW at, NEW from, Core(at, from), NEW fd \in Fds, NEW c \in Conns,
         Own(fd, c), Line(fd, c), NEW d \in Conns, NEW cmd \in Kinds, NEW y \in YyIDs \cup {0},
         PeerSend(d, cmd, y)
  PROVE  Own(fd, c)' /\ Line(fd, c)'
<1>0. TypeOK /\ UNCHANGED <<items, jobs, wk, wbuf, got, outq>>
  BY DEF PeerSend, Core
<1>1. Own(fd, c)'
  BY <1>0, EventOwn
<1>2. Settles(fd, c)
  <2> SUFFICES ASSUME NEW n \in Nat, Waits(n, fd, c)', ~Waits(n, fd, c)
               PROVE  FALSE
    BY DEF Settles
  <2>1. PICK m \in Msg : m.n = nmsg + 1 /\ inbox' = [inbox EXCEPT ![d] = Append(inbox[d], m)]
    <3> DEFINE m == [cmd |-> cmd, y |-> y, n |-> nmsg + 1]
    <3>1. m \in Msg /\ m.n = nmsg + 1 /\ inbox' = [inbox EXCEPT ![d] = Append(inbox[d], m)]
      BY PeerSendDoes
    <3> HIDE DEF m
    <3>2. QED
      BY <3>1
  <2>2. nmsg \in Nat /\ nmsg' = nmsg + 1 /\ inbox \in [Conns -> Seq(Msg)]
    BY <1>0, BoundsAssumption DEF TypeOK, PeerSend
  <2>3. PICK v \in Workers : v = ThreadOf(fd)
    BY ThreadOfWorker
  <2>4. ThreadOf(fd)' = v /\ (Pre(v)' => Pre(v))
    BY <1>0, <2>3 DEF ThreadOf, Pre
  <2>5. ~(n > nmsg)
    BY DEF Waits
  <2>6. \E k \in 1 .. Len(inbox'[c]) : n = inbox'[c][k].n
    BY <1>0, <2>2, <2>3, <2>4, <2>5 DEF Waits
  <2>7. PICK k \in 1 .. Len(inbox'[c]) : n = inbox'[c][k].n
    BY <2>6
  <2>8. CASE c = d
    <3>1. inbox'[c] = Append(inbox[c], m) /\ inbox[c] \in Seq(Msg)
      BY <2>1, <2>2, <2>8
    <3>2. PICK L \in Nat : L = Len(inbox[c])
      BY <3>1, LenProperties
    <3>3. /\ Len(inbox'[c]) = L + 1 /\ inbox'[c][L + 1] = m
          /\ \A i \in 1 .. L : inbox'[c][i] = inbox[c][i]
      BY <3>1, <3>2, AppendFacts
    <3>4. k # L + 1
      BY <2>1, <2>2, <2>5, <2>7, <3>3
    <3>5. k \in 1 .. Len(inbox[c]) /\ n = inbox[c][k].n
      BY <2>7, <3>2, <3>3, <3>4
    <3>6. QED
      BY <3>5 DEF Waits
  <2>9. CASE c # d
    <3>1. inbox'[c] = inbox[c]
      BY <2>1, <2>2, <2>9
    <3>2. QED
      BY <2>6, <3>1 DEF Waits
  <2>10. QED
    BY <2>8, <2>9
<1>3. QED
  BY <1>0, <1>1, <1>2, SameLine

(* What the connection sent is queued.                                     *)
LEMMA DoReadClean ==
  ASSUME NEW at, NEW from, Core(at, from), NEW fd \in Fds, NEW c \in Conns, open[fd] = c,
         Own(fd, c), Line(fd, c), NEW g \in Fds, DoRead(g)
  PROVE  Own(fd, c)' /\ Line(fd, c)'
<1>1. PICK x : x = [fd |-> g, port |-> port[open[g]], msgs |-> inbox[open[g]], org |-> open[g]]
  OBVIOUS
<1>2. x.fd = g /\ x.msgs = inbox[open[g]] /\ x.org = open[g]
  BY <1>1
<1>3. Joins(x) /\ Serves(x)
  BY <1>1, DoReadDoes
<1>4. TypeOK /\ UNCHANGED <<wbuf, got, outq>>
  BY DEF Core, DoRead, netVars
<1>5. UNCHANGED <<nmsg, wk, items>> /\ inbox'[c] \in {inbox[c], <<>>}
  BY <1>3 DEF Serves
<1>6. Own(fd, c)'
  BY <1>2, <1>3, <1>5, EventOwn
<1>7. Settles(fd, c)
  BY <1>2, <1>3, <1>5, EventSettles
<1>8. QED
  BY <1>4, <1>6, <1>7, SameLine

(* Another descriptor is freed.                                            *)
LEMMA FreeClean ==
  ASSUME NEW at, NEW from, Core(at, from), NEW fd \in Fds, NEW c \in Conns, Own(fd, c),
         NEW g \in Fds, g # fd, open[g] # 0, FreeFdState(g),
         UNCHANGED <<port, conns, nmsg, wk, items, fdmap, usermap>>
  PROVE  Own(fd, c)' /\ Settles(fd, c) /\ wbuf'[fd] = wbuf[fd]
<1>1. PICK x : x = LogoutJob(g)
  OBVIOUS
<1>2. x.fd = g
  BY <1>1 DEF LogoutJob
<1>3. (jobs' = jobs \/ Joins(x)) /\ inbox'[c] \in {inbox[c], <<>>}
  BY <1>1, FreeServes DEF Serves
<1>4. Own(fd, c)'
  BY <1>2, <1>3, EventOwn
<1>5. Settles(fd, c)
  BY <1>2, <1>3, EventSettles
<1>6. wbuf'[fd] = wbuf[fd]
  BY FreeDoes
<1>7. QED
  BY <1>4, <1>5, <1>6

(* The event thread takes a buffer from the outgoing queue.                *)
LEMMA QueueClean ==
  ASSUME NEW at, NEW from, Core(at, from), NEW fd \in Fds, NEW c \in Conns, open[fd] = c, open'[fd] = c,
         Own(fd, c), Line(fd, c), QueueReceive
  PROVE  Own(fd, c)' /\ Line(fd, c)'
<1>0. /\ TypeOK /\ outq # <<>> /\ outq' = Tail(outq) /\ got' = got /\ c # 0
      /\ UNCHANGED <<port, conns, nmsg, wk, items, fdmap, usermap>>
  BY DEF Core, QueueReceive, netVars, Conns
<1>1. /\ outq \in Seq(Out) /\ wbuf \in [Fds -> Seq(Out)]
  BY <1>0 DEF TypeOK
<1>2. PICK b : b = Head(outq)
  OBVIOUS
<1>3. b = outq[1] /\ b \in Out /\ Len(outq) >= 1 /\ Len(outq) \in Nat
  BY <1>0, <1>1, <1>2, TailFacts
<1>4. 1 \in 1 .. Len(outq) /\ b.fd \in Fds
  BY <1>3 DEF Out
<1>5. CASE b.kind = "CLOSE" /\ open[b.fd] # 0 /\ FreeFdState(b.fd)
  <2>1. b.fd # fd
    BY <1>0, <1>4, <1>5, FreeDoes
  <2>2. Own(fd, c)' /\ Settles(fd, c) /\ wbuf'[fd] = wbuf[fd]
    BY <1>0, <1>4, <1>5, <2>1, FreeClean
  <2>3. ~Sent(fd, 1)
    BY <1>3, <2>1 DEF Sent
  <2>4. QED
    BY <1>0, <2>2, <2>3, PopLine
<1>6. CASE /\ b.kind # "CLOSE" /\ open[b.fd] # 0
           /\ wbuf' = [wbuf EXCEPT ![b.fd] = Append(wbuf[b.fd], b)]
           /\ UNCHANGED <<open, inbox, jobs, rude>>
  <2>1. Own(fd, c)' /\ Settles(fd, c)
    BY <1>0, <1>6, EventOwn, EventSettles
  <2>2. CASE b.fd = fd
    <3>1. wbuf'[fd] = Append(wbuf[fd], outq[1])
      BY <1>1, <1>3, <1>6, <2>2
    <3>2. Sent(fd, 1)
      BY <1>3, <1>4, <1>6, <2>2 DEF Sent
    <3>3. QED
      BY <1>0, <2>1, <3>1, <3>2, PopLine
  <2>3. CASE b.fd # fd
    <3>1. wbuf'[fd] = wbuf[fd]
      BY <1>1, <1>6, <2>3
    <3>2. ~Sent(fd, 1)
      BY <1>3, <2>3 DEF Sent
    <3>3. QED
      BY <1>0, <2>1, <3>1, <3>2, PopLine
  <2>4. QED
    BY <2>2, <2>3
<1>7. CASE open[b.fd] = 0 /\ UNCHANGED <<open, inbox, jobs, wbuf, rude>>
  <2>1. Own(fd, c)' /\ Settles(fd, c)
    BY <1>0, <1>7, EventOwn, EventSettles
  <2>2. ~Sent(fd, 1)
    BY <1>0, <1>3, <1>7 DEF Sent
  <2>3. QED
    BY <1>0, <1>7, <2>1, <2>2, PopLine
<1>8. QED
  BY <1>2, <1>5, <1>6, <1>7 DEF QueueReceive

(* The write buffer of a descriptor is written.                            *)
LEMMA DoWriteClean ==
  ASSUME NEW at, NEW from, Core(at, from), NEW fd \in Fds, NEW c \in Conns, Tidy(fd, c),
         AnswersInOrder, Own(fd, c), Line(fd, c), NEW g \in Fds, DoWrite(g)
  PROVE  /\ Own(fd, c)' /\ Line(fd, c)'
         /\ g = fd => /\ \A i \in 1 .. Len(got'[c]) : got'[c][i].org = c
                      /\ \A i, j \in 1 .. Len(got'[c]) : i < j => got'[c][i].n < got'[c][j].n
<1>0. TypeOK /\ UNCHANGED <<items, jobs, wk, nmsg, inbox, outq, open>> /\ open[fd] = c
  BY DEF DoWrite, Core, Tidy
<1>1. Own(fd, c)' /\ Settles(fd, c)
  BY <1>0, EventOwn, EventSettles
<1>2. PICK k \in 0 .. Len(wbuf[g]) :
        /\ open[g] # 0 /\ open[g] \in Conns
        /\ got' = [got EXCEPT ![open[g]] = got[open[g]] \o SubSeq(wbuf[g], 1, k)]
        /\ wbuf' = [wbuf EXCEPT ![g] = <<>>]
  BY <1>0, DoWriteDoes
<1>3. wbuf \in [Fds -> Seq(Out)] /\ got \in [Conns -> Seq(Out)]
  BY <1>0 DEF TypeOK
<1>4. CASE g = fd
  <2>1. wbuf'[fd] = <<>> /\ got'[c] = got[c] \o SubSeq(wbuf[fd], 1, k)
    BY <1>0, <1>2, <1>3, <1>4
  <2>2. InOrder(c)
    BY DEF AnswersInOrder, Tidy, InOrder
  <2>3. k \in 0 .. Len(wbuf[fd])
    BY <1>4
  <2>4. Line(fd, c)' /\ InOrder(c)'
    BY <1>0, <1>1, <2>1, <2>2, <2>3, WriteLine
  <2>5. QED
    BY <1>1, <2>4 DEF InOrder
<1>5. CASE g # fd
  <2>1. open[g] # c
    <3>1. Mail(at, from)
      BY DEF Core
    <3>2. open[g] # 0 => at[open[g]] = g
      BY <3>1 DEF Mail
    <3>3. at[c] = fd
      BY <1>0, <3>1 DEF Mail, Conns
    <3>4. QED
      BY <1>2, <1>5, <3>2, <3>3
  <2>2. wbuf'[fd] = wbuf[fd] /\ got'[c] = got[c]
    BY <1>2, <1>3, <1>5, <2>1
  <2>3. QED
    BY <1>0, <1>1, <1>5, <2>2, SameLine
<1>6. QED
  BY <1>4, <1>5

(* A connection is accepted: if nothing is pending for its descriptor,     *)
(* nothing is on its way to it either.                                     *)
LEMMA AcceptClean ==
  ASSUME NEW at, NEW from, Core(at, from), CleanInv, NEW g \in Fds, NEW p \in {"client", "shell"},
         Accept(g, p)
  PROVE  CleanInv'
<1>0. TypeOK /\ Mail(at, from)
  BY DEF Core
<1>1. PICK d \in Conns : d = conns + 1
  <2>1. conns + 1 \in Conns
    BY <1>0, AcceptDoes
  <2>2. QED
    BY <2>1
<1>2. /\ open[g] = 0 /\ conns \in Nat /\ conns' = d /\ open'[g] = d
      /\ \A fd \in Fds \ {g} : open'[fd] = open[fd]
      /\ \A e \in Conns \ {d} : port'[e] = port[e] /\ inbox'[e] = inbox[e]
  BY <1>0, <1>1, AcceptDoes
<1>3. clean' = IF Pending(g) THEN clean ELSE clean \cup {d}
  BY <1>0, <1>1, AcceptDoes
<1>4. UNCHANGED <<nmsg, jobs, wk, items, outq, wbuf, got>>
  BY DEF Accept
<1>5. d > conns /\ d \notin clean /\ got[d] = <<>> /\ d # 0
  BY <1>1, <1>2 DEF CleanInv, Conns
<1>6. \A c \in Conns : c > conns' => got'[c] = <<>> /\ c \notin clean'
  BY <1>1, <1>2, <1>3, <1>4 DEF CleanInv, Conns
<1>7. \A fd \in Fds : open'[fd] = 0 => wbuf'[fd] = <<>>
  BY <1>2, <1>4, <1>5 DEF CleanInv
<1>8. AnswersInOrder'
  <2> SUFFICES ASSUME NEW c \in clean', port'[c] = "client"
               PROVE  /\ \A i \in 1 .. Len(got'[c]) : got'[c][i].org = c
                      /\ \A i, j \in 1 .. Len(got'[c]) : i < j => got'[c][i].n < got'[c][j].n
    BY DEF AnswersInOrder
  <2>1. CASE c = d
    BY <1>4, <1>5, <2>1
  <2>2. CASE c # d
    <3>1. c \in clean /\ c \in Conns
      BY <1>0, <1>3, <2>2 DEF TypeOK
    <3>2. QED
      BY <1>2, <1>4, <2>2, <3>1 DEF CleanInv, AnswersInOrder
  <2>3. QED
    BY <2>1, <2>2
<1>9. ASSUME NEW fd \in Fds, NEW c \in Conns, Tidy(fd, c)'
      PROVE  Own(fd, c)' /\ Line(fd, c)'
  <2>0. open'[fd] = c /\ c # 0 /\ c \in clean' /\ port'[c] = "client"
    BY <1>9 DEF Tidy
  <2>1. CASE fd # g
    <3>1. open[fd] = c
      BY <1>2, <2>0, <2>1
    <3>2. c # d
      BY <1>0, <1>1, <1>2, <2>0, <3>1 DEF Mail
    <3>3. Tidy(fd, c) /\ inbox'[c] = inbox[c]
      BY <1>2, <1>3, <2>0, <3>1, <3>2 DEF Tidy
    <3>4. Own(fd, c) /\ Line(fd, c)
      BY <3>3 DEF CleanInv
    <3>5. Own(fd, c)' /\ Settles(fd, c)
      BY <1>4, <3>3, <3>4, EventOwn, EventSettles
    <3>6. QED
      BY <1>0, <1>4, <3>4, <3>5, SameLine
  <2>2. CASE fd = g
    <3>1. c = d /\ ~Pending(g)
      BY <1>2, <1>3, <1>5, <2>0, <2>2
    <3>2. /\ ~Busy(fd) /\ \A i \in 1 .. Len(outq) : outq[i].fd # fd
      BY <2>2, <3>1 DEF Pending
    <3>3. \A i \in Items : items[i].shell # fd
      BY <2>2, <3>1 DEF Pending
    <3>4. PICK v \in Workers : v = ThreadOf(fd)
      BY ThreadOfWorker
    <3>5. ThreadOf(fd)' = v
      BY <3>4 DEF ThreadOf
    <3>6. ~(wk[v].pc # "idle" /\ wk[v].fd = fd) /\ \A i \in 1 .. Len(jobs[v]) : jobs[v][i].fd # fd
      BY <3>2 DEF Busy
    <3>7. Own(fd, c)'
      BY <1>4, <3>3, <3>5, <3>6 DEF Own
    <3>8. got'[c] = <<>> /\ wbuf'[fd] = <<>>
      BY <1>2, <1>4, <1>5, <2>2, <3>1 DEF CleanInv
    <3>9. 1 .. Len(got'[c]) = {} /\ 1 .. Len(wbuf'[fd]) = {}
      BY <3>8
    <3>10. \A i \in 1 .. Len(outq') : outq'[i].fd # fd
      BY <1>4, <3>2
    <3>11. Line(fd, c)'
      BY <3>9, <3>10 DEF Line, Sent
    <3>12. QED
      BY <3>7, <3>11
  <2>3. QED
    BY <2>1, <2>2
<1>10. QED
  BY <1>6, <1>7, <1>8, <1>9 DEF CleanInv

(* The steps that let no connection in.                                    *)
LEMMA KeepClean ==
  ASSUME NEW at, NEW from, Core(at, from), CleanInv, UNCHANGED <<port, conns, clean>>,
         \A fd \in Fds : open'[fd] \in {open[fd], 0},
         \A fd \in Fds : open'[fd] = 0 => wbuf'[fd] = <<>>,
         \A c \in Conns : got'[c] = got[c] \/ (c <= conns /\ (c \in clean /\ port[c] = "client" =>
                            /\ \A i \in 1 .. Len(got'[c]) : got'[c][i].org = c
                            /\ \A i, j \in 1 .. Len(got'[c]) : i < j => got'[c][i].n < got'[c][j].n)),
         \A fd \in Fds, c \in Conns :
           Tidy(fd, c) /\ open'[fd] = c => Own(fd, c)' /\ Line(fd, c)'
  PROVE  CleanInv'
<1>0. conns \in Nat /\ clean \subseteq Conns
  BY BoundsAssumption DEF Core, TypeOK
<1>1. \A c \in Conns : c > conns' => got'[c] = <<>> /\ c \notin clean'
  BY <1>0 DEF CleanInv, Conns
<1>2. AnswersInOrder'
  BY <1>0 DEF CleanInv, AnswersInOrder
<1>3. \A fd \in Fds, c \in Conns : Tidy(fd, c)' => Tidy(fd, c) /\ open'[fd] = c
  BY DEF Tidy
<1>4. QED
  BY <1>1, <1>2, <1>3 DEF CleanInv

(* A worker's step.                                                        *)
LEMMA WorkerClean ==
  ASSUME NEW at, NEW from, Core(at, from), CleanInv, NEW w \in Workers, Worker(w)
  PROVE  CleanInv'
<1>1. UNCHANGED <<port, conns, clean, open, wbuf, got>>
  BY TurnFrame DEF TakeJob, netVars, workerFrame
<1>2. \A fd \in Fds, c \in Conns : Tidy(fd, c) => Own(fd, c)' /\ Line(fd, c)'
  BY TurnClean, TakeJobClean DEF CleanInv
<1>3. \A fd \in Fds : open'[fd] = 0 => wbuf'[fd] = <<>>
  BY <1>1 DEF CleanInv
<1>4. QED
  BY <1>1, <1>2, <1>3, KeepClean

(* A step of a peer.                                                       *)
LEMMA PeersClean ==
  ASSUME NEW at, NEW from, Core(at, from), CleanInv, Peers
  PROVE  CleanInv'
<1>0. TypeOK
  BY DEF Core
<1>1. UNCHANGED <<port, conns, clean, open, wbuf, got>>
  BY DEF Peers, PeerSend, PeerClose
<1>2. \A fd \in Fds, c \in Conns : Tidy(fd, c) => Own(fd, c)' /\ Line(fd, c)'
  <2> SUFFICES ASSUME NEW fd \in Fds, NEW c \in Conns, Tidy(fd, c)
               PROVE  Own(fd, c)' /\ Line(fd, c)'
    OBVIOUS
  <2>1. Own(fd, c) /\ Line(fd, c)
    BY DEF CleanInv
  <2>2. CASE \E d \in Conns : PeerClose(d)
    <3>1. UNCHANGED <<items, jobs, wk, wbuf, got, outq, nmsg, inbox>>
      BY <2>2 DEF PeerClose
    <3>2. Own(fd, c)' /\ Settles(fd, c)
      BY <2>1, <3>1, EventOwn, EventSettles
    <3>3. QED
      BY <1>0, <2>1, <3>1, <3>2, SameLine
  <2>3. CASE \E d \in Conns, cmd \in Kinds, y \in YyIDs \cup {0} : PeerSend(d, cmd, y)
    BY <2>1, <2>3, PeerSendClean
  <2>4. QED
    BY <2>2, <2>3 DEF Peers
<1>3. \A fd \in Fds : open'[fd] = 0 => wbuf'[fd] = <<>>
  BY <1>1 DEF CleanInv
<1>4. QED
  BY <1>1, <1>2, <1>3, KeepClean

(* A descriptor is freed, maybe because of the first buffer of the queue.  *)
LEMMA CloseClean ==
  ASSUME NEW at, NEW from, Core(at, from), CleanInv, NEW g \in Fds, PeerGone(g)
  PROVE  CleanInv'
<1>0. /\ TypeOK /\ open[g] # 0 /\ FreeFdState(g) /\ UNCHANGED <<port, conns, clean, got, outq>>
      /\ UNCHANGED <<port, conns, nmsg, wk, items, fdmap, usermap>>
  BY PeerGoneCore DEF Core, PeerGone, netVars
<1>1. /\ open'[g] = 0 /\ \A fd \in Fds \ {g} : open'[fd] = open[fd]
      /\ wbuf'[g] = <<>> /\ \A fd \in Fds \ {g} : wbuf'[fd] = wbuf[fd]
  BY <1>0, FreeDoes
<1>2. ASSUME NEW fd \in Fds, NEW c \in Conns, Tidy(fd, c), open'[fd] = c
      PROVE  Own(fd, c)' /\ Line(fd, c)'
  <2>1. Own(fd, c) /\ Line(fd, c) /\ fd # g
    BY <1>1, <1>2 DEF CleanInv, Tidy
  <2>2. Own(fd, c)' /\ Settles(fd, c) /\ wbuf'[fd] = wbuf[fd]
    BY <1>0, <2>1, FreeClean
  <2>3. QED
    BY <1>0, <2>1, <2>2, SameLine
<1>3. \A fd \in Fds : open'[fd] = 0 => wbuf'[fd] = <<>>
  BY <1>1 DEF CleanInv
<1>4. \A fd \in Fds : open'[fd] \in {open[fd], 0}
  BY <1>1
<1>5. QED
  BY <1>0, <1>2, <1>3, <1>4, KeepClean

(* DoWrite.                                                                *)
LEMMA WriteClean ==
  ASSUME NEW at, NEW from, Core(at, from), CleanInv, NEW g \in Fds, DoWrite(g)
  PROVE  CleanInv'
<1>0. TypeOK /\ Mail(at, from) /\ UNCHANGED <<port, conns, clean, open>>
  BY DEF Core, DoWrite
<1>1. wbuf \in [Fds -> Seq(Out)] /\ got \in [Conns -> Seq(Out)]
  BY <1>0 DEF TypeOK
<1>2. PICK k \in 0 .. Len(wbuf[g]) :
        /\ open[g] # 0 /\ open[g] \in Conns
        /\ got' = [got EXCEPT ![open[g]] = got[open[g]] \o SubSeq(wbuf[g], 1, k)]
        /\ wbuf' = [wbuf EXCEPT ![g] = <<>>]
  BY <1>0, DoWriteDoes
<1>3. \A fd \in Fds, c \in Conns : Tidy(fd, c) => Own(fd, c)' /\ Line(fd, c)'
  BY DoWriteClean DEF CleanInv
<1>4. \A fd \in Fds : open'[fd] = 0 => wbuf'[fd] = <<>>
  BY <1>0, <1>1, <1>2 DEF CleanInv
<1>5. ASSUME NEW c \in Conns, got'[c] # got[c]
      PROVE  /\ c <= conns
             /\ c \in clean /\ port[c] = "client" =>
                  /\ \A i \in 1 .. Len(got'[c]) : got'[c][i].org = c
                  /\ \A i, j \in 1 .. Len(got'[c]) : i < j => got'[c][i].n < got'[c][j].n
  <2>1. c = open[g]
    BY <1>1, <1>2, <1>5
  <2>2. c <= conns /\ c # 0
    BY <1>0, <1>2, <2>1 DEF Mail
  <2>3. c \in clean /\ port[c] = "client" => Tidy(g, c)
    BY <2>1, <2>2 DEF Tidy
  <2>4. QED
    BY <2>2, <2>3, DoWriteClean DEF CleanInv
<1>6. QED
  BY <1>0, <1>3, <1>4, <1>5, KeepClean

(* DoRead.                                                                 *)
LEMMA ReadClean ==
  ASSUME NEW at, NEW from, Core(at, from), CleanInv, NEW g \in Fds, DoRead(g)
  PROVE  CleanInv'
<1>1. UNCHANGED <<port, conns, clean, open, wbuf, got>>
  BY DEF DoRead, netVars
<1>2. \A fd \in Fds, c \in Conns : Tidy(fd, c) => Own(fd, c)' /\ Line(fd, c)'
  BY DoReadClean DEF CleanInv, Tidy
<1>3. \A fd \in Fds : open'[fd] = 0 => wbuf'[fd] = <<>>
  BY <1>1 DEF CleanInv
<1>4. QED
  BY <1>1, <1>2, <1>3, KeepClean

(* QueueReceive.                                                           *)
LEMMA ReceiveClean ==
  ASSUME NEW at, NEW from, Core(at, from), CleanInv, QueueReceive
  PROVE  CleanInv'
<1>0. /\ TypeOK /\ outq # <<>> /\ UNCHANGED <<port, conns, clean, got>>
  BY DEF Core, QueueReceive, netVars
<1>1. outq \in Seq(Out) /\ wbuf \in [Fds -> Seq(Out)] /\ open \in [Fds -> 0 .. MaxConns]
  BY <1>0 DEF TypeOK
<1>2. PICK b \in Out : b = Head(outq)
  BY <1>0, <1>1, TailFacts
<1>3. b.fd \in Fds
  BY DEF Out
<1>4. \A fd \in Fds, c \in Conns : Tidy(fd, c) /\ open'[fd] = c => Own(fd, c)' /\ Line(fd, c)'
  BY QueueClean DEF CleanInv, Tidy
<1>5. /\ \A fd \in Fds : open'[fd] \in {open[fd], 0}
      /\ \A fd \in Fds : open'[fd] = 0 => wbuf'[fd] = <<>>
  <2>1. CASE open[b.fd] # 0 /\ FreeFdState(b.fd)
    <3>1. /\ open'[b.fd] = 0 /\ \A fd \in Fds \ {b.fd} : open'[fd] = open[fd]
          /\ wbuf'[b.fd] = <<>> /\ \A fd \in Fds \ {b.fd} : wbuf'[fd] = wbuf[fd]
      BY <1>3, <2>1, FreeDoes
    <3>2. QED
      BY <3>1 DEF CleanInv
  <2>2. CASE open[b.fd] # 0 /\ wbuf' = [wbuf EXCEPT ![b.fd] = Append(wbuf[b.fd], b)] /\ open' = open
    <3>1. \A fd \in Fds : open[fd] = 0 => wbuf'[fd] = wbuf[fd]
      BY <1>1, <2>2
    <3>2. QED
      BY <2>2, <3>1 DEF CleanInv
  <2>3. CASE UNCHANGED <<open, wbuf>>
    BY <2>3 DEF CleanInv
  <2>4. QED
    BY <1>2, <2>1, <2>2, <2>3 DEF QueueReceive
<1>6. QED
  BY <1>0, <1>4, <1>5, KeepClean

(* Every step.                                                             *)
LEMMA StepClean ==
  ASSUME NEW at, NEW from, Core(at, from), CleanInv, [Next]_vars
  PROVE  CleanInv'
<1>1. CASE UNCHANGED vars
  <2>0. TypeOK
    BY DEF Core
  <2>1. /\ UNCHANGED <<port, conns, clean, open, got, wbuf>>
        /\ UNCHANGED <<items, jobs, wk, outq, nmsg, inbox>>
    BY <1>1 DEF vars
  <2>2. ASSUME NEW fd \in Fds, NEW c \in Conns, Tidy(fd, c)
        PROVE  Own(fd, c)' /\ Line(fd, c)'
    <3>1. Own(fd, c) /\ Line(fd, c)
      BY <2>2 DEF CleanInv
    <3>2. Own(fd, c)' /\ Settles(fd, c)
      BY <2>1, <3>1, EventOwn, EventSettles
    <3>3. QED
      BY <2>0, <2>1, <3>1, <3>2, SameLine
  <2>3. \A fd \in Fds : open'[fd] = 0 => wbuf'[fd] = <<>>
    BY <2>1 DEF CleanInv
  <2>4. QED
    BY <2>1, <2>2, <2>3, KeepClean
<1>2. CASE Peers
  BY <1>2, PeersClean
<1>3. CASE EventLoop
  BY <1>3, AcceptClean, ReadClean, CloseClean, WriteClean, ReceiveClean DEF EventLoop
<1>4. CASE \E w \in Workers : Worker(w)
  BY <1>4, WorkerClean
<1>5. QED
  BY <1>1, <1>2, <1>3, <1>4 DEF Next

(* At the start nothing is on its way.                                     *)
LEMMA InitClean ==
  ASSUME Init
  PROVE  CleanInv
<1>1. /\ got = [c \in Conns |-> <<>>] /\ wbuf = [fd \in Fds |-> <<>>] /\ clean = {}
  BY DEF Init
<1>2. AnswersInOrder
  BY <1>1 DEF AnswersInOrder
<1>3. \A fd \in Fds, c \in Conns : ~Tidy(fd, c)
  BY <1>1 DEF Tidy
<1>4. QED
  BY <1>1, <1>2, <1>3 DEF CleanInv

(* The answers a client gets are to its own commands, each at most once,   *)
(* in the order it sent them, however its reads, its worker, the outgoing  *)
(* queue and the writes interleave with everything else, if nothing was    *)
(* pending for its descriptor when it was accepted.                        *)
THEOREM AnswersCorrect == Spec => []AnswersInOrder
<1>1. Init => CleanInv
  BY InitClean
<1>2. CoreInv /\ CleanInv /\ [Next]_vars => CleanInv'
  BY StepClean DEF CoreInv
<1>3. CleanInv => AnswersInOrder
  BY DEF CleanInv
<1>4. QED
  BY <1>1, <1>2, <1>3, CoreCorrect, PTL DEF Spec
=============================================================================
