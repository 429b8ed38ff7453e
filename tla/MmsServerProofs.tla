---------------------------- MODULE MmsServerProofs ----------------------------
(***************************************************************************)
(* The inductive invariant of MmsServer, for any number of threads,        *)
(* descriptors, users, connections and commands, and its type correctness. *)
(*                                                                         *)
(* Core(at, from) is the invariant.  at and from are history: the          *)
(* descriptor each connection was accepted on and the connection each      *)
(* command came from.  With them it says that whatever lies unread,        *)
(* queued or in a worker's hands came from the connection it is marked     *)
(* with, by its port, in the order of sending (Mail, Order); where a       *)
(* worker can be, by its command (Stage, Routed); that a command not yet   *)
(* run has made no session (Fresh); and which sessions the maps and the    *)
(* workers refer to (Refs, Accounts).  Each action has a lemma XDoes on    *)
(* what it changes, where that takes some steps, and a lemma XCore.        *)
(***************************************************************************)
EXTENDS MmsServer, SequenceTheorems, TLAPS

(* The locals of a worker, and an Item_data.                               *)
Local ==
  [pc : Pc, fd : Fds \cup {0}, port : {"client", "shell"}, org : 0 .. MaxConns,
   msgs : Seq(Msg), item : Items \cup {0}, st : 0 .. MaxMsgs, succ : BOOLEAN]

Item ==
  [org : 0 .. MaxConns, yyID : YyIDs \cup {0}, shell : Fds \cup {0}, url : 0 .. MaxMsgs,
   gone : BOOLEAN, ok : 0 .. MaxMsgs, told : SUBSET (Fds \X (0 .. MaxMsgs)),
   left : SUBSET Fds, late : BOOLEAN]

(* Only worker w moves, and it stays with its command.                     *)
Moves(w, pc, item, st, succ) ==
  /\ wk' \in [Workers -> Local]
  /\ \A v \in Workers \ {w} : wk'[v] = wk[v]
  /\ wk'[w].pc = pc /\ wk'[w].item = item /\ wk'[w].st = st /\ wk'[w].succ = succ
  /\ wk'[w].fd = wk[w].fd /\ wk'[w].port = wk[w].port
  /\ wk'[w].org = wk[w].org /\ wk'[w].msgs = wk[w].msgs

(* A natural number other than 0 is 1 or more.                             *)
LEMMA OneOrMore ==
  ASSUME NEW n \in Nat \ {0}
  PROVE  n >= 1 /\ (n # 1 => n > 1)
  OBVIOUS

(* Elements of sequences.                                                  *)
LEMMA TailFacts ==
  ASSUME NEW S, NEW s \in Seq(S), s # <<>>
  PROVE  /\ Len(s) \in Nat /\ Len(s) >= 1 /\ (Len(s) # 1 => Len(s) > 1)
         /\ Head(s) = s[1] /\ Head(s) \in S
         /\ Tail(s) \in Seq(S) /\ Len(Tail(s)) = Len(s) - 1
         /\ \A i \in 1 .. Len(s) - 1 : Tail(s)[i] = s[i + 1]
<1>1. Len(s) \in Nat \ {0}
  BY EmptySeq
<1>2. Head(s) \in S /\ Tail(s) \in Seq(S) /\ Len(Tail(s)) = Len(s) - 1
  BY HeadTailProperties
<1>3. \A i \in 1 .. Len(s) - 1 : Tail(s)[i] = s[i + 1]
  BY <1>2, HeadTailProperties
<1>4. Head(s) = s[1]
  OBVIOUS
<1>5. Len(s) >= 1 /\ (Len(s) # 1 => Len(s) > 1)
  BY <1>1, OneOrMore, Zenon
<1>6. QED
  BY <1>1, <1>2, <1>3, <1>4, <1>5

(* A sequence with an element appended.                                    *)
LEMMA AppendFacts ==
  ASSUME NEW S, NEW s \in Seq(S), NEW x \in S
  PROVE  /\ Append(s, x) \in Seq(S) /\ Len(Append(s, x)) = Len(s) + 1
         /\ \A i \in 1 .. Len(s) : Append(s, x)[i] = s[i]
         /\ Append(s, x)[Len(s) + 1] = x
  BY AppendProperties

(* Goto changes the place of one worker only.                              *)
LEMMA GotoShape ==
  ASSUME NEW w \in Workers, wk \in [Workers -> Local], NEW pc \in Pc, Goto(w, pc)
  PROVE  Moves(w, pc, wk[w].item, wk[w].st, wk[w].succ)
<1>1. wk' = [wk EXCEPT ![w].pc = pc]
  BY DEF Goto
<1> DEFINE k == wk[w]
           d == [k EXCEPT !.pc = pc]
<1>2. k \in Local /\ wk' = [wk EXCEPT ![w] = d] /\ k = wk[w]
  BY <1>1
<1> HIDE DEF k
<1>3. /\ d \in Local /\ d.pc = pc /\ d.item = k.item /\ d.st = k.st /\ d.succ = k.succ
      /\ d.fd = k.fd /\ d.port = k.port /\ d.org = k.org /\ d.msgs = k.msgs
  BY <1>2 DEF Local
<1> HIDE DEF d
<1>4. QED
  BY <1>2, <1>3 DEF Moves

(* A worker without a job has locals of the right type.                    *)
LEMMA IdleLocal == Idle \in Local
<1>1. 0 \in 0 .. MaxConns /\ 0 \in 0 .. MaxMsgs /\ <<>> \in Seq(Msg)
  BY BoundsAssumption
<1>2. "idle" \in Pc
  BY DEF Pc
<1>3. QED
  BY <1>1, <1>2 DEF Idle, Local

(* NextCmd: the worker is done, or goes on with the rest of its buffer and *)
(* the session it had.                                                     *)
LEMMA NextShape ==
  ASSUME NEW w \in Workers, wk \in [Workers -> Local], NextCmd(w), wk[w].msgs # <<>>
  PROVE  /\ wk' \in [Workers -> Local]
         /\ \A v \in Workers \ {w} : wk'[v] = wk[v]
         /\ \/ Len(wk[w].msgs) = 1 /\ wk'[w] = Idle
            \/ /\ Len(wk[w].msgs) > 1
               /\ wk'[w].pc = "loop" /\ wk'[w].msgs = Tail(wk[w].msgs)
               /\ wk'[w].fd = wk[w].fd /\ wk'[w].port = wk[w].port
               /\ wk'[w].org = wk[w].org /\ wk'[w].st = wk[w].st
               /\ wk'[w].item = IF wk[w].port = "client" THEN wk[w].item ELSE 0
<1> DEFINE k == wk[w]
           it == IF k.port = "client" THEN k.item ELSE 0
           t == Tail(k.msgs)
           d == [k EXCEPT !.pc = "loop", !.msgs = t, !.succ = TRUE, !.item = it]
<1>1. k \in Local /\ k = wk[w] /\ wk' = [wk EXCEPT ![w] = IF Len(k.msgs) = 1 THEN Idle ELSE d]
  BY Zenon DEF NextCmd
<1>2. Idle \in Local
  BY IdleLocal
<1>3. k.msgs # <<>>
  OBVIOUS
<1> HIDE DEF k
<1>6. t \in Seq(Msg) /\ it \in Items \cup {0} /\ (Len(k.msgs) # 1 => Len(k.msgs) > 1)
  <2>1. k.msgs \in Seq(Msg) /\ k.item \in Items \cup {0}
    BY <1>1 DEF Local
  <2>2. t \in Seq(Msg) /\ (Len(k.msgs) # 1 => Len(k.msgs) > 1)
    BY <1>3, <2>1, TailFacts
  <2>3. it \in Items \cup {0}
    BY <2>1, Zenon
  <2>4. QED
    BY <2>2, <2>3
<1>7. "loop" \in Pc
  BY DEF Pc
<1> HIDE DEF t, it
<1>4. /\ d \in Local /\ d.pc = "loop" /\ d.item = it /\ d.st = k.st
      /\ d.fd = k.fd /\ d.port = k.port /\ d.org = k.org /\ d.msgs = t
  BY <1>1, <1>6, <1>7, Zenon DEF Local
<1> HIDE DEF d
<1>5. QED
  BY <1>1, <1>2, <1>4, <1>6 DEF t, it

-----------------------------------------------------------------------------
(* The invariant.  at[c] is the descriptor connection c was accepted on,   *)
(* from[n] the connection that sent command n: values the state implies    *)
(* but no variable holds.                                                  *)

(* A command that came in by port p from connection org: of a kind that    *)
(* port takes, numbered, and sent by org.                                  *)
MsgOK(m, p, org, from) ==
  /\ p = "client" => m.cmd \in ClientKinds
  /\ p = "shell" => m.cmd \in {"SVR_INIT", "OTHER", "BAD"}
  /\ m.cmd \in {"LOGIN", "SVR_INIT"} => m.y \in YyIDs
  /\ m.cmd = "SVR_INIT" => m.n = 0
  /\ org = 0 => m = LogoutCmd
  /\ org # 0 /\ m.cmd # "SVR_INIT" => m.n \in 1 .. nmsg /\ from[m.n] = org

(* A buffer of commands, in the order of sending.                          *)
MsgsOK(s, p, org, from) ==
  /\ \A i \in 1 .. Len(s) : MsgOK(s[i], p, org, from)
  /\ \A i, j \in 1 .. Len(s) : i < j => s[i].n < s[j].n

(* All of s was sent before all of t.                                      *)
Before(s, t) == \A i \in 1 .. Len(s), j \in 1 .. Len(t) : s[i].n < t[j].n

(* A job, or the rest of one, is of the thread of its descriptor, and what *)
(* its connection has sent since comes after it.                           *)
WorkOK(x, w, at, from) ==
  /\ x.fd \in Fds /\ ThreadOf(x.fd) = w
  /\ x.msgs # <<>>
  /\ MsgsOK(x.msgs, x.port, x.org, from)
  /\ x.org = 0 => Len(x.msgs) = 1 /\ x.port = "client"
  /\ x.org # 0 => /\ x.org <= conns /\ at[x.org] = x.fd /\ x.port = port[x.org]
                  /\ Before(x.msgs, inbox[x.org])

(* Everything sent is accounted for: connections on their descriptors,     *)
(* unread input, queued jobs, and the data workers are at.                 *)
Mail(at, from) ==
  /\ \A fd \in Fds : open[fd] # 0 => open[fd] <= conns /\ at[open[fd]] = fd
  /\ \A c \in Conns : MsgsOK(inbox[c], port[c], c, from) /\ (c > conns => inbox[c] = <<>>)
  /\ \A w \in Workers : \A i \in 1 .. Len(jobs[w]) : WorkOK(jobs[w][i], w, at, from)
  /\ \A w \in Workers : wk[w].pc # "idle" => WorkOK(wk[w], w, at, from)

(* The jobs of one connection are in the order of sending.                 *)
Order ==
  \A w \in Workers : \A i \in 1 .. Len(jobs[w]) :
    /\ wk[w].pc # "idle" /\ wk[w].org = jobs[w][i].org /\ wk[w].org # 0
         => Before(wk[w].msgs, jobs[w][i].msgs)
    /\ \A j \in 1 .. Len(jobs[w]) :
         j < i /\ jobs[w][j].org = jobs[w][i].org /\ jobs[w][i].org # 0
           => Before(jobs[w][j].msgs, jobs[w][i].msgs)

(* A worker is within the handler of its first command.                    *)
Stage(w) ==
  /\ wk[w].pc = "idle" => wk[w] = Idle
  /\ wk[w].pc = "spin" => wk[w].item = 0
  /\ wk[w].pc \in LoginPc => wk[w].port = "client" /\ Cmd(w).cmd = "LOGIN" /\ wk[w].item # 0
  /\ wk[w].pc \in LogoutPc => wk[w].port = "client" /\ Cmd(w).cmd = "LOGOUT" /\ wk[w].item # 0
  /\ wk[w].pc \in UrlPc => wk[w].port = "client" /\ Cmd(w).cmd = "OPENURL" /\ wk[w].item # 0
  /\ wk[w].pc \in InitPc => wk[w].port = "shell" /\ Cmd(w).cmd = "SVR_INIT" /\ wk[w].item # 0
  /\ wk[w].pc = "loop" /\ wk[w].port = "shell" => wk[w].item = 0
  /\ wk[w].st # 0 => wk[w].pc \in {"route", "openurl", "exec"} /\ wk[w].st = Cmd(w).n

(* No session has the number of a command still to be processed.           *)
Unmade(s) == \A i \in 1 .. Len(s) : s[i].n # 0 => items[s[i].n].org = 0

(* No Item_data exists yet for a LOGIN that is not yet run.                *)
Fresh ==
  /\ \A c \in Conns : Unmade(inbox[c])
  /\ \A n \in Items : items[n].org <= conns /\ (n > nmsg => items[n].org = 0)
  /\ \A w \in Workers : \A i \in 1 .. Len(jobs[w]) : Unmade(jobs[w][i].msgs)
  /\ \A w \in Workers : wk[w].pc # "idle" =>
       /\ Unmade(Tail(wk[w].msgs))
       /\ wk[w].pc = "loop" /\ Cmd(w).n # 0 => items[Cmd(w).n].org = 0

(* A session is found only under the descriptor it was made on.            *)
Refs(at) ==
  /\ \A fd \in Fds : fdmap[fd] # 0 =>
       /\ items[fdmap[fd]].org # 0 /\ at[items[fdmap[fd]].org] = fd
       /\ ~items[fdmap[fd]].gone
  /\ \A y \in YyIDs : usermap[y] # 0 => items[usermap[y]].org # 0
  /\ \A w \in Workers : wk[w].item # 0 =>
       /\ items[wk[w].item].org # 0
       /\ wk[w].port = "client" => at[items[wk[w].item].org] = wk[w].fd

(* A session without a yyID is one whose LOGIN is under way.               *)
Accounts ==
  \A i \in Items : items[i].org # 0 /\ items[i].yyID = 0 =>
    \E w \in Workers : wk[w].pc = "adduser" /\ wk[w].item = i

(* openURL is called for a shell client that has registered.               *)
Routed == \A w \in Workers : wk[w].pc = "openurl" => items[wk[w].item].shell # 0

(* The inductive invariant.  at[c] is the descriptor connection c was      *)
(* accepted on, from[n] the connection command n came from.                *)
Core(at, from) ==
  /\ TypeOK
  /\ (\A w \in Workers : Stage(w)) /\ Routed
  /\ Mail(at, from) /\ Order /\ Fresh /\ Refs(at) /\ Accounts

-----------------------------------------------------------------------------
(* What a worker's step leaves of its job: all of it, or the commands      *)
(* after the first.                                                        *)
Others(w) ==
  /\ wk' \in [Workers -> Local]
  /\ \A v \in Workers \ {w} : wk'[v] = wk[v]

(* Worker w stays with its command.                                        *)
Stays(w) ==
  /\ Others(w)
  /\ wk'[w].pc \notin {"idle", "loop"}
  /\ wk'[w].fd = wk[w].fd /\ wk'[w].port = wk[w].port
  /\ wk'[w].org = wk[w].org /\ wk'[w].msgs = wk[w].msgs

(* Worker w is through with its command.                                   *)
Drops(w) ==
  /\ Others(w)
  /\ \/ wk'[w] = Idle
     \/ /\ Len(wk[w].msgs) > 1
        /\ wk'[w].pc = "loop" /\ wk'[w].msgs = Tail(wk[w].msgs)
        /\ wk'[w].fd = wk[w].fd /\ wk'[w].port = wk[w].port
        /\ wk'[w].org = wk[w].org /\ wk'[w].st = wk[w].st
        /\ wk'[w].item = IF wk[w].port = "client" THEN wk[w].item ELSE 0

(* The locals and the Item_data, by the names of their types.              *)
LEMMA TypeLocal ==
  ASSUME TypeOK
  PROVE  wk \in [Workers -> Local] /\ items \in [Items -> Item]
  BY Zenon DEF TypeOK, Local, Item

(* More than one command: one is left.                                     *)
LEMMA TailLeft ==
  ASSUME NEW S, NEW s \in Seq(S), Len(s) > 1
  PROVE  Tail(s) # <<>>
<1>1. s # <<>>
  OBVIOUS
<1>2. Len(s) \in Nat /\ Tail(s) \in Seq(S) /\ Len(Tail(s)) = Len(s) - 1
  BY <1>1, TailFacts
<1>3. Len(Tail(s)) # 0
  BY <1>2
<1>4. QED
  BY <1>2, <1>3, EmptySeq

(* The commands left are as good as the ones there were.                   *)
LEMMA MsgsTail ==
  ASSUME NEW s \in Seq(Msg), Len(s) > 1, NEW p, NEW c, NEW from, MsgsOK(s, p, c, from)
  PROVE  MsgsOK(Tail(s), p, c, from) /\ Tail(s) \in Seq(Msg) /\ Tail(s) # <<>>
<1>1. s # <<>>
  OBVIOUS
<1>2. /\ Len(s) \in Nat /\ Tail(s) \in Seq(Msg) /\ Len(Tail(s)) = Len(s) - 1
      /\ \A i \in 1 .. Len(s) - 1 : Tail(s)[i] = s[i + 1]
  BY <1>1, TailFacts
<1> DEFINE t == Tail(s)
<1> HIDE DEF t
<1>3. t # <<>>
  BY TailLeft DEF t
<1>4. \A i \in 1 .. Len(t) : t[i] = s[i + 1] /\ i + 1 \in 1 .. Len(s)
  BY <1>2 DEF t
<1>5. \A i \in 1 .. Len(t) : MsgOK(t[i], p, c, from)
  BY <1>4 DEF MsgsOK
<1>6. \A i, j \in 1 .. Len(t) : i < j => t[i].n < t[j].n
  <2>1. ASSUME NEW i \in 1 .. Len(t), NEW j \in 1 .. Len(t), i < j
        PROVE  t[i].n < t[j].n
    BY <1>4, <2>1 DEF MsgsOK
  <2>2. QED
    BY <2>1
<1>7. QED
  BY <1>2, <1>3, <1>5, <1>6 DEF t, MsgsOK

(* The commands left are older than what the commands were older than.     *)
LEMMA BeforeTail ==
  ASSUME NEW s \in Seq(Msg), s # <<>>, NEW t \in Seq(Msg), Before(s, t)
  PROVE  Before(Tail(s), t)
<1>2. /\ Len(s) \in Nat /\ Tail(s) \in Seq(Msg) /\ Len(Tail(s)) = Len(s) - 1
      /\ \A i \in 1 .. Len(s) - 1 : Tail(s)[i] = s[i + 1]
  BY TailFacts
<1>4. \A i \in 1 .. Len(Tail(s)) : Tail(s)[i] = s[i + 1] /\ i + 1 \in 1 .. Len(s)
  BY <1>2
<1>5. QED
  BY <1>4 DEF Before

(* No Item_data is named after the commands left.                          *)
LEMMA UnmadeTail ==
  ASSUME NEW s \in Seq(Msg), s # <<>>, Unmade(s)
  PROVE  Unmade(Tail(s)) /\ (Head(s).n # 0 => items[Head(s).n].org = 0)
<1>2. /\ Len(s) \in Nat /\ Tail(s) \in Seq(Msg) /\ Len(Tail(s)) = Len(s) - 1
      /\ \A i \in 1 .. Len(s) - 1 : Tail(s)[i] = s[i + 1]
      /\ Head(s) = s[1] /\ Len(s) >= 1
  BY TailFacts
<1>4. \A i \in 1 .. Len(Tail(s)) : Tail(s)[i] = s[i + 1] /\ i + 1 \in 1 .. Len(s)
  BY <1>2
<1>5. 1 \in 1 .. Len(s)
  BY <1>2
<1>6. QED
  BY <1>2, <1>4, <1>5 DEF Unmade

(* A worker that keeps its command or goes on to the next still works on   *)
(* data that is accounted for.                                             *)
LEMMA KeepWork ==
  ASSUME NEW at, NEW from, NEW w \in Workers, TypeOK, Mail(at, from),
         UNCHANGED <<open, port, inbox, conns, nmsg, jobs>>,
         wk[w].pc # "idle", Stays(w) \/ Drops(w), wk'[w].pc # "idle"
  PROVE  WorkOK(wk[w], w, at, from)' /\ wk'[w].org = wk[w].org
         /\ wk'[w].msgs \in {wk[w].msgs, Tail(wk[w].msgs)}
<1>1. WorkOK(wk[w], w, at, from)
  BY DEF Mail
<1>2. wk[w].msgs \in Seq(Msg) /\ inbox \in [Conns -> Seq(Msg)] /\ wk[w].org \in 0 .. MaxConns
  BY TypeLocal DEF Local, TypeOK
<1>3. CASE Stays(w)
  <2>1. wk'[w].fd = wk[w].fd /\ wk'[w].port = wk[w].port
        /\ wk'[w].org = wk[w].org /\ wk'[w].msgs = wk[w].msgs
    BY <1>3 DEF Stays
  <2>2. QED
    BY <1>1, <2>1 DEF WorkOK, MsgsOK, MsgOK, Before, ThreadOf
<1>4. CASE Drops(w)
  <2>1. /\ Len(wk[w].msgs) > 1 /\ wk'[w].msgs = Tail(wk[w].msgs)
        /\ wk'[w].fd = wk[w].fd /\ wk'[w].port = wk[w].port /\ wk'[w].org = wk[w].org
    BY <1>4 DEF Drops, Idle
  <2>2. MsgsOK(Tail(wk[w].msgs), wk[w].port, wk[w].org, from) /\ Tail(wk[w].msgs) # <<>>
    BY <1>1, <1>2, <2>1, MsgsTail DEF WorkOK
  <2>3. wk[w].org # 0
    <3>1. ~(1 > 1)
      OBVIOUS
    <3>2. QED
      BY <1>1, <2>1, <3>1, Zenon DEF WorkOK
  <2>4. Before(Tail(wk[w].msgs), inbox[wk[w].org])
    <3>1. wk[w].org \in Conns
      BY <1>2, <2>3, BoundsAssumption DEF Conns
    <3>2. Before(wk[w].msgs, inbox[wk[w].org]) /\ wk[w].msgs # <<>>
      BY <1>1, <2>3 DEF WorkOK
    <3>3. QED
      BY <1>2, <3>1, <3>2, BeforeTail
  <2>5. WorkOK(wk[w], w, at, from)'
    BY <1>1, <2>1, <2>2, <2>3, <2>4 DEF WorkOK, MsgsOK, MsgOK, Before, ThreadOf
  <2>6. QED
    BY <2>1, <2>5
<1>5. QED
  BY <1>3, <1>4

(* ... so all data on its way stays accounted for ...                      *)
LEMMA KeepMail ==
  ASSUME NEW at, NEW from, NEW w \in Workers, TypeOK, Mail(at, from),
         UNCHANGED <<open, port, inbox, conns, nmsg, jobs>>,
         wk[w].pc # "idle", Stays(w) \/ Drops(w)
  PROVE  Mail(at, from)'
<1>1. \A v \in Workers \ {w} : wk'[v] = wk[v]
  BY DEF Stays, Drops, Others
<1>2. ASSUME NEW v \in Workers, wk'[v].pc # "idle"
      PROVE  WorkOK(wk[v], v, at, from)'
  <2>1. CASE v = w
    BY <1>2, <2>1, KeepWork
  <2>2. CASE v # w
    <3>1. wk'[v] = wk[v] /\ WorkOK(wk[v], v, at, from)
      BY <1>1, <1>2, <2>2 DEF Mail
    <3>2. QED
      BY <3>1 DEF WorkOK, MsgsOK, MsgOK, Before, ThreadOf
  <2>3. QED
    BY <2>1, <2>2
<1>3. ASSUME NEW v \in Workers, NEW i \in 1 .. Len(jobs[v])
      PROVE  WorkOK(jobs[v][i], v, at, from)'
  <2>1. WorkOK(jobs[v][i], v, at, from)
    BY DEF Mail
  <2>2. QED
    BY <2>1 DEF WorkOK, MsgsOK, MsgOK, Before, ThreadOf
<1>4. ASSUME NEW c \in Conns
      PROVE  (MsgsOK(inbox[c], port[c], c, from) /\ (c > conns => inbox[c] = <<>>))'
  <2>1. MsgsOK(inbox[c], port[c], c, from) /\ (c > conns => inbox[c] = <<>>)
    BY DEF Mail
  <2>2. QED
    BY <2>1 DEF MsgsOK, MsgOK
<1>5. \A fd \in Fds : (open[fd] # 0 => open[fd] <= conns /\ at[open[fd]] = fd)'
  BY DEF Mail
<1>6. QED
  BY <1>2, <1>3, <1>4, <1>5 DEF Mail

(* ... in the order it was sent ...                                        *)
LEMMA KeepOrder ==
  ASSUME NEW at, NEW from, NEW w \in Workers, TypeOK, Mail(at, from), Order,
         UNCHANGED <<open, port, inbox, conns, nmsg, jobs>>,
         wk[w].pc # "idle", Stays(w) \/ Drops(w)
  PROVE  Order'
<1>1. \A v \in Workers \ {w} : wk'[v] = wk[v]
  BY DEF Stays, Drops, Others
<1>0. ASSUME NEW v \in Workers, NEW i \in 1 .. Len(jobs[v]), NEW j \in 1 .. Len(jobs[v])
      PROVE  (j < i /\ jobs[v][j].org = jobs[v][i].org /\ jobs[v][i].org # 0
                => Before(jobs[v][j].msgs, jobs[v][i].msgs))'
  <2>1. j < i /\ jobs[v][j].org = jobs[v][i].org /\ jobs[v][i].org # 0
          => Before(jobs[v][j].msgs, jobs[v][i].msgs)
    BY DEF Order
  <2>2. QED
    BY <2>1 DEF Before
<1> SUFFICES ASSUME NEW v \in Workers, NEW i \in 1 .. Len(jobs[v])
             PROVE  (wk[v].pc # "idle" /\ wk[v].org = jobs[v][i].org /\ wk[v].org # 0
                       => Before(wk[v].msgs, jobs[v][i].msgs))'
  BY <1>0 DEF Order
<1>2. wk[v].pc # "idle" /\ wk[v].org = jobs[v][i].org /\ wk[v].org # 0
        => Before(wk[v].msgs, jobs[v][i].msgs)
  BY DEF Order
<1>3. CASE v = w
  <2> HAVE wk'[v].pc # "idle" /\ wk'[v].org = jobs'[v][i].org /\ wk'[v].org # 0
  <2>1. wk'[w].org = wk[w].org /\ wk'[w].msgs \in {wk[w].msgs, Tail(wk[w].msgs)}
    BY <1>3, KeepWork
  <2>2. Before(wk[w].msgs, jobs[w][i].msgs)
    BY <1>2, <1>3, <2>1
  <2>3. wk[w].msgs \in Seq(Msg) /\ wk[w].msgs # <<>>
    BY TypeLocal DEF Local, Mail, WorkOK
  <2>4. jobs[w][i].msgs \in Seq(Msg)
    <3>1. jobs[w] \in Seq(Job)
      BY DEF TypeOK
    <3>2. jobs[w][i] \in Job
      BY <1>3, <3>1, ElementOfSeq
    <3>3. QED
      BY <3>2 DEF Job
  <2>5. Before(Tail(wk[w].msgs), jobs[w][i].msgs)
    BY <2>2, <2>3, <2>4, BeforeTail
  <2>6. QED
    BY <1>3, <2>1, <2>2, <2>5 DEF Before
<1>4. CASE v # w
  BY <1>1, <1>2, <1>4 DEF Before
<1>5. QED
  BY <1>3, <1>4

(* No session is made, and an account stays filled in.                     *)
SameOrgs ==
  /\ items' \in [Items -> Item]
  /\ \A i \in Items : /\ items'[i].org = items[i].org
                      /\ items[i].yyID # 0 => items'[i].yyID # 0
                      /\ items[i].shell # 0 => items'[i].shell # 0

(* ... and makes no Item_data.                                             *)
LEMMA KeepUnmade ==
  ASSUME SameOrgs, NEW s \in Seq(Msg), Unmade(s)
  PROVE  \A i \in 1 .. Len(s) : s[i].n # 0 => items'[s[i].n].org = 0
<1>1. ASSUME NEW i \in 1 .. Len(s)
      PROVE  s[i].n \in 0 .. MaxMsgs
  <2>1. s[i] \in Msg
    BY ElementOfSeq
  <2>2. QED
    BY <2>1 DEF Msg
<1>2. \A n \in 0 .. MaxMsgs : n # 0 => n \in Items
  BY BoundsAssumption DEF Items
<1>3. QED
  BY <1>1, <1>2 DEF SameOrgs, Unmade

(* A queued job and its commands have their types.                         *)
LEMMA MsgsOfJob ==
  ASSUME TypeOK, NEW w \in Workers, NEW i \in 1 .. Len(jobs[w])
  PROVE  jobs[w][i] \in Job /\ jobs[w][i].msgs \in Seq(Msg)
<1>1. jobs[w] \in Seq(Job)
  BY DEF TypeOK
<1>2. jobs[w][i] \in Job
  BY <1>1, ElementOfSeq
<1>3. QED
  BY <1>2 DEF Job

(* What is known of a worker that is at a command.                         *)
LEMMA AtWork ==
  ASSUME NEW at, NEW from, NEW w \in Workers, TypeOK, Mail(at, from), wk[w].pc # "idle"
  PROVE  /\ wk[w] \in Local /\ wk[w].fd \in Fds /\ ThreadOf(wk[w].fd) = w
         /\ wk[w].msgs \in Seq(Msg) /\ wk[w].msgs # <<>>
         /\ Cmd(w) \in Msg /\ Cmd(w).n \in 0 .. MaxMsgs
         /\ Cmd(w).cmd \in {"LOGIN", "SVR_INIT"} => Cmd(w).y \in YyIDs
         /\ wk[w].org \in 0 .. MaxConns
         /\ wk[w].org = 0 => Cmd(w) = LogoutCmd
         /\ wk[w].org # 0 => /\ wk[w].org <= conns /\ at[wk[w].org] = wk[w].fd
                             /\ wk[w].port = port[wk[w].org]
                             /\ Before(wk[w].msgs, inbox[wk[w].org])
                             /\ Cmd(w).cmd # "SVR_INIT" => Cmd(w).n \in 1 .. nmsg /\ from[Cmd(w).n] = wk[w].org
<1>1. WorkOK(wk[w], w, at, from)
  BY DEF Mail
<1>2. wk[w] \in Local
  BY TypeLocal
<1>3. wk[w].msgs \in Seq(Msg) /\ wk[w].org \in 0 .. MaxConns
  BY <1>2 DEF Local
<1>4. wk[w].msgs # <<>>
  BY <1>1 DEF WorkOK
<1>5. /\ Cmd(w) \in Msg /\ Cmd(w) = wk[w].msgs[1] /\ 1 \in 1 .. Len(wk[w].msgs)
  BY <1>3, <1>4, TailFacts DEF Cmd
<1>6. Cmd(w).n \in 0 .. MaxMsgs
  BY <1>5 DEF Msg
<1>7. MsgOK(Cmd(w), wk[w].port, wk[w].org, from)
  BY <1>1, <1>5 DEF WorkOK, MsgsOK
<1>8. QED
  BY <1>1, <1>2, <1>3, <1>4, <1>5, <1>6, <1>7 DEF WorkOK, MsgOK

(* As long as no session is made, the commands not yet run name none.      *)
LEMMA KeepFresh ==
  ASSUME NEW at, NEW from, NEW w \in Workers, TypeOK, Mail(at, from), Fresh, SameOrgs,
         UNCHANGED <<open, port, inbox, conns, nmsg, jobs>>,
         wk[w].pc # "idle", Stays(w) \/ Drops(w)
  PROVE  Fresh'
<1>1. \A v \in Workers \ {w} : wk'[v] = wk[v]
  BY DEF Stays, Drops, Others
<1>2. ASSUME NEW c \in Conns
      PROVE  Unmade(inbox[c])'
  <2>1. inbox[c] \in Seq(Msg) /\ Unmade(inbox[c])
    BY DEF TypeOK, Fresh
  <2>2. QED
    BY <2>1, KeepUnmade DEF Unmade
<1>3. \A n \in Items : items'[n].org <= conns' /\ (n > nmsg' => items'[n].org = 0)
  BY DEF Fresh, SameOrgs
<1>4. ASSUME NEW v \in Workers, NEW i \in 1 .. Len(jobs[v])
      PROVE  Unmade(jobs[v][i].msgs)'
  <2>1. jobs[v][i].msgs \in Seq(Msg) /\ Unmade(jobs[v][i].msgs)
    BY MsgsOfJob DEF Fresh
  <2>2. QED
    BY <2>1, KeepUnmade DEF Unmade
<1>5. ASSUME NEW v \in Workers, wk'[v].pc # "idle"
      PROVE  (/\ Unmade(Tail(wk[v].msgs))
              /\ wk[v].pc = "loop" /\ Cmd(v).n # 0 => items[Cmd(v).n].org = 0)'
  <2>1. \A n \in 0 .. MaxMsgs : n # 0 => n \in Items
    BY BoundsAssumption DEF Items
  <2>2. CASE v # w
    <3>1. wk'[v] = wk[v]
      BY <1>1, <2>2
    <3>2. /\ wk[v].msgs \in Seq(Msg) /\ wk[v].msgs # <<>> /\ Unmade(Tail(wk[v].msgs))
          /\ Cmd(v).n \in 0 .. MaxMsgs
          /\ wk[v].pc = "loop" /\ Cmd(v).n # 0 => items[Cmd(v).n].org = 0
      BY <1>5, <3>1, AtWork DEF Fresh
    <3>3. Tail(wk[v].msgs) \in Seq(Msg)
      BY <3>2, TailFacts
    <3>4. Unmade(Tail(wk[v].msgs))'
      BY <3>1, <3>2, <3>3, KeepUnmade DEF Unmade
    <3>5. Cmd(v)' = Cmd(v)
      BY <3>1 DEF Cmd
    <3>6. QED
      BY <2>1, <3>1, <3>2, <3>4, <3>5 DEF SameOrgs
  <2>3. CASE v = w /\ Stays(w)
    <3>1. wk'[w].msgs = wk[w].msgs /\ wk'[w].pc # "loop"
      BY <2>3 DEF Stays
    <3>2. /\ wk[w].msgs \in Seq(Msg) /\ wk[w].msgs # <<>> /\ Unmade(Tail(wk[w].msgs))
      BY <3>1, AtWork DEF Fresh
    <3>3. Tail(wk[w].msgs) \in Seq(Msg)
      BY <3>2, TailFacts
    <3>4. Unmade(Tail(wk[w].msgs))'
      BY <3>1, <3>2, <3>3, KeepUnmade DEF Unmade
    <3>5. QED
      BY <2>3, <3>1, <3>4
  <2>4. CASE v = w /\ Drops(w)
    <3>1. wk'[w].msgs = Tail(wk[w].msgs) /\ Len(wk[w].msgs) > 1
      BY <1>5, <2>4 DEF Drops, Idle
    <3>2. /\ wk[w].msgs \in Seq(Msg) /\ wk[w].msgs # <<>> /\ Unmade(Tail(wk[w].msgs))
      BY <3>1, AtWork DEF Fresh
    <3> DEFINE t == Tail(wk[w].msgs)
    <3>3. t \in Seq(Msg) /\ t # <<>>
      BY <3>1, <3>2, TailFacts, TailLeft
    <3> HIDE DEF t
    <3>4. Unmade(t)
      BY <3>2 DEF t
    <3>5. Tail(t) \in Seq(Msg) /\ Head(t) \in Msg
      BY <3>3, TailFacts
    <3>6. Unmade(Tail(t)) /\ (Head(t).n # 0 => items[Head(t).n].org = 0)
      BY <3>3, <3>4, UnmadeTail
    <3>7. Head(t).n \in 0 .. MaxMsgs
      BY <3>5 DEF Msg
    <3>8. Head(t).n # 0 => items'[Head(t).n].org = 0
      BY <2>1, <3>6, <3>7 DEF SameOrgs
    <3>9. \A i \in 1 .. Len(Tail(t)) : Tail(t)[i].n # 0 => items'[Tail(t)[i].n].org = 0
      BY <3>5, <3>6, KeepUnmade
    <3>10. wk'[w].msgs = t
      BY <3>1 DEF t
    <3>11. Unmade(Tail(wk[w].msgs))'
      BY <3>9, <3>10 DEF Unmade
    <3>12. Cmd(w)' = Head(t)
      BY <3>10 DEF Cmd
    <3>13. QED
      BY <2>4, <3>8, <3>11, <3>12
  <2>5. QED
    BY <2>2, <2>3, <2>4
<1>6. QED
  BY <1>2, <1>3, <1>4, <1>5 DEF Fresh

(* The other workers stay where they are.                                  *)
LEMMA KeepStage ==
  ASSUME NEW w \in Workers, \A v \in Workers : Stage(v), Others(w), Stage(w)'
  PROVE  \A v \in Workers : Stage(v)'
<1> SUFFICES ASSUME NEW v \in Workers, v # w
             PROVE  Stage(v)'
  OBVIOUS
<1>1. wk'[v] = wk[v] /\ Stage(v)
  BY DEF Others
<1>2. QED
  BY <1>1, Zenon DEF Stage, Cmd

(* A worker that goes on to its next command is at the start of one.       *)
LEMMA DropStage ==
  ASSUME NEW w \in Workers, Drops(w), wk[w].st = 0
  PROVE  Stage(w)'
<1>1. CASE wk'[w] = Idle
  BY <1>1 DEF Stage, Idle, LoginPc, LogoutPc, UrlPc, InitPc
<1>2. CASE /\ wk'[w].pc = "loop" /\ wk'[w].port = wk[w].port /\ wk'[w].st = wk[w].st
           /\ wk'[w].item = IF wk[w].port = "client" THEN wk[w].item ELSE 0
  BY <1>2 DEF Stage, Idle, LoginPc, LogoutPc, UrlPc, InitPc
<1>3. QED
  BY <1>1, <1>2 DEF Drops

(* A step that neither makes nor ends a session.                           *)
Steady(w) ==
  /\ SameOrgs
  /\ \A i \in Items : items'[i].gone = items[i].gone
  /\ fdmap' = fdmap
  /\ \A y \in YyIDs : usermap'[y] \in {usermap[y], 0, wk[w].item}
  /\ wk'[w].item # 0 =>
       \/ wk'[w].item = wk[w].item /\ wk'[w].port = wk[w].port /\ wk'[w].fd = wk[w].fd
       \/ wk'[w].port = "shell" /\ \E y \in YyIDs : wk'[w].item = usermap[y]
  /\ wk[w].pc = "adduser" => items'[wk[w].item].yyID # 0
  /\ wk'[w].pc = "openurl" => items'[wk'[w].item].shell # 0

(* The maps and the workers still refer to sessions that exist.            *)
LEMMA KeepRefs ==
  ASSUME NEW at, NEW w \in Workers, TypeOK, Refs(at), Others(w), Steady(w)
  PROVE  Refs(at)'
<1>1. /\ \A v \in Workers : wk[v].item # 0 => wk[v].item \in Items
      /\ \A fd \in Fds : fdmap[fd] # 0 => fdmap[fd] \in Items
      /\ \A y \in YyIDs : usermap[y] # 0 => usermap[y] \in Items
  BY TypeLocal DEF Local, TypeOK
<1>2. \A i \in Items : items'[i].org = items[i].org /\ items'[i].gone = items[i].gone
  BY DEF Steady, SameOrgs
<1>3. \A fd \in Fds : fdmap'[fd] # 0 =>
       /\ items'[fdmap'[fd]].org # 0 /\ at[items'[fdmap'[fd]].org] = fd
       /\ ~items'[fdmap'[fd]].gone
  BY <1>1, <1>2 DEF Steady, Refs
<1>4. \A y \in YyIDs : usermap'[y] # 0 => items'[usermap'[y]].org # 0
  BY <1>1, <1>2 DEF Steady, Refs
<1>5. ASSUME NEW v \in Workers, wk'[v].item # 0
      PROVE  /\ items'[wk'[v].item].org # 0
             /\ wk'[v].port = "client" => at[items'[wk'[v].item].org] = wk'[v].fd
  <2>1. CASE v # w
    BY <1>1, <1>2, <1>5, <2>1 DEF Refs, Others
  <2>2. CASE v = w /\ wk'[w].item = wk[w].item /\ wk'[w].port = wk[w].port /\ wk'[w].fd = wk[w].fd
    BY <1>1, <1>2, <1>5, <2>2 DEF Refs
  <2>3. CASE v = w /\ wk'[w].port = "shell" /\ \E y \in YyIDs : wk'[w].item = usermap[y]
    BY <1>1, <1>2, <1>5, <2>3 DEF Refs
  <2>4. QED
    BY <1>5, <2>1, <2>2, <2>3 DEF Steady
<1>6. QED
  BY <1>3, <1>4, <1>5 DEF Refs

(* A session lacks its account only while its worker is between add_state  *)
(* and the account fields.                                                 *)
LEMMA KeepAccounts ==
  ASSUME NEW w \in Workers, Accounts, Others(w), SameOrgs,
         wk[w].pc = "adduser" => items'[wk[w].item].yyID # 0
  PROVE  Accounts'
<1> SUFFICES ASSUME NEW i \in Items, items'[i].org # 0, items'[i].yyID = 0
             PROVE  \E v \in Workers : wk'[v].pc = "adduser" /\ wk'[v].item = i
  BY DEF Accounts
<1>1. items[i].org # 0 /\ items[i].yyID = 0
  BY DEF SameOrgs
<1>2. PICK v \in Workers : wk[v].pc = "adduser" /\ wk[v].item = i
  BY <1>1 DEF Accounts
<1>3. v # w
  BY <1>2
<1>4. QED
  BY <1>2, <1>3 DEF Others

(* A worker sent to openURL has a shell client to talk to: nothing resets  *)
(* shellClient_fd.                                                         *)
LEMMA KeepRouted ==
  ASSUME NEW w \in Workers, TypeOK, \A v \in Workers : Stage(v), Routed, Others(w), SameOrgs,
         wk'[w].pc = "openurl" => items'[wk'[w].item].shell # 0
  PROVE  Routed'
<1> SUFFICES ASSUME NEW v \in Workers, wk'[v].pc = "openurl"
             PROVE  items'[wk'[v].item].shell # 0
  BY DEF Routed
<1>1. CASE v = w
  BY <1>1
<1>2. CASE v # w
  <2>1. wk'[v] = wk[v]
    BY <1>2 DEF Others
  <2>2. wk[v].item \in Items /\ items[wk[v].item].shell # 0
    BY <2>1, TypeLocal DEF Stage, UrlPc, Local, Routed
  <2>3. QED
    BY <2>1, <2>2 DEF SameOrgs
<1>3. QED
  BY <1>1, <1>2

(* A step of a worker leaves the state of the event thread alone.          *)
LEMMA KeepType ==
  ASSUME NEW w \in Workers, TypeOK, UNCHANGED workerFrame, Others(w),
         items' \in [Items -> Item], fdmap' \in [Fds -> Items \cup {0}],
         usermap' \in [YyIDs -> Items \cup {0}], outq' \in Seq(Out), shells' \in Seq(YyIDs)
  PROVE  TypeOK'
<1>1. wk' \in [Workers -> Local]
  BY DEF Others
<1>2. /\ open' \in [Fds -> 0 .. MaxConns]
      /\ port' \in [Conns -> {"client", "shell"}]
      /\ inbox' \in [Conns -> Seq(Msg)]
      /\ fin' \subseteq Conns
      /\ conns' \in 0 .. MaxConns
      /\ nmsg' \in 0 .. MaxMsgs
      /\ jobs' \in [Workers -> Seq(Job)]
      /\ wbuf' \in [Fds -> Seq(Out)]
      /\ got' \in [Conns -> Seq(Out)]
      /\ sql' \in [Workers -> BOOLEAN]
      /\ rude' \subseteq Conns
      /\ clean' \subseteq Conns
  BY Zenon DEF TypeOK, workerFrame, netVars
<1>3. QED
  BY <1>1, <1>2, Zenon DEF TypeOK, Local, Item

(* A step of a worker that makes and ends no session keeps the whole       *)
(* invariant.                                                              *)
LEMMA KeepCore ==
  ASSUME NEW at, NEW from, NEW w \in Workers, Core(at, from), UNCHANGED workerFrame,
         wk[w].pc # "idle", Stays(w) \/ Drops(w), Steady(w), Stage(w)',
         usermap' \in [YyIDs -> Items \cup {0}], outq' \in Seq(Out), shells' \in Seq(YyIDs)
  PROVE  Core(at, from)'
<1>1. Others(w) /\ UNCHANGED <<open, port, inbox, conns, nmsg, jobs>>
  BY DEF Stays, Drops, workerFrame, netVars
<1>2. TypeOK'
  <2>1. items' \in [Items -> Item] /\ fdmap' \in [Fds -> Items \cup {0}]
    BY DEF Steady, SameOrgs, Core, TypeOK
  <2>2. QED
    BY <1>1, <2>1, KeepType DEF Core
<1>3. (\A v \in Workers : Stage(v)') /\ Routed'
  BY <1>1, KeepStage, KeepRouted DEF Core, Steady
<1>4. Mail(at, from)' /\ Order'
  BY <1>1, KeepMail, KeepOrder DEF Core
<1>5. Fresh'
  BY <1>1, KeepFresh DEF Core, Steady
<1>6. Refs(at)' /\ Accounts'
  BY <1>1, KeepRefs, KeepAccounts DEF Core, Steady
<1>7. QED
  BY <1>2, <1>3, <1>4, <1>5, <1>6 DEF Core

-----------------------------------------------------------------------------
(* What the actions of a worker do, field by field.                        *)

(* A worker that moves within a command keeps the command.                 *)
LEMMA MovesStay ==
  ASSUME NEW w \in Workers, NEW pc, NEW item, NEW st, NEW succ,
         Moves(w, pc, item, st, succ), pc \notin {"idle", "loop"}
  PROVE  Stays(w) /\ Cmd(w)' = Cmd(w)
  BY Zenon DEF Moves, Stays, Others, Cmd

(* NextCmd goes on to the next command.                                    *)
LEMMA NextDrops ==
  ASSUME NEW w \in Workers, wk \in [Workers -> Local], NextCmd(w), wk[w].msgs # <<>>
  PROVE  Drops(w)
  BY NextShape, Zenon DEF Drops, Others

(* Dropping the rest of the buffer ends the job.                           *)
LEMMA IdleDrops ==
  ASSUME NEW w \in Workers, wk \in [Workers -> Local], wk' = [wk EXCEPT ![w] = Idle]
  PROVE  Drops(w)
<1>1. Idle \in Local
  BY IdleLocal
<1>2. Others(w) /\ wk'[w] = Idle
  BY <1>1 DEF Others
<1>3. QED
  BY <1>2 DEF Drops

(* A step that touches neither map and keeps the session of its worker.    *)
LEMMA Quiet ==
  ASSUME NEW w \in Workers, TypeOK, SameOrgs, \A i \in Items : items'[i].gone = items[i].gone,
         UNCHANGED <<fdmap, usermap>>, Stays(w) \/ Drops(w), wk[w].pc # "adduser",
         Stays(w) => wk'[w].item = wk[w].item /\ wk'[w].pc # "openurl"
  PROVE  Steady(w)
<1>1. wk'[w].item # 0 =>
        wk'[w].item = wk[w].item /\ wk'[w].port = wk[w].port /\ wk'[w].fd = wk[w].fd
  BY DEF Stays, Drops, Idle
<1>2. wk'[w].pc # "openurl"
  BY DEF Drops, Idle
<1>3. QED
  BY <1>1, <1>2 DEF Steady

(* A step that leaves all Item_data alone.                                 *)
LEMMA SameItems ==
  ASSUME TypeOK, UNCHANGED items
  PROVE  SameOrgs /\ \A i \in Items : items'[i].gone = items[i].gone
  BY TypeLocal DEF SameOrgs

(* data_send appends one buffer of the right type.                         *)
LEMMA SendType ==
  ASSUME TypeOK, NEW w \in Workers, NEW fd \in Fds, NEW kind \in OutKinds,
         NEW n \in 0 .. MaxMsgs, Send(w, fd, kind, n)
  PROVE  outq' \in Seq(Out)
<1> DEFINE b == [fd |-> fd, kind |-> kind, n |-> n, org |-> wk[w].org]
<1>1. wk[w].org \in 0 .. MaxConns
  BY TypeLocal DEF Local
<1>2. b \in Out
  BY <1>1 DEF Out
<1>3. outq' = Append(outq, b) /\ outq \in Seq(Out)
  BY DEF Send, TypeOK
<1> HIDE DEF b
<1>4. QED
  BY <1>2, <1>3, AppendFacts

(* A worker at a command of its own: its session exists, and its stage.    *)
LEMMA Known ==
  ASSUME NEW at, NEW from, NEW w \in Workers, Core(at, from), wk[w].pc # "idle"
  PROVE  /\ TypeOK /\ wk \in [Workers -> Local] /\ items \in [Items -> Item]
         /\ wk[w] \in Local /\ wk[w].fd \in Fds /\ wk[w].msgs # <<>>
         /\ Cmd(w).n \in 0 .. MaxMsgs
         /\ wk[w].item \in Items \cup {0} /\ wk[w].st \in 0 .. MaxMsgs
         /\ wk[w].succ \in BOOLEAN /\ wk[w].org \in 0 .. MaxConns
         /\ Stage(w)
         /\ wk[w].pc \notin {"route", "openurl", "exec"} => wk[w].st = 0
         /\ Cmd(w).cmd \in {"LOGIN", "SVR_INIT"} => Cmd(w).y \in YyIDs
         /\ usermap \in [YyIDs -> Items \cup {0}] /\ outq \in Seq(Out) /\ shells \in Seq(YyIDs)
<1>1. TypeOK /\ Mail(at, from) /\ Stage(w)
  BY DEF Core
<1>2. wk \in [Workers -> Local] /\ items \in [Items -> Item] /\ wk[w] \in Local
  BY <1>1, TypeLocal
<1>3. wk[w].fd \in Fds /\ wk[w].msgs # <<>> /\ Cmd(w).n \in 0 .. MaxMsgs
      /\ (Cmd(w).cmd \in {"LOGIN", "SVR_INIT"} => Cmd(w).y \in YyIDs)
  BY <1>1, AtWork
<1>4. /\ wk[w].item \in Items \cup {0} /\ wk[w].st \in 0 .. MaxMsgs
      /\ wk[w].succ \in BOOLEAN /\ wk[w].org \in 0 .. MaxConns
  BY <1>2 DEF Local
<1>5. wk[w].pc \notin {"route", "openurl", "exec"} => wk[w].st = 0
  BY <1>1 DEF Stage
<1>6. usermap \in [YyIDs -> Items \cup {0}] /\ outq \in Seq(Out) /\ shells \in Seq(YyIDs)
  BY <1>1 DEF TypeOK
<1>7. QED
  BY <1>1, <1>2, <1>3, <1>4, <1>5, <1>6

(* NotLogin.                                                               *)
LEMMA NotLoginCore ==
  ASSUME NEW at, NEW from, NEW w \in Workers, Core(at, from), NotLogin(w)
  PROVE  Core(at, from)'
<1>1. /\ wk[w].pc = "loop" /\ wk[w].item = 0 /\ Goto(w, "spin")
      /\ UNCHANGED workerFrame /\ UNCHANGED <<items, fdmap, usermap, outq, shells>>
  BY DEF NotLogin
<1>2. /\ TypeOK /\ wk \in [Workers -> Local] /\ wk[w].st = 0
      /\ usermap \in [YyIDs -> Items \cup {0}] /\ outq \in Seq(Out) /\ shells \in Seq(YyIDs)
  BY <1>1, Known
<1>3. Moves(w, "spin", wk[w].item, wk[w].st, wk[w].succ)
  BY <1>1, <1>2, GotoShape DEF Pc
<1>4. Stays(w) /\ wk'[w].item = wk[w].item /\ wk'[w].pc # "openurl"
  BY <1>3, MovesStay DEF Moves
<1>5. Stage(w)'
  BY <1>1, <1>2, <1>3 DEF Moves, Stage, LoginPc, LogoutPc, UrlPc, InitPc
<1>6. Steady(w)
  BY <1>1, <1>2, <1>4, SameItems, Quiet
<1>7. QED
  BY <1>1, <1>2, <1>4, <1>5, <1>6, KeepCore

(* A step that ends a command, and does nothing to sessions and maps.      *)
LEMMA DropCore ==
  ASSUME NEW at, NEW from, NEW w \in Workers, Core(at, from), UNCHANGED workerFrame,
         wk[w].pc \notin {"idle", "adduser", "route", "openurl", "exec"}, Drops(w),
         SameOrgs, \A i \in Items : items'[i].gone = items[i].gone,
         UNCHANGED <<fdmap, usermap, shells>>, outq' \in Seq(Out)
  PROVE  Core(at, from)'
<1>0. /\ TypeOK /\ wk[w].st = 0
      /\ usermap \in [YyIDs -> Items \cup {0}] /\ shells \in Seq(YyIDs)
  BY Known
<1>1. ~Stays(w)
  BY DEF Drops, Stays, Idle
<1>2. Stage(w)'
  BY <1>0, DropStage
<1>3. Steady(w)
  BY <1>0, <1>1, Quiet
<1>4. QED
  BY <1>0, <1>2, <1>3, KeepCore

(* OtherCmd.                                                               *)
LEMMA OtherCmdCore ==
  ASSUME NEW at, NEW from, NEW w \in Workers, Core(at, from), OtherCmd(w)
  PROVE  Core(at, from)'
<1>1. /\ wk[w].pc = "loop" /\ NextCmd(w)
      /\ UNCHANGED workerFrame /\ UNCHANGED <<items, fdmap, usermap, outq, shells>>
  BY DEF OtherCmd, InSession, At
<1>2. TypeOK /\ wk \in [Workers -> Local] /\ wk[w].msgs # <<>> /\ outq \in Seq(Out)
  BY <1>1, Known
<1>3. QED
  BY <1>1, <1>2, NextDrops, SameItems, DropCore

(* BadFrame.                                                               *)
LEMMA BadFrameCore ==
  ASSUME NEW at, NEW from, NEW w \in Workers, Core(at, from), BadFrame(w)
  PROVE  Core(at, from)'
<1>1. /\ wk[w].pc = "loop" /\ wk' = [wk EXCEPT ![w] = Idle]
      /\ Send(w, wk[w].fd, "CLOSE", 0) \/ outq' = outq
      /\ UNCHANGED workerFrame /\ UNCHANGED <<items, fdmap, usermap, shells>>
  BY DEF BadFrame, At
<1>2. TypeOK /\ wk \in [Workers -> Local] /\ wk[w].fd \in Fds /\ outq \in Seq(Out)
  BY <1>1, Known
<1>3. outq' \in Seq(Out)
  <2>1. "CLOSE" \in OutKinds /\ 0 \in 0 .. MaxMsgs
    BY BoundsAssumption DEF OutKinds
  <2>2. QED
    BY <1>1, <1>2, <2>1, SendType
<1>4. QED
  BY <1>1, <1>2, <1>3, IdleDrops, SameItems, DropCore

(* LoginCmd.                                                               *)
LEMMA LoginCmdCore ==
  ASSUME NEW at, NEW from, NEW w \in Workers, Core(at, from), LoginCmd(w)
  PROVE  Core(at, from)'
<1>1. /\ wk[w].pc = "check"
      /\ UNCHANGED workerFrame /\ UNCHANGED <<items, fdmap, usermap, shells>>
  BY DEF LoginCmd
<1>2. /\ TypeOK /\ wk \in [Workers -> Local] /\ wk[w].fd \in Fds /\ wk[w].st = 0
      /\ wk[w].msgs # <<>> /\ Cmd(w).n \in 0 .. MaxMsgs /\ Stage(w)
      /\ usermap \in [YyIDs -> Items \cup {0}] /\ outq \in Seq(Out) /\ shells \in Seq(YyIDs)
  BY <1>1, Known
<1>3. outq' \in Seq(Out)
  <2>1. {"LOGIN_OK", "LOGIN_NO"} \subseteq OutKinds
    BY DEF OutKinds
  <2>2. Send(w, wk[w].fd, "LOGIN_OK", Cmd(w).n) \/ Send(w, wk[w].fd, "LOGIN_NO", Cmd(w).n) \/ outq' = outq
    BY DEF LoginCmd
  <2>3. QED
    BY <1>2, <2>1, <2>2, SendType
<1>4. CASE NextCmd(w)
  BY <1>1, <1>2, <1>3, <1>4, NextDrops, SameItems, DropCore
<1>5. CASE Goto(w, "refuse")
  <2>1. Moves(w, "refuse", wk[w].item, wk[w].st, wk[w].succ)
    BY <1>2, <1>5, GotoShape DEF Pc, LoginPc
  <2>2. Stays(w) /\ wk'[w].item = wk[w].item /\ Cmd(w)' = Cmd(w) /\ wk'[w].pc # "openurl"
    BY <2>1, MovesStay DEF Moves
  <2>3. Stage(w)'
    BY <1>1, <1>2, <2>1, <2>2 DEF Moves, Stage, LoginPc, LogoutPc, UrlPc, InitPc
  <2>4. Steady(w)
    BY <1>1, <1>2, <2>2, SameItems, Quiet
  <2>5. QED
    BY <1>1, <1>2, <1>3, <2>2, <2>3, <2>4, KeepCore
<1>6. QED
  BY <1>4, <1>5 DEF LoginCmd

(* LoginRefused.                                                           *)
LEMMA LoginRefusedCore ==
  ASSUME NEW at, NEW from, NEW w \in Workers, Core(at, from), LoginRefused(w)
  PROVE  Core(at, from)'
<1>1. /\ wk[w].pc = "refuse" /\ Send(w, wk[w].fd, "CLOSE", 0) /\ NextCmd(w)
      /\ UNCHANGED workerFrame /\ UNCHANGED <<items, fdmap, usermap, shells>>
  BY DEF LoginRefused
<1>2. TypeOK /\ wk \in [Workers -> Local] /\ wk[w].fd \in Fds /\ wk[w].msgs # <<>>
  BY <1>1, Known
<1>3. "CLOSE" \in OutKinds /\ 0 \in 0 .. MaxMsgs
  BY BoundsAssumption DEF OutKinds
<1>4. QED
  BY <1>1, <1>2, <1>3, SendType, NextDrops, SameItems, DropCore

(* Login1.                                                                 *)
LEMMA Login1Core ==
  ASSUME NEW at, NEW from, NEW w \in Workers, Core(at, from), Login1(w)
  PROVE  Core(at, from)'
<1>1. /\ wk[w].pc = "loop" /\ Send(w, wk[w].fd, "LOGIN1_RES", Cmd(w).n) /\ NextCmd(w)
      /\ UNCHANGED workerFrame /\ UNCHANGED <<items, fdmap, usermap, shells>>
  BY DEF Login1, InSession, At
<1>2. /\ TypeOK /\ wk \in [Workers -> Local] /\ wk[w].fd \in Fds /\ wk[w].msgs # <<>>
      /\ Cmd(w).n \in 0 .. MaxMsgs
  BY <1>1, Known
<1>3. "LOGIN1_RES" \in OutKinds
  BY DEF OutKinds
<1>4. QED
  BY <1>1, <1>2, <1>3, SendType, NextDrops, SameItems, DropCore

(* A step within a command that may change fields of an Item_data, or take *)
(* a user out of _userData.                                                *)
LEMMA StayCore ==
  ASSUME NEW at, NEW from, NEW w \in Workers, Core(at, from), UNCHANGED workerFrame,
         wk[w].pc # "idle", wk[w].pc # "adduser", Stays(w), wk'[w].item = wk[w].item, Stage(w)',
         wk'[w].pc = "openurl" => items'[wk[w].item].shell # 0,
         SameOrgs, \A i \in Items : items'[i].gone = items[i].gone, fdmap' = fdmap,
         \A y \in YyIDs : usermap'[y] \in {usermap[y], 0}, usermap' \in [YyIDs -> Items \cup {0}],
         outq' \in Seq(Out), shells' \in Seq(YyIDs)
  PROVE  Core(at, from)'
<1>1. wk'[w].item = wk[w].item /\ wk'[w].port = wk[w].port /\ wk'[w].fd = wk[w].fd
  BY DEF Stays
<1>2. Steady(w)
  BY <1>1 DEF Steady
<1>3. QED
  BY <1>1, <1>2, KeepCore

(* Logout.                                                                 *)
LEMMA LogoutCore ==
  ASSUME NEW at, NEW from, NEW w \in Workers, Core(at, from), Logout(w)
  PROVE  Core(at, from)'
<1>1. /\ wk[w].pc = "loop" /\ Send(w, wk[w].fd, "LOGOUT_RES", Cmd(w).n) /\ Goto(w, "shellexit")
      /\ Cmd(w).cmd = "LOGOUT" /\ wk[w].port = "client" /\ wk[w].item # 0
      /\ UNCHANGED workerFrame /\ UNCHANGED <<items, fdmap, usermap, shells>>
  BY DEF Logout, InSession, At
<1>2. /\ TypeOK /\ wk \in [Workers -> Local] /\ wk[w].fd \in Fds /\ wk[w].st = 0
      /\ Cmd(w).n \in 0 .. MaxMsgs /\ usermap \in [YyIDs -> Items \cup {0}] /\ shells \in Seq(YyIDs)
  BY <1>1, Known
<1>3. "LOGOUT_RES" \in OutKinds
  BY DEF OutKinds
<1>4. outq' \in Seq(Out)
  BY <1>1, <1>2, <1>3, SendType
<1>5. Moves(w, "shellexit", wk[w].item, wk[w].st, wk[w].succ)
  BY <1>1, <1>2, GotoShape DEF Pc, LogoutPc
<1>6. Stage(w)'
  BY <1>1, <1>2, <1>5, MovesStay DEF Moves, Stage, LoginPc, LogoutPc, UrlPc, InitPc
<1>7. Stays(w) /\ wk'[w].item = wk[w].item /\ wk'[w].pc # "openurl"
  BY <1>5, MovesStay DEF Moves
<1>8. QED
  BY <1>1, <1>2, <1>4, <1>6, <1>7, SameItems, StayCore

(* Item_data i alone changes, to these fields; it stays the session of its *)
(* connection.                                                             *)
Becomes(i, yyID, shell, url, gone, ok, told, left, late) ==
  /\ i \in Items /\ items' \in [Items -> Item]
  /\ \A j \in Items \ {i} : items'[j] = items[j]
  /\ items'[i].org = items[i].org /\ items'[i].yyID = yyID /\ items'[i].shell = shell
  /\ items'[i].url = url /\ items'[i].gone = gone /\ items'[i].ok = ok
  /\ items'[i].told = told /\ items'[i].left = left /\ items'[i].late = late

(* Replacing one Item_data, field by field.                                *)
LEMMA RecordBecomes ==
  ASSUME items \in [Items -> Item], NEW i \in Items, NEW x \in Item,
         items' = [items EXCEPT ![i] = x], x.org = items[i].org
  PROVE  Becomes(i, x.yyID, x.shell, x.url, x.gone, x.ok, x.told, x.left, x.late)
<1>1. items' \in [Items -> Item] /\ items'[i] = x /\ \A j \in Items \ {i} : items'[j] = items[j]
  OBVIOUS
<1>2. QED
  BY <1>1, Zenon DEF Becomes

(* A change of fields makes and ends no session.                           *)
LEMMA BecomesSteady ==
  ASSUME items \in [Items -> Item], NEW i \in Items, NEW yyID, NEW shell, NEW url, NEW ok,
         NEW told, NEW left, NEW late, yyID = items[i].yyID \/ yyID # 0,
         shell = items[i].shell \/ shell # 0,
         Becomes(i, yyID, shell, url, items[i].gone, ok, told, left, late)
  PROVE  SameOrgs /\ \A j \in Items : items'[j].gone = items[j].gone
<1>1. ASSUME NEW j \in Items
      PROVE  /\ items'[j].org = items[j].org /\ items'[j].gone = items[j].gone
             /\ items[j].yyID # 0 => items'[j].yyID # 0
             /\ items[j].shell # 0 => items'[j].shell # 0
  BY DEF Becomes
<1>2. QED
  BY <1>1 DEF SameOrgs, Becomes

(* ShellExit: the last shell client is sent MMS_EXIT.                      *)
LEMMA ShellExitDoes ==
  ASSUME NEW at, NEW from, NEW w \in Workers, Core(at, from), ShellExit(w)
  PROVE  LET i == wk[w].item
             o == items[i]
         IN  /\ Becomes(i, o.yyID, o.shell, o.url, o.gone, o.ok, o.told, o.left \ {o.shell}, o.late)
             /\ Moves(w, "deluser", i, wk[w].st, wk[w].succ)
             /\ outq' \in Seq(Out)
<1> DEFINE i == wk[w].item
           o == items[i]
           x == [o EXCEPT !.left = o.left \ {o.shell}]
<1>1. /\ wk[w].pc = "shellexit" /\ Goto(w, "deluser")
      /\ (o.shell # 0 /\ Send(w, o.shell, "MMS_EXIT", 0)) \/ outq' = outq
      /\ items' = [items EXCEPT ![i].left = @ \ {o.shell}]
  BY DEF ShellExit
<1>2. TypeOK /\ wk \in [Workers -> Local] /\ items \in [Items -> Item] /\ Stage(w) /\ i \in Items \cup {0}
      /\ outq \in Seq(Out)
  BY <1>1, Known
<1>3. i \in Items
  BY <1>1, <1>2 DEF Stage, LogoutPc
<1>4. o \in Item /\ items' = [items EXCEPT ![i] = x]
  BY <1>1, <1>2, <1>3
<1>9. o = items[i]
  OBVIOUS
<1> HIDE DEF o
<1>5. /\ x \in Item /\ x.left = o.left \ {o.shell}
      /\ x.org = o.org /\ x.gone = o.gone /\ x.yyID = o.yyID
      /\ x.shell = o.shell /\ x.late = o.late
      /\ x.url = o.url /\ x.ok = o.ok /\ x.told = o.told
      /\ o.shell \in Fds \cup {0}
  BY <1>4 DEF Item
<1>6. outq' \in Seq(Out)
  <2>1. "MMS_EXIT" \in OutKinds /\ 0 \in 0 .. MaxMsgs
    BY BoundsAssumption DEF OutKinds
  <2>2. QED
    BY <1>1, <1>2, <1>5, <2>1, SendType
<1>7. Moves(w, "deluser", i, wk[w].st, wk[w].succ)
  BY <1>1, <1>2, GotoShape DEF Pc, LogoutPc
<1> HIDE DEF x
<1>8. Becomes(i, x.yyID, x.shell, x.url, x.gone, x.ok, x.told, x.left, x.late)
  BY <1>2, <1>3, <1>4, <1>5, <1>9, RecordBecomes
<1>10. QED
  BY <1>5, <1>6, <1>7, <1>8 DEF o

(* ShellExit.                                                              *)
LEMMA ShellExitCore ==
  ASSUME NEW at, NEW from, NEW w \in Workers, Core(at, from), ShellExit(w)
  PROVE  Core(at, from)'
<1>1. wk[w].pc = "shellexit" /\ UNCHANGED workerFrame /\ UNCHANGED <<fdmap, usermap, shells>>
  BY DEF ShellExit
<1>2. /\ TypeOK /\ items \in [Items -> Item] /\ wk[w].st = 0 /\ Stage(w)
      /\ usermap \in [YyIDs -> Items \cup {0}] /\ shells \in Seq(YyIDs)
  BY <1>1, Known
<1>3. Moves(w, "deluser", wk[w].item, wk[w].st, wk[w].succ) /\ outq' \in Seq(Out)
  BY ShellExitDoes
<1>4. SameOrgs /\ \A i \in Items : items'[i].gone = items[i].gone
  BY <1>2, ShellExitDoes, BecomesSteady DEF Becomes
<1>5. Stage(w)'
  BY <1>1, <1>2, <1>3, MovesStay DEF Moves, Stage, LoginPc, LogoutPc, UrlPc, InitPc
<1>6. Stays(w) /\ wk'[w].item = wk[w].item /\ wk'[w].pc # "openurl"
  BY <1>3, MovesStay DEF Moves
<1>7. QED
  BY <1>1, <1>2, <1>3, <1>4, <1>5, <1>6, StayCore

(* LogoutDelUser.                                                          *)
LEMMA LogoutDelUserCore ==
  ASSUME NEW at, NEW from, NEW w \in Workers, Core(at, from), LogoutDelUser(w)
  PROVE  Core(at, from)' /\ Moves(w, "delfd", wk[w].item, wk[w].st, wk[w].succ)
<1>1. /\ wk[w].pc = "deluser" /\ UNCHANGED workerFrame /\ UNCHANGED <<items, fdmap, outq, shells>>
      /\ usermap' = [usermap EXCEPT ![items[wk[w].item].yyID] = 0] /\ Goto(w, "delfd")
  BY DEF LogoutDelUser
<1>2. /\ TypeOK /\ wk \in [Workers -> Local] /\ wk[w].st = 0 /\ Stage(w)
      /\ usermap \in [YyIDs -> Items \cup {0}] /\ outq \in Seq(Out) /\ shells \in Seq(YyIDs)
  BY <1>1, Known
<1>3. Moves(w, "delfd", wk[w].item, wk[w].st, wk[w].succ)
  BY <1>1, <1>2, GotoShape DEF Pc, LogoutPc
<1>4. usermap' \in [YyIDs -> Items \cup {0}] /\ \A y \in YyIDs : usermap'[y] \in {usermap[y], 0}
  BY <1>1, <1>2
<1>5. Stage(w)'
  BY <1>1, <1>2, <1>3, MovesStay DEF Moves, Stage, LoginPc, LogoutPc, UrlPc, InitPc
<1>6. Stays(w) /\ wk'[w].item = wk[w].item /\ wk'[w].pc # "openurl"
  BY <1>3, MovesStay DEF Moves
<1>7. QED
  BY <1>1, <1>2, <1>3, <1>4, <1>5, <1>6, SameItems, StayCore

(* Replacing the locals of one worker.                                     *)
LEMMA LocalMoves ==
  ASSUME wk \in [Workers -> Local], NEW w \in Workers, NEW d \in Local,
         wk' = [wk EXCEPT ![w] = d], d.fd = wk[w].fd, d.port = wk[w].port,
         d.org = wk[w].org, d.msgs = wk[w].msgs
  PROVE  Moves(w, d.pc, d.item, d.st, d.succ)
<1>1. wk' \in [Workers -> Local] /\ wk'[w] = d /\ \A v \in Workers \ {w} : wk'[v] = wk[v]
  OBVIOUS
<1>2. QED
  BY <1>1, Zenon DEF Moves

(* OPENURL stores the url.                                                 *)
LEMMA OpenUrlDoes ==
  ASSUME NEW at, NEW from, NEW w \in Workers, Core(at, from), OpenUrl(w)
  PROVE  Moves(w, "route", wk[w].item, Cmd(w).n, wk[w].succ)
<1> DEFINE k == wk[w]
           n == Cmd(w).n
           d == [k EXCEPT !.st = n, !.pc = "route"]
<1>1. wk[w].pc = "loop" /\ wk' = [wk EXCEPT ![w].st = n, ![w].pc = "route"]
  BY DEF OpenUrl, InSession, At
<1>2. wk \in [Workers -> Local] /\ n \in 0 .. MaxMsgs
  BY <1>1, Known
<1> HIDE DEF n
<1>3. k \in Local /\ wk' = [wk EXCEPT ![w] = d] /\ k = wk[w]
  BY <1>1, <1>2
<1> HIDE DEF k
<1>4. "route" \in Pc
  BY DEF Pc, UrlPc
<1>5. /\ d \in Local /\ d.pc = "route" /\ d.item = k.item /\ d.st = n /\ d.succ = k.succ
      /\ d.fd = k.fd /\ d.port = k.port /\ d.org = k.org /\ d.msgs = k.msgs
  BY <1>2, <1>3, <1>4 DEF Local
<1> HIDE DEF d
<1>6. Moves(w, d.pc, d.item, d.st, d.succ)
  BY <1>2, <1>3, <1>5, LocalMoves
<1>7. QED
  BY <1>3, <1>5, <1>6 DEF n

(* OpenUrl.                                                                *)
LEMMA OpenUrlCore ==
  ASSUME NEW at, NEW from, NEW w \in Workers, Core(at, from), OpenUrl(w)
  PROVE  Core(at, from)'
<1>1. /\ wk[w].pc = "loop" /\ Cmd(w).cmd = "OPENURL" /\ wk[w].port = "client" /\ wk[w].item # 0
      /\ UNCHANGED workerFrame /\ UNCHANGED <<items, fdmap, usermap, outq, shells>>
  BY DEF OpenUrl, InSession, At
<1>2. /\ TypeOK /\ usermap \in [YyIDs -> Items \cup {0}] /\ outq \in Seq(Out) /\ shells \in Seq(YyIDs)
  BY <1>1, Known
<1>3. Moves(w, "route", wk[w].item, Cmd(w).n, wk[w].succ)
  BY OpenUrlDoes
<1>4. Stays(w) /\ wk'[w].item = wk[w].item /\ Cmd(w)' = Cmd(w) /\ wk'[w].pc # "openurl"
  BY <1>3, MovesStay DEF Moves
<1>5. Stage(w)'
  BY <1>1, <1>3, <1>4 DEF Moves, Stage, LoginPc, LogoutPc, UrlPc, InitPc
<1>6. QED
  BY <1>1, <1>2, <1>4, <1>5, SameItems, StayCore

(* The url becomes visible.                                                *)
LEMMA UrlVisibleDoes ==
  ASSUME NEW at, NEW from, NEW w \in Workers, Core(at, from), UrlVisible(w)
  PROVE  LET i == wk[w].item
             o == items[i]
         IN  /\ wk[w].pc \in {"route", "openurl", "exec"} /\ wk[w].st = Cmd(w).n
             /\ Becomes(i, o.yyID, o.shell, wk[w].st, o.gone, 0, o.told, o.left, o.late)
             /\ Moves(w, wk[w].pc, i, 0, wk[w].succ)
<1> DEFINE k == wk[w]
           d == [k EXCEPT !.st = 0]
           i == wk[w].item
           o == items[i]
           st == wk[w].st
           x == [o EXCEPT !.url = st, !.ok = 0]
<1>0. wk[w].st # 0 /\ Stage(w)
  BY DEF UrlVisible, Core
<1>1. /\ wk[w].pc \in {"route", "openurl", "exec"} /\ wk[w].st = Cmd(w).n
      /\ wk[w].pc # "idle"
      /\ items' = [items EXCEPT ![i].url = st, ![i].ok = 0]
      /\ wk' = [wk EXCEPT ![w].st = 0]
  BY <1>0 DEF UrlVisible, Stage
<1>2. /\ wk \in [Workers -> Local] /\ items \in [Items -> Item] /\ i \in Items \cup {0}
      /\ st \in 0 .. MaxMsgs
  BY <1>1, Known
<1>3. i \in Items
  BY <1>0, <1>1, <1>2 DEF Stage, UrlPc
<1>4. o \in Item /\ items' = [items EXCEPT ![i] = x]
  BY <1>1, <1>2, <1>3
<1>5. k \in Local /\ wk' = [wk EXCEPT ![w] = d]
  BY <1>1, <1>2
<1>6. o = items[i] /\ k = wk[w] /\ i = k.item /\ st = k.st
  OBVIOUS
<1> HIDE DEF o, k, i, st
<1>7. 0 \in 0 .. MaxMsgs
  BY BoundsAssumption
<1>8. /\ x \in Item /\ x.left = o.left
      /\ x.org = o.org /\ x.gone = o.gone /\ x.yyID = o.yyID
      /\ x.shell = o.shell /\ x.late = o.late
      /\ x.url = st /\ x.ok = 0 /\ x.told = o.told
  BY <1>2, <1>4, <1>7 DEF Item
<1>9. /\ d \in Local /\ d.pc = k.pc /\ d.item = k.item /\ d.st = 0 /\ d.succ = k.succ
      /\ d.fd = k.fd /\ d.port = k.port /\ d.org = k.org /\ d.msgs = k.msgs
  BY <1>5, <1>7 DEF Local
<1> HIDE DEF x, d
<1>10. Becomes(i, x.yyID, x.shell, x.url, x.gone, x.ok, x.told, x.left, x.late)
  BY <1>2, <1>3, <1>4, <1>6, <1>8, RecordBecomes
<1>11. Moves(w, d.pc, d.item, d.st, d.succ)
  BY <1>2, <1>5, <1>6, <1>9, LocalMoves
<1>12. QED
  BY <1>1, <1>6, <1>8, <1>9, <1>10, <1>11

(* UrlVisible.                                                             *)
LEMMA UrlVisibleCore ==
  ASSUME NEW at, NEW from, NEW w \in Workers, Core(at, from), UrlVisible(w)
  PROVE  Core(at, from)'
<1>1. UNCHANGED workerFrame /\ UNCHANGED <<fdmap, usermap, outq, shells>>
  BY DEF UrlVisible
<1>2. wk[w].pc \in {"route", "openurl", "exec"} /\ Moves(w, wk[w].pc, wk[w].item, 0, wk[w].succ)
  BY UrlVisibleDoes
<1>3. /\ TypeOK /\ items \in [Items -> Item] /\ Stage(w)
      /\ usermap \in [YyIDs -> Items \cup {0}] /\ outq \in Seq(Out) /\ shells \in Seq(YyIDs)
  BY <1>2, Known
<1>4. SameOrgs /\ \A i \in Items : items'[i].gone = items[i].gone
  BY <1>3, UrlVisibleDoes, BecomesSteady DEF Becomes
<1>5. Stays(w) /\ wk'[w].item = wk[w].item /\ Cmd(w)' = Cmd(w)
  BY <1>2, MovesStay DEF Moves
<1>6. Stage(w)'
  BY <1>2, <1>3, <1>5 DEF Moves, Stage, LoginPc, LogoutPc, UrlPc, InitPc
<1>7. wk'[w].pc = "openurl" => items'[wk[w].item].shell # 0
  BY <1>2, UrlVisibleDoes DEF Moves, Becomes, Core, Routed
<1>8. QED
  BY <1>1, <1>2, <1>3, <1>4, <1>5, <1>6, <1>7, StayCore

(* isConnectShellClient.                                                   *)
LEMMA OpenUrlRouteCore ==
  ASSUME NEW at, NEW from, NEW w \in Workers, Core(at, from), OpenUrlRoute(w)
  PROVE  /\ Core(at, from)'
         /\ \E pc \in {"openurl", "exec"} : Moves(w, pc, wk[w].item, wk[w].st, wk[w].succ)
<1>1. /\ wk[w].pc = "route" /\ UNCHANGED workerFrame
      /\ UNCHANGED <<items, fdmap, usermap, outq, shells>>
  BY DEF OpenUrlRoute
<1>2. PICK pc \in {"openurl", "exec"} :
        Goto(w, pc) /\ (pc = "openurl" => items[wk[w].item].shell # 0)
  BY DEF OpenUrlRoute
<1>3. /\ TypeOK /\ wk \in [Workers -> Local] /\ Stage(w)
      /\ usermap \in [YyIDs -> Items \cup {0}] /\ outq \in Seq(Out) /\ shells \in Seq(YyIDs)
  BY <1>1, Known
<1>4. Moves(w, pc, wk[w].item, wk[w].st, wk[w].succ)
  BY <1>2, <1>3, GotoShape DEF Pc, UrlPc
<1>5. Stays(w) /\ wk'[w].item = wk[w].item /\ Cmd(w)' = Cmd(w)
  BY <1>4, MovesStay DEF Moves
<1>6. Stage(w)'
  BY <1>1, <1>3, <1>4, <1>5 DEF Moves, Stage, LoginPc, LogoutPc, UrlPc, InitPc
<1>7. wk'[w].pc = "openurl" => items'[wk[w].item].shell # 0
  BY <1>1, <1>2, <1>4 DEF Moves
<1>8. QED
  BY <1>1, <1>3, <1>4, <1>5, <1>6, <1>7, SameItems, StayCore

(* openURL(fd, state).                                                     *)
LEMMA TellDoes ==
  ASSUME TypeOK, NEW w \in Workers, NEW fd \in Fds, wk[w].item \in Items, TellShell(w, fd)
  PROVE  LET i == wk[w].item
             o == items[i]
         IN  /\ Becomes(i, o.yyID, o.shell, o.url, o.gone, o.ok, o.told \cup {<<fd, o.url>>}, o.left, o.late)
             /\ outq' \in Seq(Out) /\ Send(w, fd, "MMS_OPENURL", o.url)
<1> DEFINE i == wk[w].item
           o == items[i]
           q == {<<fd, o.url>>}
           x == [o EXCEPT !.told = o.told \cup q]
<1>1. items \in [Items -> Item] /\ i \in Items
  BY TypeLocal
<1>2. items' = [items EXCEPT ![i].told = @ \cup {<<fd, items[i].url>>}] /\ Send(w, fd, "MMS_OPENURL", o.url)
  BY DEF TellShell
<1>3. o \in Item /\ items' = [items EXCEPT ![i] = x] /\ o = items[i] /\ q = {<<fd, o.url>>}
  BY <1>1, <1>2
<1> HIDE DEF o
<1>4. o.url \in 0 .. MaxMsgs
  BY <1>3 DEF Item
<1>5. q \subseteq Fds \X (0 .. MaxMsgs)
  BY <1>4
<1> HIDE DEF q
<1>6. /\ x \in Item /\ x.left = o.left
      /\ x.org = o.org /\ x.gone = o.gone /\ x.yyID = o.yyID
      /\ x.shell = o.shell /\ x.late = o.late
      /\ x.url = o.url /\ x.ok = o.ok /\ x.told = o.told \cup q
  BY <1>3, <1>5 DEF Item
<1>7. outq' \in Seq(Out)
  <2>1. "MMS_OPENURL" \in OutKinds
    BY DEF OutKinds
  <2>2. QED
    BY <1>2, <1>4, <2>1, SendType
<1> HIDE DEF x
<1>8. Becomes(i, x.yyID, x.shell, x.url, x.gone, x.ok, x.told, x.left, x.late)
  BY <1>1, <1>3, <1>6, RecordBecomes
<1>9. QED
  BY <1>2, <1>3, <1>6, <1>7, <1>8

(* What OpenUrlTell does: the url goes to the shell client registered      *)
(* last.                                                                   *)
LEMMA OpenUrlTellDoes ==
  ASSUME NEW at, NEW from, NEW w \in Workers, Core(at, from), OpenUrlTell(w)
  PROVE  LET i == wk[w].item
             o == items[i]
         IN  /\ wk[w].pc = "openurl" /\ wk[w].st = 0 /\ o.shell \in Fds
             /\ Becomes(i, o.yyID, o.shell, o.url, o.gone, o.ok, o.told \cup {<<o.shell, o.url>>},
                        o.left, o.late)
             /\ Moves(w, "answer", i, 0, TRUE) /\ outq' \in Seq(Out)
             /\ Send(w, o.shell, "MMS_OPENURL", o.url)
<1> DEFINE k == wk[w]
           d == [k EXCEPT !.pc = "answer", !.succ = TRUE]
<1>1. /\ wk[w].pc = "openurl" /\ wk[w].st = 0 /\ TellShell(w, items[wk[w].item].shell)
      /\ wk' = [wk EXCEPT ![w].pc = "answer", ![w].succ = TRUE]
  BY DEF OpenUrlTell
<1>2. /\ TypeOK /\ wk \in [Workers -> Local] /\ Stage(w) /\ wk[w].item \in Items \cup {0}
      /\ items \in [Items -> Item]
  BY <1>1, Known
<1>3. wk[w].item \in Items
  BY <1>1, <1>2 DEF Stage, UrlPc
<1>4. items[wk[w].item].shell \in Fds
  <2>1. items[wk[w].item] \in Item /\ items[wk[w].item].shell # 0
    BY <1>1, <1>2, <1>3 DEF Core, Routed
  <2>2. QED
    BY <2>1 DEF Item
<1>5. k \in Local /\ wk' = [wk EXCEPT ![w] = d] /\ k = wk[w]
  BY <1>1, <1>2
<1> HIDE DEF k
<1>6. "answer" \in Pc
  BY DEF Pc, UrlPc
<1>7. /\ d \in Local /\ d.pc = "answer" /\ d.item = k.item /\ d.st = k.st /\ d.succ = TRUE
      /\ d.fd = k.fd /\ d.port = k.port /\ d.org = k.org /\ d.msgs = k.msgs
  BY <1>5, <1>6 DEF Local
<1> HIDE DEF d
<1>8. Moves(w, d.pc, d.item, d.st, d.succ)
  BY <1>2, <1>5, <1>7, LocalMoves
<1>9. Moves(w, "answer", wk[w].item, 0, TRUE)
  BY <1>1, <1>5, <1>7, <1>8
<1>10. QED
  BY <1>1, <1>2, <1>3, <1>4, <1>9, TellDoes

(* OpenUrlTell.                                                            *)
LEMMA OpenUrlTellCore ==
  ASSUME NEW at, NEW from, NEW w \in Workers, Core(at, from), OpenUrlTell(w)
  PROVE  Core(at, from)'
<1>1. UNCHANGED workerFrame /\ UNCHANGED <<fdmap, usermap, shells>>
  BY DEF OpenUrlTell
<1>2. wk[w].pc = "openurl" /\ Moves(w, "answer", wk[w].item, 0, TRUE) /\ outq' \in Seq(Out)
  BY OpenUrlTellDoes
<1>3. /\ TypeOK /\ items \in [Items -> Item] /\ Stage(w)
      /\ usermap \in [YyIDs -> Items \cup {0}] /\ shells \in Seq(YyIDs)
  BY <1>2, Known
<1>4. SameOrgs /\ \A i \in Items : items'[i].gone = items[i].gone
  BY <1>3, OpenUrlTellDoes, BecomesSteady DEF Becomes
<1>5. Stays(w) /\ wk'[w].item = wk[w].item /\ Cmd(w)' = Cmd(w) /\ wk'[w].pc # "openurl"
  BY <1>2, MovesStay DEF Moves
<1>6. Stage(w)'
  BY <1>2, <1>3, <1>5 DEF Moves, Stage, LoginPc, LogoutPc, UrlPc, InitPc
<1>7. QED
  BY <1>1, <1>2, <1>3, <1>4, <1>5, <1>6, StayCore

(* A session whose worker is not at adduser has its yyID.                  *)
LEMMA HasAccount ==
  ASSUME NEW at, NEW from, NEW w \in Workers, Core(at, from), wk[w].pc # "idle",
         wk[w].pc # "adduser", wk[w].port = "client", wk[w].item # 0
  PROVE  wk[w].item \in Items /\ items[wk[w].item].yyID \in YyIDs
<1>1. TypeOK /\ Mail(at, from) /\ items \in [Items -> Item] /\ wk[w].item \in Items
  BY Known DEF Core
<1>2. items[wk[w].item].org # 0 /\ at[items[wk[w].item].org] = wk[w].fd /\ ThreadOf(wk[w].fd) = w
  BY <1>1, AtWork DEF Core, Refs
<1>3. ASSUME items[wk[w].item].yyID = 0
      PROVE  FALSE
  <2>1. PICK v \in Workers : wk[v].pc = "adduser" /\ wk[v].item = wk[w].item
    BY <1>1, <1>2, <1>3 DEF Core, Accounts
  <2>2. wk[v].port = "client"
    BY <2>1 DEF Core, Stage, LoginPc
  <2>3. at[items[wk[v].item].org] = wk[v].fd /\ ThreadOf(wk[v].fd) = v
    BY <1>1, <2>1, <2>2, AtWork DEF Core, Refs
  <2>4. v = w
    BY <1>2, <2>1, <2>3
  <2>5. QED
    BY <2>1, <2>4
<1>4. items[wk[w].item] \in Item
  BY <1>1
<1>5. QED
  BY <1>1, <1>3, <1>4 DEF Item

(* What ShellExec does: it succeeds only if no shell client has            *)
(* registered.                                                             *)
LEMMA ShellExecDoes ==
  ASSUME NEW at, NEW from, NEW w \in Workers, Core(at, from), ShellExec(w)
  PROVE  \E succ \in BOOLEAN :
           /\ Moves(w, "answer", wk[w].item, 0, succ)
           /\ succ => items[wk[w].item].shell = 0
<1>1. wk[w].pc = "exec" /\ wk[w].st = 0
  BY DEF ShellExec
<1>2. PICK succ \in BOOLEAN :
        /\ wk' = [wk EXCEPT ![w].pc = "answer", ![w].succ = succ]
        /\ succ => items[wk[w].item].shell = 0
  BY DEF ShellExec
<1>3. wk \in [Workers -> Local]
  BY <1>1, Known
<1> DEFINE k == wk[w]
           d == [k EXCEPT !.pc = "answer", !.succ = succ]
<1>5. k \in Local /\ wk' = [wk EXCEPT ![w] = d] /\ k = wk[w]
  BY <1>2, <1>3
<1> HIDE DEF k
<1>6. "answer" \in Pc
  BY DEF Pc, UrlPc
<1>7. /\ d \in Local /\ d.pc = "answer" /\ d.item = k.item /\ d.st = k.st /\ d.succ = succ
      /\ d.fd = k.fd /\ d.port = k.port /\ d.org = k.org /\ d.msgs = k.msgs
  BY <1>5, <1>6, Zenon DEF Local
<1> HIDE DEF d
<1>8. Moves(w, d.pc, d.item, d.st, d.succ)
  BY <1>3, <1>5, <1>7, LocalMoves
<1>9. Moves(w, "answer", wk[w].item, 0, succ)
  BY <1>1, <1>5, <1>7, <1>8, Zenon
<1>10. QED
  BY <1>2, <1>9, Zenon

(* ShellExec.                                                              *)
LEMMA ShellExecCore ==
  ASSUME NEW at, NEW from, NEW w \in Workers, Core(at, from), ShellExec(w)
  PROVE  Core(at, from)'
<1>1. /\ wk[w].pc = "exec" /\ UNCHANGED workerFrame /\ UNCHANGED <<items, fdmap, usermap, outq>>
      /\ shells' \in {shells, Append(shells, items[wk[w].item].yyID)}
  BY DEF ShellExec
<1>2. /\ TypeOK /\ Stage(w) /\ outq \in Seq(Out)
      /\ usermap \in [YyIDs -> Items \cup {0}] /\ shells \in Seq(YyIDs)
  BY <1>1, Known
<1>3. PICK succ \in BOOLEAN : Moves(w, "answer", wk[w].item, 0, succ)
  BY ShellExecDoes
<1>4. shells' \in Seq(YyIDs)
  <2>1. items[wk[w].item].yyID \in YyIDs
    BY <1>1, <1>2, HasAccount DEF Stage, UrlPc
  <2>2. QED
    BY <1>1, <1>2, <2>1, AppendFacts
<1>5. Stays(w) /\ wk'[w].item = wk[w].item /\ Cmd(w)' = Cmd(w) /\ wk'[w].pc # "openurl"
  BY <1>3, MovesStay DEF Moves
<1>6. Stage(w)'
  BY <1>1, <1>2, <1>3, <1>5 DEF Moves, Stage, LoginPc, LogoutPc, UrlPc, InitPc
<1>7. QED
  BY <1>1, <1>2, <1>4, <1>5, <1>6, SameItems, StayCore

(* What OpenUrlAnswer does: ok records the url only if bSucc.              *)
LEMMA OpenUrlAnswerDoes ==
  ASSUME NEW at, NEW from, NEW w \in Workers, Core(at, from), OpenUrlAnswer(w)
  PROVE  LET i == wk[w].item
             o == items[i]
         IN  /\ wk[w].pc = "answer" /\ Drops(w) /\ outq' \in Seq(Out)
             /\ \E ok \in {0, Cmd(w).n} :
                  /\ ok # 0 => wk[w].succ /\ ok = Cmd(w).n
                  /\ Becomes(i, o.yyID, o.shell, o.url, o.gone, ok, o.told, o.left, o.late)
<1> DEFINE i == wk[w].item
           o == items[i]
           ok == IF wk[w].succ THEN Cmd(w).n ELSE 0
           x == [o EXCEPT !.ok = ok]
<1>1. /\ wk[w].pc = "answer" /\ Send(w, wk[w].fd, "OPENURL_RES", Cmd(w).n) /\ NextCmd(w)
      /\ items' = [items EXCEPT ![i].ok = ok]
  BY DEF OpenUrlAnswer
<1>2. /\ TypeOK /\ wk \in [Workers -> Local] /\ items \in [Items -> Item] /\ Stage(w)
      /\ i \in Items \cup {0} /\ Cmd(w).n \in 0 .. MaxMsgs /\ wk[w].fd \in Fds /\ wk[w].msgs # <<>>
      /\ wk[w].succ \in BOOLEAN
  BY <1>1, Known
<1>3. i \in Items
  BY <1>1, <1>2 DEF Stage, UrlPc
<1>4. /\ ok \in {0, Cmd(w).n} /\ ok \in 0 .. MaxMsgs
      /\ ok # 0 => wk[w].succ /\ ok = Cmd(w).n
  <2>1. 0 \in 0 .. MaxMsgs
    BY BoundsAssumption
  <2>2. QED
    BY <1>2, <2>1, Zenon
<1> HIDE DEF ok
<1>5. o \in Item /\ items' = [items EXCEPT ![i] = x] /\ o = items[i]
  BY <1>1, <1>2, <1>3
<1> HIDE DEF o
<1>6. /\ x \in Item /\ x.left = o.left
      /\ x.org = o.org /\ x.gone = o.gone /\ x.yyID = o.yyID
      /\ x.shell = o.shell /\ x.late = o.late
      /\ x.url = o.url /\ x.ok = ok /\ x.told = o.told
  BY <1>4, <1>5 DEF Item
<1> HIDE DEF x
<1>7. Becomes(i, x.yyID, x.shell, x.url, x.gone, x.ok, x.told, x.left, x.late)
  BY <1>2, <1>3, <1>5, <1>6, RecordBecomes
<1>8. Becomes(i, o.yyID, o.shell, o.url, o.gone, ok, o.told, o.left, o.late)
  BY <1>6, <1>7
<1>9. outq' \in Seq(Out)
  <2>1. "OPENURL_RES" \in OutKinds
    BY DEF OutKinds
  <2>2. QED
    BY <1>1, <1>2, <2>1, SendType
<1>10. Drops(w)
  BY <1>1, <1>2, NextDrops
<1>11. QED
  BY <1>1, <1>4, <1>5, <1>8, <1>9, <1>10, Zenon

(* OpenUrlAnswer.                                                          *)
LEMMA OpenUrlAnswerCore ==
  ASSUME NEW at, NEW from, NEW w \in Workers, Core(at, from), OpenUrlAnswer(w)
  PROVE  Core(at, from)'
<1>1. UNCHANGED workerFrame /\ UNCHANGED <<fdmap, usermap, shells>>
  BY DEF OpenUrlAnswer
<1>2. wk[w].pc = "answer" /\ Drops(w) /\ outq' \in Seq(Out)
  BY OpenUrlAnswerDoes
<1>3. TypeOK /\ items \in [Items -> Item]
  BY <1>2, Known
<1>4. SameOrgs /\ \A i \in Items : items'[i].gone = items[i].gone
  BY <1>3, OpenUrlAnswerDoes, BecomesSteady DEF Becomes
<1>5. QED
  BY <1>1, <1>2, <1>4, DropCore

(* SVR_INIT looks its session up.                                          *)
LEMMA SvrInitDoes ==
  ASSUME NEW at, NEW from, NEW w \in Workers, Core(at, from), SvrInit(w)
  PROVE  /\ wk[w].pc = "loop" /\ Cmd(w).cmd = "SVR_INIT" /\ Cmd(w).y \in YyIDs
         /\ \/ Drops(w)
            \/ /\ usermap[Cmd(w).y] # 0
               /\ Moves(w, "register", usermap[Cmd(w).y], wk[w].st, wk[w].succ)
<1> DEFINE i == usermap[Cmd(w).y]
           k == wk[w]
           d == [k EXCEPT !.item = i, !.pc = "register"]
<1>1. /\ wk[w].pc = "loop" /\ Cmd(w).cmd = "SVR_INIT"
      /\ \/ NextCmd(w)
         \/ i # 0 /\ wk' = [wk EXCEPT ![w].item = i, ![w].pc = "register"]
  BY DEF SvrInit, At
<1>2. /\ wk \in [Workers -> Local] /\ Cmd(w).y \in YyIDs /\ wk[w].msgs # <<>>
      /\ usermap \in [YyIDs -> Items \cup {0}]
  BY <1>1, Known
<1>3. CASE NextCmd(w)
  BY <1>1, <1>2, <1>3, NextDrops
<1>4. CASE i # 0 /\ wk' = [wk EXCEPT ![w].item = i, ![w].pc = "register"]
  <2>1. i \in Items
    BY <1>2, <1>4
  <2> HIDE DEF i
  <2>2. k \in Local /\ wk' = [wk EXCEPT ![w] = d] /\ k = wk[w]
    BY <1>2, <1>4
  <2> HIDE DEF k
  <2>3. "register" \in Pc
    BY DEF Pc, InitPc
  <2>4. /\ d \in Local /\ d.pc = "register" /\ d.item = i /\ d.st = k.st /\ d.succ = k.succ
        /\ d.fd = k.fd /\ d.port = k.port /\ d.org = k.org /\ d.msgs = k.msgs
    BY <2>1, <2>2, <2>3 DEF Local
  <2> HIDE DEF d
  <2>5. Moves(w, d.pc, d.item, d.st, d.succ)
    BY <1>2, <2>2, <2>4, LocalMoves
  <2>6. Moves(w, "register", i, wk[w].st, wk[w].succ)
    BY <2>2, <2>4, <2>5
  <2>7. QED
    BY <1>1, <1>2, <1>4, <2>6 DEF i
<1>5. QED
  BY <1>1, <1>3, <1>4

(* Only a shell client's worker meets SVR_INIT.                            *)
LEMMA InitOnShell ==
  ASSUME NEW at, NEW from, NEW w \in Workers, Core(at, from), wk[w].pc # "idle",
         Cmd(w).cmd = "SVR_INIT"
  PROVE  wk[w].port = "shell" /\ wk[w].org # 0
<1>1. WorkOK(wk[w], w, at, from) /\ TypeOK
  BY DEF Core, Mail
<1>2. wk[w].msgs \in Seq(Msg) /\ wk[w].msgs # <<>> /\ wk[w].port \in {"client", "shell"}
  BY <1>1, TypeLocal DEF WorkOK, Local
<1>3. Cmd(w) = wk[w].msgs[1] /\ 1 \in 1 .. Len(wk[w].msgs)
  BY <1>2, TailFacts DEF Cmd
<1>4. MsgOK(Cmd(w), wk[w].port, wk[w].org, from)
  BY <1>1, <1>3 DEF WorkOK, MsgsOK
<1>5. QED
  BY <1>2, <1>4 DEF MsgOK, LogoutCmd, ClientKinds

(* SvrInit.                                                                *)
LEMMA SvrInitCore ==
  ASSUME NEW at, NEW from, NEW w \in Workers, Core(at, from), SvrInit(w)
  PROVE  Core(at, from)'
<1>1. UNCHANGED workerFrame /\ UNCHANGED <<items, fdmap, usermap, outq, shells>>
  BY DEF SvrInit
<1>2. wk[w].pc = "loop" /\ Cmd(w).cmd = "SVR_INIT" /\ Cmd(w).y \in YyIDs
  BY SvrInitDoes
<1>3. /\ TypeOK /\ wk[w].st = 0 /\ outq \in Seq(Out)
      /\ usermap \in [YyIDs -> Items \cup {0}] /\ shells \in Seq(YyIDs)
  BY <1>2, Known
<1>4. wk[w].port = "shell"
  BY <1>2, InitOnShell
<1>5. CASE Drops(w)
  BY <1>1, <1>2, <1>3, <1>5, SameItems, DropCore
<1>6. CASE /\ usermap[Cmd(w).y] # 0
           /\ Moves(w, "register", usermap[Cmd(w).y], wk[w].st, wk[w].succ)
  <2>1. Stays(w) /\ wk'[w].item = usermap[Cmd(w).y] /\ Cmd(w)' = Cmd(w) /\ wk'[w].pc # "openurl"
        /\ wk'[w].port = "shell"
    BY <1>4, <1>6, MovesStay DEF Moves
  <2>2. Stage(w)'
    BY <1>2, <1>3, <1>4, <1>6, <2>1 DEF Moves, Stage, LoginPc, LogoutPc, UrlPc, InitPc
  <2>3. Steady(w)
    BY <1>1, <1>2, <1>3, <2>1, SameItems DEF Steady
  <2>4. QED
    BY <1>1, <1>2, <1>3, <2>1, <2>2, <2>3, KeepCore
<1>7. QED
  BY <1>5, <1>6, SvrInitDoes

(* What SvrRegister does.                                                  *)
LEMMA SvrRegisterDoes ==
  ASSUME NEW at, NEW from, NEW w \in Workers, Core(at, from), SvrRegister(w)
  PROVE  LET i == wk[w].item
             o == items[i]
             fd == wk[w].fd
         IN  /\ wk[w].pc = "register" /\ fd \in Fds
             /\ Becomes(i, o.yyID, fd, o.url, o.gone, o.ok, o.told, o.left \cup {fd}, ExitPassed(i))
             /\ Moves(w, "svrtell", i, wk[w].st, wk[w].succ)
<1> DEFINE i == wk[w].item
           o == items[i]
           fd == wk[w].fd
           l == ExitPassed(i)
           x == [o EXCEPT !.shell = fd, !.left = o.left \cup {fd}, !.late = l]
<1>1. /\ wk[w].pc = "register" /\ Goto(w, "svrtell")
      /\ items' = [items EXCEPT ![i].shell = fd, ![i].left = @ \cup {fd}, ![i].late = l]
  BY DEF SvrRegister
<1>2. /\ wk \in [Workers -> Local] /\ items \in [Items -> Item] /\ Stage(w)
      /\ i \in Items \cup {0} /\ fd \in Fds
  BY <1>1, Known
<1>3. i \in Items
  BY <1>1, <1>2 DEF Stage, InitPc
<1>4. items[i] \in Item /\ l \in BOOLEAN
  <2>1. items[i].gone \in BOOLEAN
    BY <1>2, <1>3 DEF Item
  <2>2. QED
    BY <1>2, <1>3, <2>1 DEF ExitPassed
<1>5. l = ExitPassed(i)
  OBVIOUS
<1> HIDE DEF l
<1>6. o \in Item /\ items' = [items EXCEPT ![i] = x] /\ o = items[i]
  BY <1>1, <1>2, <1>3
<1> HIDE DEF o
<1>7. /\ x \in Item /\ x.left = o.left \cup {fd}
      /\ x.org = o.org /\ x.gone = o.gone /\ x.yyID = o.yyID
      /\ x.shell = fd /\ x.late = l
      /\ x.url = o.url /\ x.ok = o.ok /\ x.told = o.told
  BY <1>2, <1>4, <1>6, Zenon DEF Item
<1> HIDE DEF x
<1>8. Becomes(i, x.yyID, x.shell, x.url, x.gone, x.ok, x.told, x.left, x.late)
  BY <1>2, <1>3, <1>6, <1>7, RecordBecomes
<1>9. Becomes(i, o.yyID, fd, o.url, o.gone, o.ok, o.told, o.left \cup {fd}, l)
  BY <1>7, <1>8, Zenon
<1>10. Moves(w, "svrtell", i, wk[w].st, wk[w].succ)
  BY <1>1, <1>2, GotoShape DEF Pc, InitPc
<1>11. QED
  BY <1>1, <1>2, <1>5, <1>6, <1>9, <1>10, Zenon

(* SvrRegister.                                                            *)
LEMMA SvrRegisterCore ==
  ASSUME NEW at, NEW from, NEW w \in Workers, Core(at, from), SvrRegister(w)
  PROVE  Core(at, from)'
<1>1. UNCHANGED workerFrame /\ UNCHANGED <<fdmap, usermap, outq, shells>>
  BY DEF SvrRegister
<1>2. wk[w].pc = "register" /\ Moves(w, "svrtell", wk[w].item, wk[w].st, wk[w].succ)
  BY SvrRegisterDoes
<1>3. /\ TypeOK /\ items \in [Items -> Item] /\ Stage(w) /\ wk[w].st = 0 /\ outq \in Seq(Out)
      /\ usermap \in [YyIDs -> Items \cup {0}] /\ shells \in Seq(YyIDs)
  BY <1>2, Known
<1>4. SameOrgs /\ \A i \in Items : items'[i].gone = items[i].gone
  <2>1. wk[w].fd # 0
    BY SvrRegisterDoes, FdsAssumption
  <2>2. QED
    BY <1>3, <2>1, SvrRegisterDoes, BecomesSteady DEF Becomes
<1>5. Stays(w) /\ wk'[w].item = wk[w].item /\ Cmd(w)' = Cmd(w) /\ wk'[w].pc # "openurl"
  BY <1>2, MovesStay DEF Moves
<1>6. Stage(w)'
  BY <1>2, <1>3, <1>5 DEF Moves, Stage, LoginPc, LogoutPc, UrlPc, InitPc
<1>7. QED
  BY <1>1, <1>2, <1>3, <1>4, <1>5, <1>6, StayCore

(* What SvrTell does.                                                      *)
LEMMA SvrTellDoes ==
  ASSUME NEW at, NEW from, NEW w \in Workers, Core(at, from), SvrTell(w)
  PROVE  LET i == wk[w].item
             o == items[i]
             fd == wk[w].fd
         IN  /\ wk[w].pc = "svrtell" /\ fd \in Fds /\ Drops(w) /\ outq' \in Seq(Out)
             /\ Becomes(i, o.yyID, o.shell, o.url, o.gone, o.ok, o.told \cup {<<fd, o.url>>}, o.left, o.late)
<1>1. wk[w].pc = "svrtell" /\ TellShell(w, wk[w].fd) /\ NextCmd(w)
  BY DEF SvrTell
<1>2. /\ TypeOK /\ wk \in [Workers -> Local] /\ Stage(w) /\ wk[w].item \in Items \cup {0}
      /\ wk[w].fd \in Fds /\ wk[w].msgs # <<>>
  BY <1>1, Known
<1>3. wk[w].item \in Items
  BY <1>1, <1>2 DEF Stage, InitPc
<1>4. Drops(w)
  BY <1>1, <1>2, NextDrops
<1>5. QED
  BY <1>1, <1>2, <1>3, <1>4, TellDoes

(* SvrTell.                                                                *)
LEMMA SvrTellCore ==
  ASSUME NEW at, NEW from, NEW w \in Workers, Core(at, from), SvrTell(w)
  PROVE  Core(at, from)'
<1>1. UNCHANGED workerFrame /\ UNCHANGED <<fdmap, usermap, shells>>
  BY DEF SvrTell
<1>2. wk[w].pc = "svrtell" /\ Drops(w) /\ outq' \in Seq(Out)
  BY SvrTellDoes
<1>3. TypeOK /\ items \in [Items -> Item]
  BY <1>2, Known
<1>4. SameOrgs /\ \A i \in Items : items'[i].gone = items[i].gone
  BY <1>3, SvrTellDoes, BecomesSteady DEF Becomes
<1>5. QED
  BY <1>1, <1>2, <1>4, DropCore

(* What LoginAccount does.                                                 *)
LEMMA LoginAccountDoes ==
  ASSUME NEW at, NEW from, NEW w \in Workers, Core(at, from), LoginAccount(w)
  PROVE  LET i == wk[w].item
             o == items[i]
             y == Cmd(w).y
         IN  /\ wk[w].pc \in {"adduser", "loop"} /\ wk[w].port = "client" /\ Cmd(w).cmd = "LOGIN"
             /\ y \in YyIDs /\ y # 0
             /\ Becomes(i, y, o.shell, o.url, o.gone, o.ok, o.told, o.left, o.late)
             /\ Moves(w, "check", i, wk[w].st, wk[w].succ)
             /\ usermap' \in [YyIDs -> Items \cup {0}]
             /\ \A z \in YyIDs : usermap'[z] \in {usermap[z], i}
<1> DEFINE i == wk[w].item
           o == items[i]
           y == Cmd(w).y
           x == [o EXCEPT !.yyID = y]
<1>1. /\ wk[w].pc = "adduser" \/ InSession(w, "LOGIN")
      /\ usermap' \in {[usermap EXCEPT ![y] = i], usermap}
      /\ items' = [items EXCEPT ![i].yyID = y]
      /\ Goto(w, "check")
  BY DEF LoginAccount
<1>2. wk[w].pc \in {"adduser", "loop"} /\ wk[w].pc # "idle"
  BY <1>1 DEF InSession, At
<1>3. /\ wk \in [Workers -> Local] /\ items \in [Items -> Item] /\ Stage(w)
      /\ i \in Items \cup {0} /\ usermap \in [YyIDs -> Items \cup {0}]
      /\ Cmd(w).cmd \in {"LOGIN", "SVR_INIT"} => y \in YyIDs
  BY <1>2, Known
<1>4. Cmd(w).cmd = "LOGIN" /\ i \in Items /\ wk[w].port = "client"
  BY <1>1, <1>3 DEF Stage, LoginPc, InSession, At
<1>5. y \in YyIDs /\ y # 0
  BY <1>3, <1>4, UsersAssumption
<1>6. o \in Item /\ items' = [items EXCEPT ![i] = x] /\ o = items[i]
  BY <1>1, <1>3, <1>4
<1>7. usermap' \in [YyIDs -> Items \cup {0}] /\ \A z \in YyIDs : usermap'[z] \in {usermap[z], i}
  BY <1>1, <1>3, <1>4, <1>5
<1> HIDE DEF o, y
<1>8. /\ x \in Item /\ x.left = o.left
      /\ x.org = o.org /\ x.gone = o.gone /\ x.yyID = y
      /\ x.shell = o.shell /\ x.late = o.late
      /\ x.url = o.url /\ x.ok = o.ok /\ x.told = o.told
  BY <1>5, <1>6 DEF Item
<1> HIDE DEF x
<1>9. Becomes(i, x.yyID, x.shell, x.url, x.gone, x.ok, x.told, x.left, x.late)
  BY <1>3, <1>4, <1>6, <1>8, RecordBecomes
<1>10. Moves(w, "check", i, wk[w].st, wk[w].succ)
  BY <1>1, <1>3, GotoShape DEF Pc, LoginPc
<1>11. QED
  BY <1>2, <1>4, <1>5, <1>6, <1>7, <1>8, <1>9, <1>10 DEF y

(* LoginAccount.                                                           *)
LEMMA LoginAccountCore ==
  ASSUME NEW at, NEW from, NEW w \in Workers, Core(at, from), LoginAccount(w)
  PROVE  Core(at, from)'
<1>1. UNCHANGED workerFrame /\ UNCHANGED <<fdmap, outq, shells>>
  BY DEF LoginAccount
<1>2. /\ wk[w].pc \in {"adduser", "loop"} /\ wk[w].port = "client" /\ Cmd(w).cmd = "LOGIN"
      /\ Moves(w, "check", wk[w].item, wk[w].st, wk[w].succ)
      /\ usermap' \in [YyIDs -> Items \cup {0}]
      /\ \A z \in YyIDs : usermap'[z] \in {usermap[z], wk[w].item}
      /\ wk[w].item \in Items /\ items'[wk[w].item].yyID # 0
  BY LoginAccountDoes DEF Becomes
<1>3. /\ TypeOK /\ items \in [Items -> Item] /\ wk[w].st = 0 /\ outq \in Seq(Out) /\ shells \in Seq(YyIDs)
  BY <1>2, Known
<1>4. SameOrgs /\ \A i \in Items : items'[i].gone = items[i].gone
  BY <1>3, LoginAccountDoes, BecomesSteady DEF Becomes
<1>5. Stays(w) /\ wk'[w].item = wk[w].item /\ Cmd(w)' = Cmd(w) /\ wk'[w].pc # "openurl"
      /\ wk'[w].port = wk[w].port /\ wk'[w].fd = wk[w].fd
  BY <1>2, MovesStay DEF Moves
<1>6. wk[w].item # 0
  BY <1>2, BoundsAssumption DEF Items
<1>7. Stage(w)'
  BY <1>2, <1>3, <1>5, <1>6 DEF Moves, Stage, LoginPc, LogoutPc, UrlPc, InitPc
<1>8. Steady(w)
  BY <1>1, <1>2, <1>4, <1>5 DEF Steady
<1>9. QED
  BY <1>1, <1>2, <1>3, <1>5, <1>7, <1>8, KeepCore

(* The session worker w serves is gone, and no longer under its descriptor.*)
Forgets(w) ==
  LET i == wk[w].item
      o == items[i]
  IN  /\ wk[w].pc = "delfd" /\ wk[w].fd \in Fds /\ wk[w].port = "client" /\ i # 0
      /\ Becomes(i, o.yyID, o.shell, o.url, TRUE, o.ok, o.told, o.left, o.late)
      /\ Drops(w)
      /\ fdmap' \in [Fds -> Items \cup {0}] /\ fdmap'[wk[w].fd] = 0
      /\ \A fd \in Fds \ {wk[w].fd} : fdmap'[fd] = fdmap[fd]

(* What LogoutDelFd does.                                                  *)
LEMMA LogoutDelFdDoes ==
  ASSUME NEW at, NEW from, NEW w \in Workers, Core(at, from), LogoutDelFd(w)
  PROVE  Forgets(w)
<1> DEFINE i == wk[w].item
           o == items[i]
           x == [o EXCEPT !.gone = TRUE]
<1>1. /\ wk[w].pc = "delfd" /\ fdmap' = [fdmap EXCEPT ![wk[w].fd] = 0] /\ NextCmd(w)
      /\ items' = [items EXCEPT ![i].gone = TRUE]
  BY DEF LogoutDelFd
<1>2. /\ TypeOK /\ wk \in [Workers -> Local] /\ items \in [Items -> Item] /\ Stage(w)
      /\ i \in Items \cup {0} /\ wk[w].fd \in Fds /\ wk[w].msgs # <<>>
  BY <1>1, Known
<1>3. i \in Items /\ i # 0 /\ wk[w].port = "client"
  BY <1>1, <1>2 DEF Stage, LogoutPc
<1>4. o \in Item /\ items' = [items EXCEPT ![i] = x] /\ o = items[i]
  BY <1>1, <1>2, <1>3
<1>5. /\ fdmap' \in [Fds -> Items \cup {0}] /\ fdmap'[wk[w].fd] = 0
      /\ \A fd \in Fds \ {wk[w].fd} : fdmap'[fd] = fdmap[fd]
  BY <1>1, <1>2 DEF TypeOK
<1> HIDE DEF o
<1>6. /\ x \in Item /\ x.left = o.left
      /\ x.org = o.org /\ x.gone = TRUE /\ x.yyID = o.yyID
      /\ x.shell = o.shell /\ x.late = o.late
      /\ x.url = o.url /\ x.ok = o.ok /\ x.told = o.told
  BY <1>4 DEF Item
<1> HIDE DEF x
<1>7. Becomes(i, x.yyID, x.shell, x.url, x.gone, x.ok, x.told, x.left, x.late)
  BY <1>2, <1>3, <1>4, <1>6, RecordBecomes
<1>8. Drops(w)
  BY <1>1, <1>2, NextDrops
<1>9. QED
  BY <1>1, <1>2, <1>3, <1>4, <1>5, <1>6, <1>7, <1>8 DEF Forgets

(* LogoutDelFd: the session that goes is the one its worker serves, so no  *)
(* other map entry dangles.                                                *)
LEMMA LogoutDelFdCore ==
  ASSUME NEW at, NEW from, NEW w \in Workers, Core(at, from), LogoutDelFd(w)
  PROVE  Core(at, from)'
<1>1. UNCHANGED workerFrame /\ UNCHANGED <<usermap, outq, shells>>
      /\ UNCHANGED <<open, port, inbox, conns, nmsg, jobs>>
  BY DEF LogoutDelFd, workerFrame, netVars
<1>2. /\ wk[w].pc = "delfd" /\ wk[w].fd \in Fds /\ wk[w].port = "client" /\ wk[w].item # 0
      /\ wk[w].item \in Items
      /\ Drops(w) /\ fdmap' \in [Fds -> Items \cup {0}] /\ fdmap'[wk[w].fd] = 0
      /\ \A fd \in Fds \ {wk[w].fd} : fdmap'[fd] = fdmap[fd]
      /\ \A j \in Items \ {wk[w].item} : items'[j].gone = items[j].gone
  <2>1. Forgets(w)
    BY LogoutDelFdDoes
  <2>2. QED
    BY <2>1 DEF Becomes, Forgets
<1>3. /\ TypeOK /\ items \in [Items -> Item] /\ wk[w].st = 0 /\ outq \in Seq(Out) /\ shells \in Seq(YyIDs)
      /\ usermap \in [YyIDs -> Items \cup {0}] /\ wk \in [Workers -> Local]
      /\ Mail(at, from) /\ Order /\ Fresh /\ Refs(at) /\ Accounts /\ Routed
      /\ \A v \in Workers : Stage(v)
  BY <1>2, Known DEF Core
<1>4. SameOrgs
  <2>1. ASSUME NEW j \in Items
        PROVE  /\ items'[j].org = items[j].org
               /\ items[j].yyID # 0 => items'[j].yyID # 0
               /\ items[j].shell # 0 => items'[j].shell # 0
    <3>1. Forgets(w)
      BY LogoutDelFdDoes
    <3>2. QED
      BY <3>1 DEF Becomes, Forgets
  <2>2. QED
    <3>1. Forgets(w)
      BY <2>1, LogoutDelFdDoes
    <3>2. QED
      BY <2>1, <3>1 DEF SameOrgs, Becomes, Forgets
<1>5. Others(w) /\ wk'[w].pc # "openurl" /\ wk'[w].pc # "adduser"
  BY <1>2 DEF Drops, Idle
<1>6. TypeOK'
  BY <1>1, <1>2, <1>3, <1>4, <1>5, KeepType DEF SameOrgs
<1>7. (\A v \in Workers : Stage(v)') /\ Routed'
  BY <1>2, <1>3, <1>4, <1>5, DropStage, KeepStage, KeepRouted
<1>8. Mail(at, from)' /\ Order' /\ Fresh'
  BY <1>1, <1>2, <1>3, <1>4, KeepMail, KeepOrder, KeepFresh
<1>9. Accounts'
  BY <1>2, <1>3, <1>4, <1>5, KeepAccounts
<1>10. Refs(at)'
  <2>1. /\ \A v \in Workers : wk[v].item # 0 => wk[v].item \in Items
        /\ \A fd \in Fds : fdmap[fd] # 0 => fdmap[fd] \in Items
        /\ \A y \in YyIDs : usermap[y] # 0 => usermap[y] \in Items
    BY <1>3, TypeLocal DEF Local, TypeOK
  <2>2. at[items[wk[w].item].org] = wk[w].fd
    BY <1>2, <1>3 DEF Refs
  <2>3. ASSUME NEW fd \in Fds, fdmap'[fd] # 0
        PROVE  /\ items'[fdmap'[fd]].org # 0 /\ at[items'[fdmap'[fd]].org] = fd
               /\ ~items'[fdmap'[fd]].gone
    <3>1. fd # wk[w].fd /\ fdmap'[fd] = fdmap[fd] /\ fdmap[fd] # 0
      BY <1>2, <2>3
    <3>2. /\ fdmap[fd] \in Items /\ items[fdmap[fd]].org # 0 /\ at[items[fdmap[fd]].org] = fd
          /\ ~items[fdmap[fd]].gone
      BY <1>3, <2>1, <3>1 DEF Refs
    <3>3. fdmap[fd] # wk[w].item
      BY <2>2, <3>1, <3>2
    <3>4. QED
      BY <1>2, <1>4, <3>1, <3>2, <3>3 DEF SameOrgs
  <2>4. \A y \in YyIDs : usermap'[y] # 0 => items'[usermap'[y]].org # 0
    BY <1>1, <1>3, <1>4, <2>1 DEF Refs, SameOrgs
  <2>5. ASSUME NEW v \in Workers, wk'[v].item # 0
        PROVE  /\ items'[wk'[v].item].org # 0
               /\ wk'[v].port = "client" => at[items'[wk'[v].item].org] = wk'[v].fd
    <3>1. wk'[v].item = wk[v].item /\ wk'[v].port = wk[v].port /\ wk'[v].fd = wk[v].fd
      BY <1>2, <2>5 DEF Drops, Others, Idle
    <3>2. QED
      BY <1>3, <1>4, <2>1, <2>5, <3>1 DEF Refs, SameOrgs
  <2>6. QED
    BY <2>3, <2>4, <2>5 DEF Refs
<1>11. QED
  BY <1>6, <1>7, <1>8, <1>9, <1>10 DEF Core

(* LoginNew leaves Item_data i, made for connection c, in the maps.        *)
Makes(w, i, c, at, from) ==
  /\ wk[w].pc = "loop" /\ Cmd(w).cmd = "LOGIN" /\ wk[w].port = "client" /\ wk[w].item = 0
  /\ i \in Items /\ i # 0 /\ i \in 1 .. nmsg /\ c # 0 /\ c \in Conns /\ wk[w].fd \in Fds
  /\ from[i] = c /\ at[c] = wk[w].fd /\ items[i].org = 0
  /\ NewItem(c) \in Item /\ items' \in [Items -> Item] /\ items'[i] = NewItem(c)
  /\ \A j \in Items \ {i} : items'[j] = items[j]
  /\ Moves(w, "adduser", i, wk[w].st, wk[w].succ)
  /\ fdmap' \in [Fds -> Items \cup {0}] /\ fdmap'[wk[w].fd] = i
  /\ \A fd \in Fds \ {wk[w].fd} : fdmap'[fd] = fdmap[fd]

(* What LoginNew does: the Item_data is new, and made for the connection   *)
(* the command came from.                                                  *)
LEMMA LoginNewDoes ==
  ASSUME NEW at, NEW from, NEW w \in Workers, Core(at, from), LoginNew(w)
  PROVE  Makes(w, Cmd(w).n, wk[w].org, at, from)
<1> DEFINE i == Cmd(w).n
           c == wk[w].org
           x == NewItem(c)
           k == wk[w]
           d == [k EXCEPT !.item = i, !.pc = "adduser"]
<1>1. /\ wk[w].pc = "loop" /\ Cmd(w).cmd = "LOGIN" /\ wk[w].port = "client" /\ wk[w].item = 0
      /\ items' = [items EXCEPT ![i] = x] /\ fdmap' = [fdmap EXCEPT ![wk[w].fd] = i]
      /\ wk' = [wk EXCEPT ![w].item = i, ![w].pc = "adduser"]
  BY DEF LoginNew, At
<1>2. TypeOK /\ Mail(at, from) /\ Fresh /\ wk \in [Workers -> Local] /\ items \in [Items -> Item]
  BY <1>1, Known DEF Core
<1>3. wk[w].fd \in Fds /\ c \in 0 .. MaxConns /\ i \in 0 .. MaxMsgs
  BY <1>1, <1>2, AtWork
<1>4. c # 0
  <2>1. LogoutCmd.cmd = "LOGOUT"
    BY DEF LogoutCmd
  <2>2. QED
    BY <1>1, <1>2, <2>1, AtWork
<1>5. i \in 1 .. nmsg /\ from[i] = c /\ at[c] = wk[w].fd
  BY <1>1, <1>2, <1>4, AtWork
<1>6. i \in Items /\ i # 0 /\ c \in Conns
  BY <1>3, <1>4, <1>5, BoundsAssumption DEF Items, Conns
<1>7. items[i].org = 0
  BY <1>1, <1>2, <1>6 DEF Fresh
<1>8. k \in Local /\ wk' = [wk EXCEPT ![w] = d] /\ k = wk[w]
  BY <1>1, <1>2
<1> HIDE DEF k, i, c
<1>9. x \in Item
  <2>1. 0 \in 0 .. MaxMsgs /\ 0 \in YyIDs \cup {0} /\ 0 \in Fds \cup {0}
        /\ {} \in SUBSET (Fds \X (0 .. MaxMsgs)) /\ {} \in SUBSET Fds
    BY BoundsAssumption
  <2>2. QED
    BY <1>3, <2>1, Zenon DEF NewItem, Item
<1> HIDE DEF x
<1>10. /\ items' \in [Items -> Item] /\ items'[i] = x /\ \A j \in Items \ {i} : items'[j] = items[j]
  BY <1>1, <1>2, <1>6, <1>9
<1>11. /\ fdmap' \in [Fds -> Items \cup {0}] /\ fdmap'[wk[w].fd] = i
       /\ \A fd \in Fds \ {wk[w].fd} : fdmap'[fd] = fdmap[fd]
  BY <1>1, <1>2, <1>3, <1>6 DEF TypeOK
<1>12. "adduser" \in Pc
  BY DEF Pc, LoginPc
<1>13. /\ d \in Local /\ d.pc = "adduser" /\ d.item = i /\ d.st = k.st /\ d.succ = k.succ
      /\ d.fd = k.fd /\ d.port = k.port /\ d.org = k.org /\ d.msgs = k.msgs
  BY <1>6, <1>8, <1>12 DEF Local
<1> HIDE DEF d
<1>14. Moves(w, d.pc, d.item, d.st, d.succ)
  BY <1>2, <1>8, <1>13, LocalMoves
<1>15. Moves(w, "adduser", i, wk[w].st, wk[w].succ)
  BY <1>8, <1>13, <1>14
<1>16. QED
  BY <1>1, <1>3, <1>4, <1>5, <1>6, <1>7, <1>9, <1>10, <1>11, <1>15 DEF Makes, x, i, c

(* Session i is new: commands of other numbers stay without one.           *)
LEMMA NewUnmade ==
  ASSUME NEW i, \A j \in Items \ {i} : items'[j] = items[j], NEW s \in Seq(Msg), Unmade(s),
         \A k \in 1 .. Len(s) : s[k].n # i
  PROVE  \A k \in 1 .. Len(s) : s[k].n # 0 => items'[s[k].n].org = 0
<1>1. ASSUME NEW k \in 1 .. Len(s), s[k].n # 0
      PROVE  items'[s[k].n].org = 0
  <2>1. s[k] \in Msg
    BY ElementOfSeq
  <2>2. s[k].n \in 0 .. MaxMsgs
    BY <2>1 DEF Msg
  <2>3. s[k].n \in Items
    BY <1>1, <2>2, BoundsAssumption DEF Items
  <2>4. QED
    BY <1>1, <2>3 DEF Unmade
<1>2. QED
  BY <1>1

(* The commands of another connection have other numbers.                  *)
LEMMA OtherNumbers ==
  ASSUME NEW from, NEW s, NEW p, NEW c, MsgsOK(s, p, c, from), NEW i, i # 0, from[i] # c
  PROVE  \A k \in 1 .. Len(s) : s[k].n # i
<1> SUFFICES ASSUME NEW k \in 1 .. Len(s), s[k].n = i
             PROVE  FALSE
  OBVIOUS
<1>1. MsgOK(s[k], p, c, from)
  BY DEF MsgsOK
<1>2. s[k].cmd # "SVR_INIT"
  BY <1>1 DEF MsgOK
<1>3. c # 0
  BY <1>1 DEF MsgOK, LogoutCmd
<1>4. QED
  BY <1>1, <1>2, <1>3 DEF MsgOK

(* No other command on its way is the one the session is named after.      *)
LEMMA LoginNewFresh ==
  ASSUME NEW at, NEW from, NEW w \in Workers, Core(at, from), LoginNew(w)
  PROVE  Fresh'
<1> DEFINE i == Cmd(w).n
           c == wk[w].org
<1>0. UNCHANGED <<port, inbox, conns, nmsg, jobs>>
  BY DEF LoginNew, workerFrame, netVars
<1>1. /\ wk[w].pc = "loop" /\ i \in Items /\ i # 0 /\ i \in 1 .. nmsg /\ c # 0 /\ c \in Conns
      /\ from[i] = c /\ at[c] = wk[w].fd
      /\ \A j \in Items \ {i} : items'[j] = items[j]
      /\ Moves(w, "adduser", i, wk[w].st, wk[w].succ)
  <2>1. Makes(w, i, c, at, from)
    BY LoginNewDoes
  <2> HIDE DEF i, c
  <2>2. QED
    BY <2>1 DEF Makes
<1>2. TypeOK /\ Mail(at, from) /\ Fresh /\ Order
  BY DEF Core
<1>3. /\ wk[w].msgs \in Seq(Msg) /\ wk[w].msgs # <<>> /\ ThreadOf(wk[w].fd) = w
      /\ WorkOK(wk[w], w, at, from)
  BY <1>1, <1>2, AtWork DEF Mail
<1>4. Cmd(w) = wk[w].msgs[1] /\ 1 \in 1 .. Len(wk[w].msgs) /\ Len(wk[w].msgs) \in Nat
  BY <1>3, TailFacts DEF Cmd
<1>5. ASSUME NEW s \in Seq(Msg), Before(wk[w].msgs, s)
      PROVE  \A k \in 1 .. Len(s) : s[k].n # i
  <2>1. \A k \in 1 .. Len(s) : i < s[k].n
    BY <1>4, <1>5 DEF Before
  <2>2. ASSUME NEW k \in 1 .. Len(s)
        PROVE  s[k].n # i
    <3>1. i < s[k].n /\ i \in Nat
      BY <1>1, <2>1
    <3>2. QED
      BY <3>1
  <2>3. QED
    BY <2>2
<1>6. ASSUME NEW d \in Conns
      PROVE  Unmade(inbox[d])'
  <2>1. inbox[d] \in Seq(Msg) /\ Unmade(inbox[d]) /\ MsgsOK(inbox[d], port[d], d, from)
    BY <1>2 DEF TypeOK, Fresh, Mail
  <2>2. CASE d = c
    <3>1. Before(wk[w].msgs, inbox[d])
      BY <1>1, <1>3, <2>2 DEF WorkOK
    <3>2. \A k \in 1 .. Len(inbox[d]) : inbox[d][k].n # i
      BY <1>5, <2>1, <3>1
    <3>3. QED
      BY <1>0, <1>1, <2>1, <3>2, NewUnmade DEF Unmade
  <2>3. CASE d # c
    <3>1. \A k \in 1 .. Len(inbox[d]) : inbox[d][k].n # i
      BY <1>1, <2>1, <2>3, OtherNumbers
    <3>2. QED
      BY <1>0, <1>1, <2>1, <3>1, NewUnmade DEF Unmade
  <2>4. QED
    BY <2>2, <2>3
<1>7. ASSUME NEW n \in Items
      PROVE  items'[n].org <= conns /\ (n > nmsg => items'[n].org = 0)
  <2>1. CASE n # i
    BY <1>1, <1>2, <2>1 DEF Fresh
  <2>2. CASE n = i
    <3>1. items'[n] = NewItem(c)
      <4>1. Makes(w, Cmd(w).n, wk[w].org, at, from)
        BY <2>2, LoginNewDoes
      <4>2. QED
        BY <2>2, <4>1 DEF Makes
    <3>2. NewItem(c).org = c /\ c <= conns
      BY <1>1, <1>3 DEF NewItem, WorkOK
    <3>3. ~(n > nmsg)
      BY <1>1, <1>2, <2>2 DEF TypeOK
    <3>4. QED
      BY <3>1, <3>2, <3>3
  <2>3. QED
    BY <2>1, <2>2
<1>8. ASSUME NEW v \in Workers, NEW j \in 1 .. Len(jobs[v])
      PROVE  Unmade(jobs[v][j].msgs)'
  <2> DEFINE x == jobs[v][j]
  <2>1. x.msgs \in Seq(Msg) /\ Unmade(x.msgs) /\ WorkOK(x, v, at, from)
    BY <1>2, MsgsOfJob DEF Fresh, Mail
  <2>2. CASE x.org = c
    <3>1. v = w
      BY <1>1, <1>3, <2>1, <2>2 DEF WorkOK
    <3>2. Before(wk[w].msgs, x.msgs)
      BY <1>1, <1>2, <2>2, <3>1 DEF Order
    <3>3. \A k \in 1 .. Len(x.msgs) : x.msgs[k].n # i
      BY <1>5, <2>1, <3>2
    <3>4. QED
      BY <1>0, <1>1, <2>1, <3>3, NewUnmade DEF Unmade
  <2>3. CASE x.org # c
    <3>1. MsgsOK(x.msgs, x.port, x.org, from)
      BY <2>1 DEF WorkOK
    <3>2. \A k \in 1 .. Len(x.msgs) : x.msgs[k].n # i
      BY <1>1, <2>3, <3>1, OtherNumbers
    <3>3. QED
      BY <1>0, <1>1, <2>1, <3>2, NewUnmade DEF Unmade
  <2>4. QED
    BY <2>2, <2>3
<1>9. ASSUME NEW v \in Workers, wk'[v].pc # "idle"
      PROVE  (/\ Unmade(Tail(wk[v].msgs))
              /\ wk[v].pc = "loop" /\ Cmd(v).n # 0 => items[Cmd(v).n].org = 0)'
  <2>1. CASE v = w
    <3>1. wk'[w].msgs = wk[w].msgs /\ wk'[w].pc # "loop"
      BY <1>1 DEF Moves
    <3> DEFINE t == Tail(wk[w].msgs)
    <3>2. /\ t \in Seq(Msg) /\ Unmade(t) /\ Len(t) = Len(wk[w].msgs) - 1
          /\ \A k \in 1 .. Len(wk[w].msgs) - 1 : t[k] = wk[w].msgs[k + 1]
      BY <1>1, <1>2, <1>3, TailFacts DEF Fresh
    <3> HIDE DEF t
    <3>3. ASSUME NEW k \in 1 .. Len(t)
          PROVE  t[k].n # i
      <4>1. t[k] = wk[w].msgs[k + 1] /\ k + 1 \in 1 .. Len(wk[w].msgs) /\ 1 < k + 1
        BY <1>4, <3>2
      <4>2. i < t[k].n /\ i \in Nat
        BY <1>1, <1>3, <1>4, <4>1 DEF WorkOK, MsgsOK
      <4>3. QED
        BY <4>2
    <3>4. Unmade(t)'
      <4>1. \A k \in 1 .. Len(t) : t[k].n # 0 => items'[t[k].n].org = 0
        BY <1>1, <3>2, <3>3, NewUnmade
      <4>2. QED
        BY <3>1, <4>1 DEF Unmade, t
    <3>5. QED
      BY <2>1, <3>1, <3>4 DEF t
  <2>2. CASE v # w
    <3>1. wk'[v] = wk[v]
      BY <1>1, <2>2 DEF Moves
    <3>2. /\ wk[v].msgs \in Seq(Msg) /\ wk[v].msgs # <<>> /\ WorkOK(wk[v], v, at, from)
          /\ Unmade(Tail(wk[v].msgs)) /\ Cmd(v).n \in 0 .. MaxMsgs
          /\ wk[v].pc = "loop" /\ Cmd(v).n # 0 => items[Cmd(v).n].org = 0
      BY <1>2, <1>9, <3>1, AtWork DEF Mail, Fresh
    <3>3. wk[v].org # c
      BY <1>1, <1>3, <2>2, <3>2 DEF WorkOK
    <3>4. \A k \in 1 .. Len(wk[v].msgs) : wk[v].msgs[k].n # i
      <4>1. MsgsOK(wk[v].msgs, wk[v].port, wk[v].org, from)
        BY <3>2 DEF WorkOK
      <4>2. QED
        BY <1>1, <3>3, <4>1, OtherNumbers
    <3> DEFINE s == wk[v].msgs
               t == Tail(s)
    <3>5. /\ t \in Seq(Msg) /\ Unmade(t) /\ Len(t) = Len(s) - 1 /\ Len(s) \in Nat
          /\ \A k \in 1 .. Len(s) - 1 : t[k] = s[k + 1]
          /\ Head(s) = s[1] /\ Len(s) >= 1
      BY <3>2, TailFacts
    <3> HIDE DEF t, s
    <3>6. \A k \in 1 .. Len(t) : t[k] = s[k + 1] /\ k + 1 \in 1 .. Len(s)
      BY <3>5
    <3>7. \A k \in 1 .. Len(t) : t[k].n # i
      BY <3>4, <3>6 DEF s
    <3>8. \A k \in 1 .. Len(t) : t[k].n # 0 => items'[t[k].n].org = 0
      BY <1>1, <3>5, <3>7, NewUnmade
    <3>9. Unmade(Tail(wk[v].msgs))'
      BY <3>1, <3>8 DEF Unmade, t, s
    <3>10. Cmd(v)' = Cmd(v) /\ Cmd(v) = s[1] /\ 1 \in 1 .. Len(s)
      BY <3>1, <3>5 DEF Cmd, s
    <3>11. Cmd(v).n # i
      BY <3>4, <3>10 DEF s
    <3>12. Cmd(v).n # 0 => Cmd(v).n \in Items
      BY <3>2, BoundsAssumption DEF Items
    <3>13. QED
      BY <1>1, <3>1, <3>2, <3>9, <3>10, <3>11, <3>12
  <2>3. QED
    BY <2>1, <2>2
<1>10. QED
  BY <1>0, <1>6, <1>7, <1>8, <1>9 DEF Fresh

(* LoginNew.                                                               *)
LEMMA LoginNewCore ==
  ASSUME NEW at, NEW from, NEW w \in Workers, Core(at, from), LoginNew(w)
  PROVE  Core(at, from)'
<1> DEFINE i == Cmd(w).n
           c == wk[w].org
<1>0. /\ UNCHANGED workerFrame /\ UNCHANGED <<usermap, outq, shells>>
      /\ UNCHANGED <<open, port, inbox, conns, nmsg, jobs>>
  BY DEF LoginNew, workerFrame, netVars
<1>1. /\ wk[w].pc = "loop" /\ Cmd(w).cmd = "LOGIN" /\ wk[w].port = "client" /\ wk[w].item = 0
      /\ i \in Items /\ i # 0 /\ c # 0 /\ at[c] = wk[w].fd /\ items[i].org = 0
      /\ items' \in [Items -> Item] /\ items'[i] = NewItem(c)
      /\ \A j \in Items \ {i} : items'[j] = items[j]
      /\ Moves(w, "adduser", i, wk[w].st, wk[w].succ)
      /\ fdmap' \in [Fds -> Items \cup {0}] /\ fdmap'[wk[w].fd] = i
      /\ \A fd \in Fds \ {wk[w].fd} : fdmap'[fd] = fdmap[fd]
  <2>1. Makes(w, i, c, at, from) /\ Cmd(w).n = i
    BY LoginNewDoes
  <2> HIDE DEF i, c
  <2>2. QED
    BY <2>1 DEF Makes
<1>2. /\ TypeOK /\ Mail(at, from) /\ Order /\ Refs(at) /\ Accounts /\ Routed
      /\ \A v \in Workers : Stage(v)
  BY DEF Core
<1>3. /\ usermap \in [YyIDs -> Items \cup {0}] /\ outq \in Seq(Out) /\ shells \in Seq(YyIDs)
      /\ wk[w].st = 0
  BY <1>1, Known
<1>4. Stays(w) /\ Others(w) /\ Cmd(w)' = Cmd(w) /\ wk'[w].item = i /\ wk'[w].port = "client"
      /\ wk'[w].fd = wk[w].fd /\ wk'[w].pc = "adduser"
  BY <1>1, MovesStay DEF Stays, Moves
<1> HIDE DEF i, c
<1>5. TypeOK'
  BY <1>0, <1>1, <1>2, <1>3, <1>4, KeepType
<1>6. Mail(at, from)' /\ Order' /\ Fresh'
  BY <1>0, <1>1, <1>2, <1>4, KeepMail, KeepOrder, LoginNewFresh
<1>7. \A v \in Workers : Stage(v)'
  <2>1. Stage(w)'
    BY <1>1, <1>3, <1>4 DEF Moves, Stage, LoginPc, LogoutPc, UrlPc, InitPc
  <2>2. QED
    BY <1>2, <1>4, <2>1, KeepStage
<1>8. /\ \A v \in Workers : wk[v].item # 0 => wk[v].item \in Items \ {i}
      /\ \A fd \in Fds : fdmap[fd] # 0 => fdmap[fd] \in Items \ {i}
      /\ \A y \in YyIDs : usermap[y] # 0 => usermap[y] \in Items \ {i}
  <2>1. /\ \A v \in Workers : wk[v].item # 0 => wk[v].item \in Items
        /\ \A fd \in Fds : fdmap[fd] # 0 => fdmap[fd] \in Items
        /\ \A y \in YyIDs : usermap[y] # 0 => usermap[y] \in Items
    BY <1>2, TypeLocal DEF Local, TypeOK
  <2>2. QED
    BY <1>1, <1>2, <2>1 DEF Refs
<1>9. NewItem(c).org = c /\ ~NewItem(c).gone
  BY DEF NewItem
<1>10. Routed'
  <2>1. ASSUME NEW v \in Workers, wk'[v].pc = "openurl"
        PROVE  items'[wk'[v].item].shell # 0
    <3>1. v # w /\ wk'[v] = wk[v]
      BY <1>4, <2>1 DEF Others
    <3>2. wk[v].item \in Items \ {i} /\ items[wk[v].item].shell # 0
      BY <1>2, <1>8, <2>1, <3>1 DEF Stage, UrlPc, Routed
    <3>3. QED
      BY <1>1, <3>1, <3>2
  <2>2. QED
    BY <2>1 DEF Routed
<1>11. Refs(at)'
  <2>1. ASSUME NEW fd \in Fds, fdmap'[fd] # 0
        PROVE  /\ items'[fdmap'[fd]].org # 0 /\ at[items'[fdmap'[fd]].org] = fd
               /\ ~items'[fdmap'[fd]].gone
    <3>1. CASE fd = wk[w].fd
      BY <1>1, <1>9, <3>1
    <3>2. CASE fd # wk[w].fd
      BY <1>1, <1>2, <1>8, <2>1, <3>2 DEF Refs
    <3>3. QED
      BY <3>1, <3>2
  <2>2. \A y \in YyIDs : usermap'[y] # 0 => items'[usermap'[y]].org # 0
    BY <1>0, <1>1, <1>2, <1>8 DEF Refs
  <2>3. ASSUME NEW v \in Workers, wk'[v].item # 0
        PROVE  /\ items'[wk'[v].item].org # 0
               /\ wk'[v].port = "client" => at[items'[wk'[v].item].org] = wk'[v].fd
    <3>1. CASE v = w
      BY <1>1, <1>4, <1>9, <3>1
    <3>2. CASE v # w
      BY <1>1, <1>2, <1>4, <1>8, <2>3, <3>2 DEF Refs, Others
    <3>3. QED
      BY <3>1, <3>2
  <2>4. QED
    BY <2>1, <2>2, <2>3 DEF Refs
<1>12. Accounts'
  <2>1. ASSUME NEW j \in Items, items'[j].org # 0, items'[j].yyID = 0
        PROVE  \E v \in Workers : wk'[v].pc = "adduser" /\ wk'[v].item = j
    <3>1. CASE j = i
      BY <1>4, <3>1
    <3>2. CASE j # i
      <4>1. PICK v \in Workers : wk[v].pc = "adduser" /\ wk[v].item = j
        BY <1>1, <1>2, <2>1, <3>2 DEF Accounts
      <4>2. QED
        BY <1>1, <1>4, <4>1 DEF Others
    <3>3. QED
      BY <3>1, <3>2
  <2>2. QED
    BY <2>1 DEF Accounts
<1>13. QED
  BY <1>5, <1>6, <1>7, <1>10, <1>11, <1>12 DEF Core

(* A worker takes the first job of its queue: j is the job, and becomes    *)
(* the worker's locals.                                                    *)
Takes(w, j) ==
  /\ wk[w].pc = "idle" /\ Others(w) /\ wk'[w].pc = "loop" /\ wk'[w].fd = j.fd
  /\ wk'[w].port = j.port /\ wk'[w].org = j.org /\ wk'[w].msgs = j.msgs
  /\ wk'[w].st = 0 /\ wk'[w].succ = TRUE
  /\ j.port = "client" => wk'[w].item = fdmap[j.fd]
  /\ j.port # "client" => wk'[w].item = 0

(* The first job leaves the queue of w.                                    *)
Pops(w) ==
  /\ Len(jobs[w]) \in Nat /\ Len(jobs[w]) >= 1
  /\ jobs' \in [Workers -> Seq(Job)] /\ \A v \in Workers \ {w} : jobs'[v] = jobs[v]
  /\ Len(jobs'[w]) = Len(jobs[w]) - 1
  /\ \A i \in 1 .. Len(jobs[w]) - 1 : jobs'[w][i] = jobs[w][i + 1]

(* What TakeJob does.                                                      *)
LEMMA TakeJobDoes ==
  ASSUME NEW at, NEW from, NEW w \in Workers, Core(at, from), TakeJob(w)
  PROVE  /\ Takes(w, jobs[w][1]) /\ Pops(w)
         /\ jobs[w][1] \in Job /\ WorkOK(jobs[w][1], w, at, from)
<1> DEFINE s == jobs[w]
           j == s[1]
           it == IF j.port = "client" THEN fdmap[j.fd] ELSE 0
           d == [Idle EXCEPT !.pc = "loop", !.fd = j.fd, !.port = j.port,
                             !.org = j.org, !.msgs = j.msgs, !.item = it]
<1>1. TypeOK /\ Mail(at, from) /\ jobs \in [Workers -> Seq(Job)] /\ wk \in [Workers -> Local]
  BY TypeLocal DEF Core, TypeOK
<1>2. /\ wk[w].pc = "idle" /\ s # <<>> /\ jobs' = [jobs EXCEPT ![w] = Tail(s)]
  BY DEF TakeJob
<1>3. /\ s \in Seq(Job) /\ Len(s) \in Nat /\ Len(s) >= 1 /\ Head(s) = s[1] /\ j \in Job
      /\ Tail(s) \in Seq(Job) /\ Len(Tail(s)) = Len(s) - 1
      /\ \A i \in 1 .. Len(s) - 1 : Tail(s)[i] = s[i + 1]
  <2>1. s \in Seq(Job)
    BY <1>1
  <2>2. QED
    BY <1>2, <2>1, TailFacts
<1>4. wk' = [wk EXCEPT ![w] = d]
  <2>1. wk' = [wk EXCEPT ![w] =
                [Idle EXCEPT !.pc = "loop", !.fd = Head(s).fd, !.port = Head(s).port,
                             !.org = Head(s).org, !.msgs = Head(s).msgs,
                             !.item = IF Head(s).port = "client" THEN fdmap[Head(s).fd] ELSE 0]]
    BY DEF TakeJob
  <2>2. Head(s) = j
    BY <1>3
  <2> HIDE DEF j
  <2>3. QED
    BY <2>1, <2>2, Zenon
<1>5. WorkOK(j, w, at, from)
  <2>1. 1 \in 1 .. Len(jobs[w])
    BY <1>3
  <2>2. QED
    BY <1>1, <2>1 DEF Mail
<1>6. d \in Local
  <2>1. j.fd \in Fds /\ j.port \in {"client", "shell"} /\ j.org \in 0 .. MaxConns /\ j.msgs \in Seq(Msg)
    BY <1>3 DEF Job
  <2>2. it \in Items \cup {0}
    BY <1>1, <2>1 DEF TypeOK
  <2>3. "loop" \in Pc /\ 0 \in 0 .. MaxMsgs /\ TRUE \in BOOLEAN
    BY BoundsAssumption DEF Pc
  <2> HIDE DEF it, j
  <2>4. QED
    BY <2>1, <2>2, <2>3, IdleLocal, Zenon DEF Local
<1>7. /\ d.pc = "loop" /\ d.fd = j.fd /\ d.port = j.port /\ d.org = j.org /\ d.msgs = j.msgs
      /\ d.item = it /\ d.st = 0 /\ d.succ = TRUE
  <2> HIDE DEF it, j
  <2>1. QED
    BY Zenon DEF Idle
<1>8. it = IF j.port = "client" THEN fdmap[j.fd] ELSE 0
  OBVIOUS
<1> HIDE DEF d, j, it
<1>9. Others(w) /\ wk'[w] = d
  BY <1>1, <1>4, <1>6 DEF Others
<1>10. /\ jobs' \in [Workers -> Seq(Job)] /\ \A v \in Workers \ {w} : jobs'[v] = jobs[v]
       /\ jobs'[w] = Tail(s)
  BY <1>1, <1>2, <1>3
<1>11. Len(jobs'[w]) = Len(s) - 1 /\ \A i \in 1 .. Len(s) - 1 : jobs'[w][i] = jobs[w][i + 1]
  BY <1>3, <1>10
<1>12. Takes(w, j)
  BY <1>2, <1>7, <1>8, <1>9, Zenon DEF Takes
<1>13. Pops(w)
  BY <1>3, <1>10, <1>11 DEF Pops
<1>14. QED
  BY <1>3, <1>5, <1>12, <1>13 DEF j

(* TakeJob: a queued job is accounted for, so the locals taken from it     *)
(* are.                                                                    *)
LEMMA TakeJobCore ==
  ASSUME NEW at, NEW from, NEW w \in Workers, Core(at, from), TakeJob(w)
  PROVE  Core(at, from)'
<1> DEFINE j == jobs[w][1]
           L == Len(jobs[w])
<1>0. UNCHANGED <<open, port, inbox, conns, nmsg, items, fdmap, usermap>>
  BY DEF TakeJob, netVars
<1>1. /\ wk[w].pc = "idle" /\ L \in Nat /\ L >= 1 /\ j \in Job /\ WorkOK(j, w, at, from)
      /\ Others(w) /\ wk'[w].pc = "loop" /\ wk'[w].fd = j.fd /\ wk'[w].port = j.port
      /\ wk'[w].org = j.org /\ wk'[w].msgs = j.msgs /\ wk'[w].st = 0
  <2>1. Takes(w, j) /\ Pops(w) /\ j \in Job /\ WorkOK(j, w, at, from)
    BY TakeJobDoes
  <2> HIDE DEF j
  <2>2. QED
    BY <2>1 DEF Takes, Pops
<1>2. wk'[w].item = IF j.port = "client" THEN fdmap[j.fd] ELSE 0
  <2>1. Takes(w, j)
    BY TakeJobDoes
  <2> HIDE DEF j
  <2>2. QED
    BY <2>1 DEF Takes
<1>3a. Pops(w)
  BY TakeJobDoes
<1>3. /\ jobs' \in [Workers -> Seq(Job)] /\ \A v \in Workers \ {w} : jobs'[v] = jobs[v]
      /\ Len(jobs'[w]) = L - 1
  BY <1>3a DEF Pops
<1>4. \A i \in 1 .. Len(jobs'[w]) : jobs'[w][i] = jobs[w][i + 1] /\ i + 1 \in 1 .. L /\ 1 < i + 1
  <2>1. \A i \in 1 .. L - 1 : jobs'[w][i] = jobs[w][i + 1]
    BY <1>3a DEF Pops
  <2>2. QED
    BY <1>1, <1>3, <2>1
<1>5. /\ TypeOK /\ Mail(at, from) /\ Order /\ Refs(at) /\ Accounts /\ Routed /\ Fresh
      /\ \A v \in Workers : Stage(v)
  BY DEF Core
<1>6. 1 \in 1 .. L /\ j.msgs \in Seq(Msg) /\ j.fd \in Fds /\ j.msgs # <<>>
  BY <1>1 DEF Job, WorkOK
<1> HIDE DEF j, L
<1>7. TypeOK'
  <2>1. wk' \in [Workers -> Local]
    BY <1>1 DEF Others
  <2>2. QED
    BY <1>3, <1>5, <2>1, Zenon DEF TypeOK, TakeJob, netVars, Local
<1>8. (\A v \in Workers : Stage(v)') /\ Routed'
  <2>1. Stage(w)'
    BY <1>1, <1>2 DEF Stage, LoginPc, LogoutPc, UrlPc, InitPc
  <2>2. Routed'
    BY <1>0, <1>1, <1>5 DEF Routed, Others
  <2>3. QED
    BY <1>1, <1>5, <2>1, <2>2, KeepStage
<1>9. Mail(at, from)'
  <2>1. ASSUME NEW v \in Workers, NEW i \in 1 .. Len(jobs'[v])
        PROVE  WorkOK(jobs'[v][i], v, at, from)
    <3>1. CASE v = w
      BY <1>4, <1>5, <3>1 DEF Mail, L
    <3>2. CASE v # w
      BY <1>3, <1>5, <3>2 DEF Mail
    <3>3. QED
      BY <3>1, <3>2
  <2>2. ASSUME NEW v \in Workers, NEW i \in 1 .. Len(jobs'[v])
        PROVE  WorkOK(jobs[v][i], v, at, from)'
    BY <1>0, <2>1 DEF WorkOK, MsgsOK, MsgOK, Before, ThreadOf
  <2>3. ASSUME NEW v \in Workers, wk'[v].pc # "idle"
        PROVE  WorkOK(wk[v], v, at, from)'
    <3>1. CASE v = w
      <4>1. WorkOK(j, w, at, from) /\ wk'[w].fd = j.fd /\ wk'[w].port = j.port
            /\ wk'[w].org = j.org /\ wk'[w].msgs = j.msgs
        BY <1>1
      <4>2. WorkOK(wk'[w], w, at, from)
        BY <4>1 DEF WorkOK
      <4>3. QED
        BY <1>0, <3>1, <4>2 DEF WorkOK, MsgsOK, MsgOK, Before, ThreadOf
    <3>2. CASE v # w
      <4>1. wk'[v] = wk[v] /\ WorkOK(wk[v], v, at, from)
        BY <1>1, <1>5, <2>3, <3>2 DEF Mail, Others
      <4>2. QED
        BY <1>0, <4>1 DEF WorkOK, MsgsOK, MsgOK, Before, ThreadOf
    <3>3. QED
      BY <3>1, <3>2
  <2>4. ASSUME NEW c \in Conns
        PROVE  (MsgsOK(inbox[c], port[c], c, from) /\ (c > conns => inbox[c] = <<>>))'
    <3>1. MsgsOK(inbox[c], port[c], c, from) /\ (c > conns => inbox[c] = <<>>)
      BY <1>5 DEF Mail
    <3>2. QED
      BY <1>0, <3>1 DEF MsgsOK, MsgOK
  <2>5. \A fd \in Fds : (open[fd] # 0 => open[fd] <= conns /\ at[open[fd]] = fd)'
    BY <1>0, <1>5 DEF Mail
  <2>6. QED
    BY <2>2, <2>3, <2>4, <2>5 DEF Mail
<1>10. Order'
  <2>1. ASSUME NEW v \in Workers, NEW i \in 1 .. Len(jobs'[v])
        PROVE  /\ wk'[v].pc # "idle" /\ wk'[v].org = jobs'[v][i].org /\ wk'[v].org # 0
                    => Before(wk'[v].msgs, jobs'[v][i].msgs)
               /\ \A k \in 1 .. Len(jobs'[v]) :
                    k < i /\ jobs'[v][k].org = jobs'[v][i].org /\ jobs'[v][i].org # 0
                      => Before(jobs'[v][k].msgs, jobs'[v][i].msgs)
    <3>1. CASE v = w
      <4>1. jobs'[w][i] = jobs[w][i + 1] /\ i + 1 \in 1 .. Len(jobs[w]) /\ 1 < i + 1 /\ 1 \in 1 .. Len(jobs[w])
        BY <1>4, <1>6, <3>1 DEF L
      <4>2. wk'[w].org = jobs'[w][i].org /\ wk'[w].org # 0 => Before(wk'[w].msgs, jobs'[w][i].msgs)
        BY <1>1, <1>5, <4>1 DEF Order, j
      <4>3. ASSUME NEW k \in 1 .. Len(jobs'[w]), k < i, jobs'[w][k].org = jobs'[w][i].org,
                   jobs'[w][i].org # 0
            PROVE  Before(jobs'[w][k].msgs, jobs'[w][i].msgs)
        <5>1. jobs'[w][k] = jobs[w][k + 1] /\ k + 1 \in 1 .. Len(jobs[w]) /\ k + 1 < i + 1
          BY <1>1, <1>3, <1>4, <3>1, <4>3 DEF L
        <5>2. QED
          BY <1>5, <4>1, <4>3, <5>1 DEF Order
      <4>4. QED
        BY <3>1, <4>2, <4>3
    <3>2. CASE v # w
      BY <1>1, <1>3, <1>5, <3>2 DEF Order, Others
    <3>3. QED
      BY <3>1, <3>2
  <2>2. QED
    BY <2>1 DEF Order, Before
<1>11. Fresh'
  <2>1. ASSUME NEW v \in Workers, NEW i \in 1 .. Len(jobs'[v])
        PROVE  Unmade(jobs'[v][i].msgs)
    <3>1. CASE v = w
      BY <1>4, <1>5, <3>1 DEF Fresh, L
    <3>2. CASE v # w
      BY <1>3, <1>5, <3>2 DEF Fresh
    <3>3. QED
      BY <3>1, <3>2
  <2>2. ASSUME NEW v \in Workers, wk'[v].pc # "idle"
        PROVE  /\ Unmade(Tail(wk'[v].msgs))
               /\ wk'[v].pc = "loop" /\ Head(wk'[v].msgs).n # 0 => items[Head(wk'[v].msgs).n].org = 0
    <3>1. CASE v = w
      <4>1. Unmade(j.msgs)
        BY <1>5, <1>6 DEF Fresh, j, L
      <4>2. QED
        BY <1>1, <1>6, <3>1, <4>1, UnmadeTail
    <3>2. CASE v # w
      BY <1>1, <1>5, <2>2, <3>2 DEF Fresh, Others, Cmd
    <3>3. QED
      BY <3>1, <3>2
  <2>3. /\ \A c \in Conns : Unmade(inbox[c])
        /\ \A n \in Items : items[n].org <= conns /\ (n > nmsg => items[n].org = 0)
    BY <1>5 DEF Fresh
  <2>4. QED
    BY <1>0, <2>1, <2>2, <2>3 DEF Fresh, Unmade, Cmd
<1>12. Refs(at)'
  <2>1. ASSUME NEW v \in Workers, wk'[v].item # 0
        PROVE  /\ items[wk'[v].item].org # 0
               /\ wk'[v].port = "client" => at[items[wk'[v].item].org] = wk'[v].fd
    <3>1. CASE v = w
      <4>1. j.port = "client" /\ wk'[w].item = fdmap[j.fd]
        BY <1>2, <2>1, <3>1
      <4>2. QED
        BY <1>1, <1>5, <1>6, <2>1, <3>1, <4>1 DEF Refs
    <3>2. CASE v # w
      BY <1>1, <1>5, <2>1, <3>2 DEF Refs, Others
    <3>3. QED
      BY <3>1, <3>2
  <2>2. QED
    BY <1>0, <1>5, <2>1 DEF Refs
<1>13. Accounts'
  BY <1>0, <1>1, <1>5 DEF Accounts, Others
<1>14. QED
  BY <1>7, <1>8, <1>9, <1>10, <1>11, <1>12, <1>13 DEF Core

-----------------------------------------------------------------------------
(* The event thread and the peers.                                         *)

(* Job x joins the queue of its descriptor's worker.                       *)
Joins(x) ==
  LET w == ThreadOf(x.fd) IN
  /\ w \in Workers /\ x \in Job
  /\ jobs' \in [Workers -> Seq(Job)] /\ \A v \in Workers \ {w} : jobs'[v] = jobs[v]
  /\ Len(jobs[w]) \in Nat /\ Len(jobs'[w]) = Len(jobs[w]) + 1
  /\ jobs'[w][Len(jobs[w]) + 1] = x
  /\ \A i \in 1 .. Len(jobs[w]) : jobs'[w][i] = jobs[w][i]

(* A descriptor has a worker.                                              *)
LEMMA ThreadOfWorker ==
  ASSUME NEW fd \in Fds
  PROVE  ThreadOf(fd) \in Workers
  BY ThreadNumAssumption, FdsAssumption DEF ThreadOf, Workers

(* data_receive appends the job to the queue of the thread of its          *)
(* descriptor.                                                             *)
LEMMA ReceiveJoins ==
  ASSUME TypeOK, NEW x \in Job, DataReceive(x)
  PROVE  Joins(x)
<1> DEFINE w == ThreadOf(x.fd)
<1>1. w \in Workers
  BY ThreadOfWorker DEF Job
<1>2. jobs' = [jobs EXCEPT ![w] = Append(jobs[w], x)] /\ jobs \in [Workers -> Seq(Job)]
  BY DEF DataReceive, TypeOK
<1> HIDE DEF w
<1>3. jobs[w] \in Seq(Job)
  BY <1>1, <1>2
<1>4. /\ Append(jobs[w], x) \in Seq(Job) /\ Len(Append(jobs[w], x)) = Len(jobs[w]) + 1
      /\ \A i \in 1 .. Len(jobs[w]) : Append(jobs[w], x)[i] = jobs[w][i]
      /\ Append(jobs[w], x)[Len(jobs[w]) + 1] = x
  BY <1>3, AppendFacts
<1>5. Len(jobs[w]) \in Nat
  BY <1>3, LenProperties
<1>6. /\ jobs' \in [Workers -> Seq(Job)] /\ \A v \in Workers \ {w} : jobs'[v] = jobs[v]
      /\ jobs'[w] = Append(jobs[w], x)
  BY <1>1, <1>2, <1>4
<1>7. QED
  BY <1>1, <1>4, <1>5, <1>6 DEF Joins, w

(* The jobs of a queue after x has joined: the ones before, and x.         *)
LEMMA JoinedJobs ==
  ASSUME NEW x, Joins(x), NEW v \in Workers, NEW i \in 1 .. Len(jobs'[v])
  PROVE  \/ i \in 1 .. Len(jobs[v]) /\ jobs'[v][i] = jobs[v][i]
         \/ v = ThreadOf(x.fd) /\ i = Len(jobs[v]) + 1 /\ jobs'[v][i] = x /\ Len(jobs[v]) \in Nat
<1>1. CASE v # ThreadOf(x.fd)
  BY <1>1 DEF Joins
<1>2. CASE v = ThreadOf(x.fd)
  <2>1. /\ Len(jobs[v]) \in Nat /\ Len(jobs'[v]) = Len(jobs[v]) + 1
        /\ jobs'[v][Len(jobs[v]) + 1] = x
        /\ \A k \in 1 .. Len(jobs[v]) : jobs'[v][k] = jobs[v][k]
    BY <1>2 DEF Joins
  <2>2. i \in 1 .. Len(jobs[v]) \/ i = Len(jobs[v]) + 1
    BY <2>1
  <2>3. QED
    BY <1>2, <2>1, <2>2
<1>3. QED
  BY <1>1, <1>2

(* The steps of the event thread that read, close or write: data leaves    *)
(* the inboxes, and a job may join a queue.                                *)
Serves(x) ==
  /\ UNCHANGED <<port, conns, nmsg, wk, items, fdmap, usermap>>
  /\ \A fd \in Fds : open'[fd] \in {open[fd], 0}
  /\ \A c \in Conns : inbox'[c] \in {inbox[c], <<>>}
  /\ jobs' = jobs \/ Joins(x)

(* WorkOK, with the inboxes as the step leaves them.                       *)
Fits(x, w, at, from) ==
  /\ x.fd \in Fds /\ ThreadOf(x.fd) = w /\ x.msgs # <<>>
  /\ MsgsOK(x.msgs, x.port, x.org, from)
  /\ x.org = 0 => Len(x.msgs) = 1 /\ x.port = "client"
  /\ x.org # 0 => /\ x.org <= conns /\ at[x.org] = x.fd /\ x.port = port[x.org]
                  /\ Before(x.msgs, inbox'[x.org])

(* Job x is accounted for and comes after everything its connection sent   *)
(* before.                                                                 *)
Follows(x, at, from) ==
  /\ Fits(x, ThreadOf(x.fd), at, from)
  /\ Unmade(x.msgs)
  /\ LET w == ThreadOf(x.fd) IN
     x.org # 0 =>
       /\ \A i \in 1 .. Len(jobs[w]) : jobs[w][i].org = x.org => Before(jobs[w][i].msgs, x.msgs)
       /\ wk[w].pc # "idle" /\ wk[w].org = x.org => Before(wk[w].msgs, x.msgs)

(* Nothing is unread, nothing is to be run.                                *)
LEMMA BeforeNone ==
  ASSUME NEW s
  PROVE  Before(s, <<>>) /\ Unmade(<<>>)
<1>1. \A i : i \notin 1 .. Len(<<>>)
  OBVIOUS
<1>2. QED
  BY <1>1 DEF Before, Unmade

(* Data that was accounted for still is when the event thread has moved.   *)
LEMMA KeepWorkOK ==
  ASSUME NEW at, NEW from, NEW x, NEW w, WorkOK(x, w, at, from), x.org \in 0 .. MaxConns,
         NEW z, Serves(z)
  PROVE  Fits(x, w, at, from)
<1>1. x.org # 0 => x.org \in Conns
  BY BoundsAssumption DEF Conns
<1>2. x.org # 0 => Before(x.msgs, inbox'[x.org])
  BY <1>1, BeforeNone DEF Serves, WorkOK
<1>3. QED
  BY <1>2 DEF WorkOK, Fits

(* A step of the event thread that queues at most one job keeps the        *)
(* invariant if the job is accounted for.                                  *)
LEMMA ServesCore ==
  ASSUME NEW at, NEW from, Core(at, from), NEW x, Serves(x), TypeOK',
         jobs' # jobs => Follows(x, at, from)
  PROVE  Core(at, from)'
<1>1. /\ TypeOK /\ Mail(at, from) /\ Order /\ Refs(at) /\ Accounts /\ Routed /\ Fresh
      /\ \A v \in Workers : Stage(v)
  BY DEF Core
<1>2. UNCHANGED <<port, conns, nmsg, wk, items, fdmap, usermap>>
  BY DEF Serves
<1>3. (\A v \in Workers : Stage(v)') /\ Routed' /\ Refs(at)' /\ Accounts'
  <2>1. \A v \in Workers : Stage(v)'
    BY <1>1, <1>2, Zenon DEF Stage, Cmd
  <2>2. Routed' /\ Refs(at)' /\ Accounts'
    BY <1>1, <1>2, Zenon DEF Routed, Refs, Accounts
  <2>3. QED
    BY <2>1, <2>2
<1>4. ASSUME NEW v \in Workers, NEW i \in 1 .. Len(jobs'[v])
      PROVE  \/ i \in 1 .. Len(jobs[v]) /\ jobs'[v][i] = jobs[v][i]
             \/ /\ v = ThreadOf(x.fd) /\ i = Len(jobs[v]) + 1 /\ jobs'[v][i] = x /\ Len(jobs[v]) \in Nat
                /\ Follows(x, at, from) /\ x \in Job
  <2>1. CASE jobs' = jobs
    BY <2>1
  <2>2. CASE jobs' # jobs
    <3>1. Joins(x) /\ Follows(x, at, from) /\ x \in Job
      BY <2>2 DEF Serves, Joins
    <3>2. QED
      BY <3>1, JoinedJobs
  <2>3. QED
    BY <2>1, <2>2
<1>5. Mail(at, from)'
  <2>2. ASSUME NEW v \in Workers, NEW i \in 1 .. Len(jobs'[v])
        PROVE  WorkOK(jobs[v][i], v, at, from)'
    <3> DEFINE y == jobs'[v][i]
    <3>1. ASSUME i \in 1 .. Len(jobs[v]), y = jobs[v][i]
          PROVE  Fits(y, v, at, from)
      <4>1. WorkOK(y, v, at, from) /\ y \in Job
        BY <1>1, <3>1, MsgsOfJob DEF Mail
      <4> HIDE DEF y
      <4>2. y.org \in 0 .. MaxConns
        BY <4>1 DEF Job
      <4>3. QED
        BY <4>1, <4>2, KeepWorkOK
    <3>2. ASSUME v = ThreadOf(x.fd), y = x, Follows(x, at, from)
          PROVE  Fits(y, v, at, from)
      BY <3>2 DEF Follows
    <3>3. Fits(y, v, at, from)
      BY <1>4, <3>1, <3>2
    <3> HIDE DEF y
    <3>4. QED
      BY <1>2, <3>3 DEF Fits, WorkOK, MsgsOK, MsgOK, Before, ThreadOf, y
  <2>3. ASSUME NEW v \in Workers, wk'[v].pc # "idle"
        PROVE  WorkOK(wk[v], v, at, from)'
    <3> DEFINE y == wk[v]
    <3>1. WorkOK(y, v, at, from)
      BY <1>1, <1>2, <2>3 DEF Mail
    <3>2. y.org \in 0 .. MaxConns
      BY <1>1, TypeLocal DEF Local
    <3>3. wk'[v] = y
      BY <1>2
    <3> HIDE DEF y
    <3>4. Fits(y, v, at, from)
      BY <3>1, <3>2, KeepWorkOK
    <3>5. QED
      BY <1>2, <3>3, <3>4 DEF Fits, WorkOK, MsgsOK, MsgOK, Before, ThreadOf
  <2>4. ASSUME NEW c \in Conns
        PROVE  (MsgsOK(inbox[c], port[c], c, from) /\ (c > conns => inbox[c] = <<>>))'
    <3>1. MsgsOK(inbox[c], port[c], c, from) /\ (c > conns => inbox[c] = <<>>)
      BY <1>1 DEF Mail
    <3>2. CASE inbox'[c] = inbox[c]
      BY <1>2, <3>1, <3>2 DEF MsgsOK, MsgOK
    <3>3. CASE inbox'[c] = <<>>
      <4>1. \A i : i \notin 1 .. Len(inbox'[c])
        BY <3>3
      <4>2. QED
        BY <3>3, <4>1 DEF MsgsOK
    <3>4. QED
      BY <3>2, <3>3 DEF Serves
  <2>5. \A fd \in Fds : (open[fd] # 0 => open[fd] <= conns /\ at[open[fd]] = fd)'
    <3>1. ASSUME NEW fd \in Fds, open'[fd] # 0
          PROVE  open'[fd] <= conns' /\ at[open'[fd]] = fd
      <4>1. open'[fd] = open[fd]
        BY <3>1 DEF Serves
      <4>2. QED
        BY <1>1, <1>2, <3>1, <4>1 DEF Mail
    <3>2. QED
      BY <3>1
  <2>6. QED
    BY <2>2, <2>3, <2>4, <2>5 DEF Mail
<1>6. Order'
  <2>1. ASSUME NEW v \in Workers, NEW i \in 1 .. Len(jobs'[v])
        PROVE  /\ wk[v].pc # "idle" /\ wk[v].org = jobs'[v][i].org /\ wk[v].org # 0
                    => Before(wk[v].msgs, jobs'[v][i].msgs)
               /\ \A k \in 1 .. Len(jobs'[v]) :
                    k < i /\ jobs'[v][k].org = jobs'[v][i].org /\ jobs'[v][i].org # 0
                      => Before(jobs'[v][k].msgs, jobs'[v][i].msgs)
    <3>1. CASE i \in 1 .. Len(jobs[v]) /\ jobs'[v][i] = jobs[v][i]
      <4>1. wk[v].pc # "idle" /\ wk[v].org = jobs'[v][i].org /\ wk[v].org # 0
                    => Before(wk[v].msgs, jobs'[v][i].msgs)
        BY <1>1, <3>1 DEF Order
      <4>2. ASSUME NEW k \in 1 .. Len(jobs'[v]), k < i, jobs'[v][k].org = jobs'[v][i].org,
                   jobs'[v][i].org # 0
            PROVE  Before(jobs'[v][k].msgs, jobs'[v][i].msgs)
        <5>1. k \in 1 .. Len(jobs[v]) /\ jobs'[v][k] = jobs[v][k]
          <6>1. k # Len(jobs[v]) + 1 \/ Len(jobs[v]) \notin Nat
            BY <3>1, <4>2
          <6>2. QED
            BY <1>4, <6>1
        <5>2. QED
          BY <1>1, <3>1, <4>2, <5>1 DEF Order
      <4>3. QED
        BY <4>1, <4>2
    <3>2. CASE /\ v = ThreadOf(x.fd) /\ i = Len(jobs[v]) + 1 /\ jobs'[v][i] = x /\ Len(jobs[v]) \in Nat
               /\ Follows(x, at, from)
      <4>1. wk[v].pc # "idle" /\ wk[v].org = jobs'[v][i].org /\ wk[v].org # 0
                    => Before(wk[v].msgs, jobs'[v][i].msgs)
        BY <3>2 DEF Follows
      <4>2. ASSUME NEW k \in 1 .. Len(jobs'[v]), k < i, jobs'[v][k].org = jobs'[v][i].org,
                   jobs'[v][i].org # 0
            PROVE  Before(jobs'[v][k].msgs, jobs'[v][i].msgs)
        <5>1. k \in 1 .. Len(jobs[v]) /\ jobs'[v][k] = jobs[v][k]
          <6>1. k # Len(jobs[v]) + 1
            BY <3>2, <4>2
          <6>2. QED
            BY <1>4, <6>1
        <5>2. QED
          BY <3>2, <4>2, <5>1 DEF Follows
      <4>3. QED
        BY <4>1, <4>2
    <3>3. QED
      BY <1>4, <3>1, <3>2
  <2>2. QED
    BY <1>2, <2>1 DEF Order, Before
<1>7. Fresh'
  <2>1. ASSUME NEW v \in Workers, NEW i \in 1 .. Len(jobs'[v])
        PROVE  Unmade(jobs'[v][i].msgs)
    BY <1>1, <1>4, <2>1 DEF Fresh, Follows
  <2>2. ASSUME NEW c \in Conns
        PROVE  Unmade(inbox'[c])
    BY <1>1, BeforeNone DEF Fresh, Serves
  <2>3. /\ \A n \in Items : items[n].org <= conns /\ (n > nmsg => items[n].org = 0)
        /\ \A w \in Workers : wk[w].pc # "idle" =>
             /\ Unmade(Tail(wk[w].msgs))
             /\ wk[w].pc = "loop" /\ Cmd(w).n # 0 => items[Cmd(w).n].org = 0
    BY <1>1 DEF Fresh
  <2>4. QED
    BY <1>2, <2>1, <2>2, <2>3 DEF Fresh, Unmade, Cmd
<1>8. QED
  BY <1>1, <1>3, <1>5, <1>6, <1>7 DEF Core

(* What DoRead does: the job holds what the connection sent, after all it  *)
(* sent before.                                                            *)
LEMMA DoReadDoes ==
  ASSUME NEW at, NEW from, Core(at, from), NEW fd \in Fds, DoRead(fd)
  PROVE  LET c == open[fd]
             x == [fd |-> fd, port |-> port[c], msgs |-> inbox[c], org |-> c]
         IN  /\ c # 0 /\ c \in Conns /\ c <= conns /\ at[c] = fd /\ x \in Job
             /\ x.fd = fd /\ x.port = port[c] /\ x.msgs = inbox[c] /\ x.org = c
             /\ Joins(x) /\ Serves(x) /\ Follows(x, at, from) /\ TypeOK' /\ open' = open
             /\ inbox' = [inbox EXCEPT ![c] = <<>>]
             /\ UNCHANGED <<fin, outq, wbuf, got, sql, shells, rude, clean>>
<1> DEFINE c == open[fd]
           x == [fd |-> fd, port |-> port[c], msgs |-> inbox[c], org |-> c]
           w == ThreadOf(fd)
<1>1. TypeOK /\ Mail(at, from) /\ Fresh
  BY DEF Core
<1>2. /\ c # 0 /\ inbox[c] # <<>> /\ DataReceive(x) /\ inbox' = [inbox EXCEPT ![c] = <<>>]
      /\ UNCHANGED <<open, wk, items, fdmap, usermap, port, fin, conns, nmsg>>
      /\ UNCHANGED <<outq, wbuf, got, sql, shells, rude, clean>>
  BY DEF DoRead, netVars
<1>3. c \in Conns /\ c \in 0 .. MaxConns /\ c <= conns /\ at[c] = fd
  <2>1. c \in 0 .. MaxConns
    BY <1>1 DEF TypeOK
  <2>2. c \in Conns
    BY <1>2, <2>1, BoundsAssumption DEF Conns
  <2>3. QED
    BY <1>1, <1>2, <2>1, <2>2 DEF Mail
<1>4. /\ inbox[c] \in Seq(Msg) /\ port[c] \in {"client", "shell"} /\ Unmade(inbox[c])
      /\ MsgsOK(inbox[c], port[c], c, from)
  BY <1>1, <1>3 DEF TypeOK, Fresh, Mail
<1> HIDE DEF c
<1>5. x \in Job /\ x.fd = fd /\ x.port = port[c] /\ x.msgs = inbox[c] /\ x.org = c
  BY <1>3, <1>4 DEF Job
<1> HIDE DEF x
<1>6. Joins(x)
  BY <1>1, <1>2, <1>5, ReceiveJoins
<1>7. inbox' \in [Conns -> Seq(Msg)] /\ \A d \in Conns : inbox'[d] \in {inbox[d], <<>>}
  BY <1>1, <1>2, <1>3, EmptySeq DEF TypeOK
<1>8. Serves(x)
  BY <1>2, <1>6, <1>7 DEF Serves
<1>9. TypeOK'
  <2>1. jobs' \in [Workers -> Seq(Job)]
    BY <1>6 DEF Joins
  <2>2. QED
    BY <1>1, <1>2, <1>7, <2>1, Zenon DEF TypeOK
<1>10. Follows(x, at, from)
  <2>1. inbox'[c] = <<>>
    BY <1>1, <1>2, <1>3 DEF TypeOK
  <2>2. Fits(x, ThreadOf(x.fd), at, from)
    <3>1. Before(x.msgs, inbox'[c])
      BY <2>1, BeforeNone
    <3>2. QED
      BY <1>2, <1>3, <1>4, <1>5, <3>1 DEF Fits
  <2>3. w \in Workers
    BY ThreadOfWorker
  <2>4. ASSUME NEW i \in 1 .. Len(jobs[w]), jobs[w][i].org = c
        PROVE  Before(jobs[w][i].msgs, inbox[c])
    BY <1>1, <1>2, <2>3, <2>4 DEF Mail, WorkOK
  <2>5. wk[w].pc # "idle" /\ wk[w].org = c => Before(wk[w].msgs, inbox[c])
    BY <1>1, <1>2, <2>3 DEF Mail, WorkOK
  <2>6. QED
    BY <1>4, <1>5, <2>2, <2>4, <2>5 DEF Follows
<1>11. QED
  BY <1>2, <1>3, <1>5, <1>6, <1>8, <1>9, <1>10 DEF c, x

(* DoRead.                                                                 *)
LEMMA DoReadCore ==
  ASSUME NEW at, NEW from, Core(at, from), NEW fd \in Fds, DoRead(fd)
  PROVE  Core(at, from)'
<1> DEFINE x == [fd |-> fd, port |-> port[open[fd]], msgs |-> inbox[open[fd]], org |-> open[fd]]
<1>1. Serves(x) /\ TypeOK' /\ Follows(x, at, from)
  BY DoReadDoes
<1> HIDE DEF x
<1>2. QED
  BY <1>1, ServesCore

(* free_fd_state, and the Logout it may put in the queue.                  *)
LogoutJob(fd) == [fd |-> fd, port |-> "client", msgs |-> <<LogoutCmd>>, org |-> 0]

(* The job of the simulated Logout.                                        *)
LEMMA LogoutJobFacts ==
  ASSUME NEW from, NEW at, NEW fd \in Fds
  PROVE  LET x == LogoutJob(fd)
         IN  /\ x \in Job /\ x.fd = fd /\ x.port = "client" /\ x.org = 0 /\ x.msgs = <<LogoutCmd>>
             /\ Follows(x, at, from)
<1> DEFINE x == LogoutJob(fd)
           s == <<LogoutCmd>>
<1>1. LogoutCmd \in Msg /\ LogoutCmd.cmd = "LOGOUT" /\ LogoutCmd.n = 0
  BY BoundsAssumption DEF LogoutCmd, Msg, ClientKinds
<1>2. s \in Seq(Msg) /\ s # <<>> /\ Len(s) = 1 /\ s[1] = LogoutCmd
  BY <1>1
<1>3. 0 \in 0 .. MaxConns
  BY BoundsAssumption
<1>4. x = [fd |-> fd, port |-> "client", msgs |-> s, org |-> 0]
  BY DEF LogoutJob
<1> HIDE DEF s
<1>5. x \in Job /\ x.fd = fd /\ x.port = "client" /\ x.org = 0 /\ x.msgs = s
  BY <1>2, <1>3, <1>4 DEF Job
<1> HIDE DEF x
<1>6. \A i \in 1 .. Len(s) : s[i] = LogoutCmd /\ i = 1
  BY <1>2
<1>7. MsgsOK(s, "client", 0, from)
  <2>1. MsgOK(LogoutCmd, "client", 0, from)
    BY <1>1 DEF MsgOK, ClientKinds
  <2>2. \A i, j \in 1 .. Len(s) : ~(i < j)
    BY <1>6
  <2>3. QED
    BY <1>6, <2>1, <2>2 DEF MsgsOK
<1>8. Unmade(s)
  BY <1>1, <1>6 DEF Unmade
<1>9. Follows(x, at, from)
  BY <1>2, <1>5, <1>7, <1>8 DEF Follows, Fits
<1>10. QED
  BY <1>5, <1>9 DEF s, x

(* What FreeFdState does.                                                  *)
LEMMA FreeDoes ==
  ASSUME NEW at, NEW from, Core(at, from), NEW fd \in Fds, open[fd] # 0, FreeFdState(fd)
  PROVE  /\ open' \in [Fds -> 0 .. MaxConns] /\ open'[fd] = 0
         /\ \A g \in Fds \ {fd} : open'[g] = open[g]
         /\ inbox' \in [Conns -> Seq(Msg)] /\ \A c \in Conns : inbox'[c] \in {inbox[c], <<>>}
         /\ wbuf' \in [Fds -> Seq(Out)] /\ wbuf'[fd] = <<>>
         /\ \A g \in Fds \ {fd} : wbuf'[g] = wbuf[g]
         /\ rude' \subseteq Conns /\ jobs' \in [Workers -> Seq(Job)]
         /\ rude' = IF fdmap[fd] = 0 /\ Unprocessed(open[fd]) THEN rude \cup {open[fd]} ELSE rude
         /\ fdmap[fd] # 0 => Joins(LogoutJob(fd))
         /\ fdmap[fd] = 0 => jobs' = jobs
<1>1. TypeOK
  BY DEF Core
<1>2. open[fd] \in Conns
  BY <1>1, BoundsAssumption DEF TypeOK, Conns
<1>3. /\ open' = [open EXCEPT ![fd] = 0] /\ inbox' = [inbox EXCEPT ![open[fd]] = <<>>]
      /\ wbuf' = [wbuf EXCEPT ![fd] = <<>>] /\ FdClose(fd)
      /\ rude' = IF fdmap[fd] = 0 /\ Unprocessed(open[fd]) THEN rude \cup {open[fd]} ELSE rude
  BY DEF FreeFdState
<1>4. /\ open' \in [Fds -> 0 .. MaxConns] /\ open'[fd] = 0 /\ \A g \in Fds \ {fd} : open'[g] = open[g]
  BY <1>1, <1>3, BoundsAssumption DEF TypeOK
<1>5. inbox' \in [Conns -> Seq(Msg)] /\ \A c \in Conns : inbox'[c] \in {inbox[c], <<>>}
  BY <1>1, <1>2, <1>3, EmptySeq DEF TypeOK
<1>6. wbuf' \in [Fds -> Seq(Out)] /\ wbuf'[fd] = <<>> /\ \A g \in Fds \ {fd} : wbuf'[g] = wbuf[g]
  BY <1>1, <1>3, EmptySeq DEF TypeOK
<1>7. rude' \subseteq Conns
  BY <1>1, <1>2, <1>3 DEF TypeOK
<1>8. fdmap[fd] # 0 => Joins(LogoutJob(fd))
  <2>1. ASSUME fdmap[fd] # 0
        PROVE  DataReceive(LogoutJob(fd)) /\ LogoutJob(fd) \in Job
    BY <1>3, <2>1, LogoutJobFacts DEF FdClose, LogoutJob
  <2>2. QED
    BY <1>1, <2>1, ReceiveJoins
<1>9. fdmap[fd] = 0 => jobs' = jobs
  BY <1>3 DEF FdClose
<1>10. jobs' \in [Workers -> Seq(Job)]
  BY <1>1, <1>8, <1>9 DEF Joins, TypeOK
<1>11. QED
  BY <1>3, <1>4, <1>5, <1>6, <1>7, <1>8, <1>9, <1>10

(* ... as a step of the event thread.                                      *)
LEMMA FreeServes ==
  ASSUME NEW at, NEW from, Core(at, from), NEW fd \in Fds, open[fd] # 0, FreeFdState(fd),
         UNCHANGED <<port, conns, nmsg, wk, items, fdmap, usermap>>
  PROVE  Serves(LogoutJob(fd)) /\ Follows(LogoutJob(fd), at, from)
<1>1. \A g \in Fds : open'[g] \in {open[g], 0}
  BY FreeDoes
<1>2. \A c \in Conns : inbox'[c] \in {inbox[c], <<>>}
  BY FreeDoes
<1>3. jobs' = jobs \/ Joins(LogoutJob(fd))
  BY FreeDoes
<1>4. Follows(LogoutJob(fd), at, from)
  BY LogoutJobFacts
<1>5. QED
  BY <1>1, <1>2, <1>3, <1>4 DEF Serves

(* PeerGone.                                                               *)
LEMMA PeerGoneCore ==
  ASSUME NEW at, NEW from, Core(at, from), NEW fd \in Fds, PeerGone(fd)
  PROVE  Core(at, from)' /\ open[fd] # 0
<1>1. TypeOK
  BY DEF Core
<1>2. /\ open[fd] \in fin /\ FreeFdState(fd)
      /\ UNCHANGED <<port, fin, conns, nmsg, got, clean, wk, items, fdmap, usermap, outq, sql, shells>>
  BY DEF PeerGone, netVars
<1>3. open[fd] # 0
  BY <1>1, <1>2 DEF TypeOK, Conns
<1>4. Serves(LogoutJob(fd)) /\ Follows(LogoutJob(fd), at, from)
  BY <1>2, <1>3, FreeServes
<1>5. /\ open' \in [Fds -> 0 .. MaxConns] /\ inbox' \in [Conns -> Seq(Msg)]
      /\ wbuf' \in [Fds -> Seq(Out)] /\ rude' \subseteq Conns /\ jobs' \in [Workers -> Seq(Job)]
  BY <1>2, <1>3, FreeDoes
<1>6. TypeOK'
  BY <1>1, <1>2, <1>5, Zenon DEF TypeOK
<1>7. QED
  BY <1>3, <1>4, <1>6, ServesCore

(* QueueReceive.                                                           *)
LEMMA QueueReceiveCore ==
  ASSUME NEW at, NEW from, Core(at, from), QueueReceive
  PROVE  Core(at, from)'
<1> DEFINE b == Head(outq)
<1>1. TypeOK /\ outq \in Seq(Out)
  BY DEF Core, TypeOK
<1>2. /\ outq # <<>> /\ outq' = Tail(outq)
      /\ UNCHANGED <<port, fin, conns, nmsg, got, clean, wk, items, fdmap, usermap, sql, shells>>
  BY DEF QueueReceive, netVars
<1>3. b \in Out /\ outq' \in Seq(Out)
  BY <1>1, <1>2, TailFacts
<1>4. b.fd \in Fds
  BY <1>3 DEF Out
<1>5. \/ open[b.fd] # 0 /\ FreeFdState(b.fd)
      \/ wbuf' = [wbuf EXCEPT ![b.fd] = Append(@, b)] /\ UNCHANGED <<open, inbox, jobs, rude>>
      \/ UNCHANGED <<open, inbox, jobs, wbuf, rude>>
  BY DEF QueueReceive
<1> HIDE DEF b
<1>6. CASE open[b.fd] # 0 /\ FreeFdState(b.fd)
  <2>1. Serves(LogoutJob(b.fd)) /\ Follows(LogoutJob(b.fd), at, from)
    BY <1>2, <1>4, <1>6, FreeServes
  <2>2. /\ open' \in [Fds -> 0 .. MaxConns] /\ inbox' \in [Conns -> Seq(Msg)]
        /\ wbuf' \in [Fds -> Seq(Out)] /\ rude' \subseteq Conns /\ jobs' \in [Workers -> Seq(Job)]
    BY <1>4, <1>6, FreeDoes
  <2>3. TypeOK'
    BY <1>1, <1>2, <1>3, <2>2, Zenon DEF TypeOK
  <2>4. QED
    BY <2>1, <2>3, ServesCore
<1>7. CASE UNCHANGED <<open, inbox, jobs, rude>> /\ wbuf' \in [Fds -> Seq(Out)]
  <2>1. Serves(0)
    BY <1>2, <1>7 DEF Serves
  <2>2. TypeOK'
    BY <1>1, <1>2, <1>3, <1>7, Zenon DEF TypeOK
  <2>3. QED
    BY <1>7, <2>1, <2>2, ServesCore
<1>8. CASE wbuf' = [wbuf EXCEPT ![b.fd] = Append(@, b)] /\ UNCHANGED <<open, inbox, jobs, rude>>
  <2>1. wbuf \in [Fds -> Seq(Out)] /\ wbuf[b.fd] \in Seq(Out)
    BY <1>1, <1>4 DEF TypeOK
  <2>2. Append(wbuf[b.fd], b) \in Seq(Out)
    BY <1>3, <2>1, AppendFacts
  <2>3. wbuf' \in [Fds -> Seq(Out)]
    BY <1>4, <1>8, <2>1, <2>2
  <2>4. QED
    BY <1>7, <1>8, <2>3
<1>9. CASE UNCHANGED <<open, inbox, jobs, wbuf, rude>>
  BY <1>1, <1>7, <1>9 DEF TypeOK
<1>10. QED
  BY <1>5, <1>6, <1>8, <1>9

(* What DoWrite does.                                                      *)
LEMMA DoWriteDoes ==
  ASSUME TypeOK, NEW fd \in Fds, DoWrite(fd)
  PROVE  \E k \in 0 .. Len(wbuf[fd]) :
           /\ open[fd] # 0 /\ open[fd] \in Conns
           /\ got' = [got EXCEPT ![open[fd]] = got[open[fd]] \o SubSeq(wbuf[fd], 1, k)]
           /\ got' \in [Conns -> Seq(Out)]
           /\ wbuf' = [wbuf EXCEPT ![fd] = <<>>] /\ wbuf' \in [Fds -> Seq(Out)]
<1>1. /\ open[fd] # 0 /\ wbuf' = [wbuf EXCEPT ![fd] = <<>>]
  BY DEF DoWrite
<1>2. PICK k \in 0 .. Len(wbuf[fd]) :
        got' = [got EXCEPT ![open[fd]] = got[open[fd]] \o SubSeq(wbuf[fd], 1, k)]
  BY DEF DoWrite
<1>3. open[fd] \in Conns
  BY <1>1, BoundsAssumption DEF TypeOK, Conns
<1>4. wbuf[fd] \in Seq(Out) /\ got[open[fd]] \in Seq(Out) /\ got \in [Conns -> Seq(Out)]
  BY <1>3 DEF TypeOK
<1>5. SubSeq(wbuf[fd], 1, k) \in Seq(Out)
  <2>1. \A i \in 1 .. k : wbuf[fd][i] \in Out
    <3>1. \A i \in 1 .. k : i \in 1 .. Len(wbuf[fd])
      BY <1>2, <1>4, LenProperties
    <3>2. QED
      BY <1>4, <3>1, ElementOfSeq
  <2>2. QED
    BY <1>2, <1>4, <2>1, SubSeqProperties
<1>6. got[open[fd]] \o SubSeq(wbuf[fd], 1, k) \in Seq(Out)
  BY <1>4, <1>5, ConcatProperties
<1>7. got' \in [Conns -> Seq(Out)]
  BY <1>2, <1>3, <1>4, <1>6
<1>8. wbuf' \in [Fds -> Seq(Out)]
  BY <1>1, EmptySeq DEF TypeOK
<1>9. QED
  BY <1>1, <1>2, <1>3, <1>7, <1>8

(* DoWrite.                                                                *)
LEMMA DoWriteCore ==
  ASSUME NEW at, NEW from, Core(at, from), NEW fd \in Fds, DoWrite(fd)
  PROVE  Core(at, from)'
<1>1. TypeOK
  BY DEF Core
<1>2. UNCHANGED <<open, port, inbox, fin, conns, nmsg, jobs, wk, items, fdmap,
                 usermap, outq, sql, shells, rude, clean>>
  BY DEF DoWrite
<1>3. got' \in [Conns -> Seq(Out)] /\ wbuf' \in [Fds -> Seq(Out)]
  BY <1>1, DoWriteDoes
<1>4. TypeOK'
  BY <1>1, <1>2, <1>3, Zenon DEF TypeOK
<1>5. Serves(0) /\ jobs' = jobs
  BY <1>2 DEF Serves
<1>6. QED
  BY <1>4, <1>5, ServesCore

(* PeerClose.                                                              *)
LEMMA PeerCloseCore ==
  ASSUME NEW at, NEW from, Core(at, from), NEW c \in Conns, PeerClose(c)
  PROVE  Core(at, from)'
<1>1. TypeOK
  BY DEF Core
<1>2. /\ UNCHANGED <<open, port, inbox, conns, nmsg, jobs, wk, items, fdmap, usermap,
                    outq, wbuf, got, sql, shells, rude, clean>>
      /\ fin' = fin \cup {c}
  BY DEF PeerClose
<1>3. fin' \subseteq Conns
  BY <1>1, <1>2 DEF TypeOK
<1>4. TypeOK'
  BY <1>1, <1>2, <1>3, Zenon DEF TypeOK
<1>5. Serves(0) /\ jobs' = jobs
  BY <1>2 DEF Serves
<1>6. QED
  BY <1>4, <1>5, ServesCore

(* The numbers of the commands sent so far.                                *)
LEMMA SentNumbers ==
  ASSUME NEW from, NEW s, NEW p, NEW c, MsgsOK(s, p, c, from), nmsg \in Nat
  PROVE  \A i \in 1 .. Len(s) : s[i].n \in 0 .. nmsg
<1> SUFFICES ASSUME NEW i \in 1 .. Len(s)
             PROVE  s[i].n \in 0 .. nmsg
  OBVIOUS
<1>1. MsgOK(s[i], p, c, from)
  BY DEF MsgsOK
<1>2. c = 0 => s[i].n = 0
  BY <1>1 DEF MsgOK, LogoutCmd
<1>3. QED
  BY <1>1, <1>2 DEF MsgOK

(* Commands keep their senders when another one is sent.                   *)
LEMMA MsgsGrow ==
  ASSUME NEW from, NEW from2, NEW s, NEW p, NEW c, MsgsOK(s, p, c, from), nmsg \in Nat,
         nmsg' = nmsg + 1, \A n \in 1 .. nmsg : from2[n] = from[n]
  PROVE  MsgsOK(s, p, c, from2)'
<1>1. ASSUME NEW i \in 1 .. Len(s)
      PROVE  MsgOK(s[i], p, c, from2)'
  <2>1. MsgOK(s[i], p, c, from)
    BY DEF MsgsOK
  <2>2. c # 0 /\ s[i].cmd # "SVR_INIT" => s[i].n \in 1 .. nmsg' /\ from2[s[i].n] = c
    BY <2>1 DEF MsgOK
  <2>3. QED
    BY <2>1, <2>2 DEF MsgOK
<1>2. QED
  BY <1>1 DEF MsgsOK

(* A new command is numbered after all others.                             *)
LEMMA PeerSendDoes ==
  ASSUME NEW at, NEW from, Core(at, from), NEW c \in Conns, NEW cmd \in Kinds,
         NEW y \in YyIDs \cup {0}, PeerSend(c, cmd, y)
  PROVE  LET m == [cmd |-> cmd, y |-> y, n |-> nmsg + 1]
         IN  /\ m \in Msg /\ m.cmd = cmd /\ m.y = y /\ m.n = nmsg + 1
             /\ nmsg \in Nat /\ nmsg' = nmsg + 1 /\ nmsg + 1 \in Items /\ nmsg + 1 <= MaxMsgs
             /\ inbox' = [inbox EXCEPT ![c] = Append(inbox[c], m)]
             /\ inbox' \in [Conns -> Seq(Msg)]
             /\ c # 0 /\ c <= conns
             /\ port[c] = "shell" => cmd \in {"OTHER", "BAD"}
             /\ cmd = "LOGIN" => y \in YyIDs
             /\ cmd \in ClientKinds
             /\ UNCHANGED <<open, port, fin, conns, jobs, wk, items, fdmap, usermap, outq,
                            wbuf, got, sql, shells, rude, clean>>
<1> DEFINE m == [cmd |-> cmd, y |-> y, n |-> nmsg + 1]
<1>1. /\ c \in {open[fd] : fd \in Fds} /\ nmsg < MaxMsgs /\ (y # 0 <=> cmd = "LOGIN")
      /\ port[c] = "shell" => cmd \in {"OTHER", "BAD"}
      /\ nmsg' = nmsg + 1
      /\ inbox' = [inbox EXCEPT ![c] = Append(inbox[c], m)]
      /\ UNCHANGED <<open, port, fin, conns, jobs, wk, items, fdmap, usermap, outq,
                     wbuf, got, sql, shells, rude, clean>>
  BY DEF PeerSend
<1>2. nmsg \in 0 .. MaxMsgs /\ inbox \in [Conns -> Seq(Msg)]
  BY DEF Core, TypeOK
<1>3. nmsg \in Nat /\ nmsg + 1 \in Items /\ nmsg + 1 \in 0 .. MaxMsgs /\ nmsg + 1 <= MaxMsgs
  BY <1>1, <1>2, BoundsAssumption DEF Items
<1>4. c # 0 /\ c <= conns
  <2>1. c # 0
    BY BoundsAssumption DEF Conns
  <2>2. PICK fd \in Fds : c = open[fd]
    BY <1>1
  <2>3. QED
    BY <2>1, <2>2 DEF Core, Mail
<1>5. cmd \in ClientKinds /\ (cmd = "LOGIN" => y \in YyIDs)
  BY <1>1, KindsAssumption
<1>6. m \in Msg /\ m.cmd = cmd /\ m.y = y /\ m.n = nmsg + 1
  BY <1>3, <1>5 DEF Msg
<1> HIDE DEF m
<1>7. Append(inbox[c], m) \in Seq(Msg)
  BY <1>2, <1>6, AppendFacts
<1>8. inbox' \in [Conns -> Seq(Msg)]
  BY <1>1, <1>2, <1>7
<1>9. QED
  BY <1>1, <1>3, <1>4, <1>5, <1>6, <1>8 DEF m

(* A command sent is the last of its connection.                           *)
LEMMA MsgsAppend ==
  ASSUME NEW from, NEW from2, NEW s \in Seq(Msg), NEW p, NEW c, MsgsOK(s, p, c, from), c # 0,
         nmsg \in Nat, nmsg' = nmsg + 1, \A n \in 1 .. nmsg : from2[n] = from[n],
         NEW m \in Msg, m.n = nmsg + 1, from2[nmsg + 1] = c, m.cmd \in ClientKinds,
         p = "shell" => m.cmd \in {"OTHER", "BAD"}, m.cmd = "LOGIN" => m.y \in YyIDs
  PROVE  MsgsOK(Append(s, m), p, c, from2)'
<1> DEFINE t == Append(s, m)
<1>1. /\ t \in Seq(Msg) /\ Len(t) = Len(s) + 1 /\ Len(s) \in Nat
      /\ \A i \in 1 .. Len(s) : t[i] = s[i]
      /\ t[Len(s) + 1] = m
  BY AppendFacts, LenProperties
<1> HIDE DEF t
<1>2. \A i \in 1 .. Len(t) : (i \in 1 .. Len(s) /\ t[i] = s[i]) \/ (i = Len(s) + 1 /\ t[i] = m)
  BY <1>1
<1>3. \A i \in 1 .. Len(s) : s[i].n \in 0 .. nmsg
  BY SentNumbers
<1>4. MsgsOK(s, p, c, from2)'
  BY MsgsGrow
<1>5. MsgOK(m, p, c, from2)'
  <2>1. m.cmd # "SVR_INIT" /\ m.n \in 1 .. nmsg'
    BY DEF ClientKinds
  <2>2. QED
    BY <2>1 DEF MsgOK
<1>6. ASSUME NEW i \in 1 .. Len(t), NEW j \in 1 .. Len(t), i < j
      PROVE  t[i].n < t[j].n
  <2>1. i \in 1 .. Len(s) /\ t[i] = s[i]
    BY <1>1, <1>2, <1>6
  <2>2. CASE j \in 1 .. Len(s) /\ t[j] = s[j]
    BY <1>6, <2>1, <2>2 DEF MsgsOK
  <2>3. CASE t[j] = m
    <3>1. t[i].n \in 0 .. nmsg /\ t[j].n = nmsg + 1
      BY <1>3, <2>1, <2>3
    <3>2. QED
      BY <3>1
  <2>4. QED
    BY <1>2, <2>2, <2>3
<1>7. \A i \in 1 .. Len(t) : MsgOK(t[i], p, c, from2)'
  BY <1>2, <1>4, <1>5 DEF MsgsOK
<1>8. MsgsOK(t, p, c, from2)'
  BY <1>6, <1>7 DEF MsgsOK
<1>9. QED
  BY <1>8 DEF t

(* What is on its way after a command was sent.                            *)
LEMMA PeerSendMail ==
  ASSUME NEW at, NEW from, Core(at, from), NEW c \in Conns, NEW cmd \in Kinds,
         NEW y \in YyIDs \cup {0}, PeerSend(c, cmd, y), NEW from2,
         \A n \in 1 .. nmsg : from2[n] = from[n], from2[nmsg + 1] = c
  PROVE  Mail(at, from2)' /\ Fresh'
<1> DEFINE m == [cmd |-> cmd, y |-> y, n |-> nmsg + 1]
           s == inbox[c]
           t == Append(s, m)
<1>1. /\ m \in Msg /\ m.cmd = cmd /\ m.y = y /\ m.n = nmsg + 1 /\ nmsg + 1 <= MaxMsgs
      /\ nmsg \in Nat /\ nmsg' = nmsg + 1 /\ nmsg + 1 \in Items
  BY PeerSendDoes
<1>2. inbox' = [inbox EXCEPT ![c] = t]
  BY PeerSendDoes
<1>3. /\ c # 0 /\ c <= conns /\ (port[c] = "shell" => cmd \in {"OTHER", "BAD"})
      /\ (cmd = "LOGIN" => y \in YyIDs) /\ cmd \in ClientKinds
      /\ UNCHANGED <<open, port, conns, jobs, wk, items>>
  BY PeerSendDoes
<1>4. TypeOK /\ Mail(at, from) /\ Fresh
  BY DEF Core
<1>5. s \in Seq(Msg) /\ Unmade(s) /\ MsgsOK(s, port[c], c, from) /\ inbox \in [Conns -> Seq(Msg)]
  BY <1>4 DEF TypeOK, Mail, Fresh
<1> HIDE DEF m, s
<1>6. /\ t \in Seq(Msg) /\ Len(t) = Len(s) + 1 /\ Len(s) \in Nat
      /\ \A i \in 1 .. Len(s) : t[i] = s[i]
      /\ t[Len(s) + 1] = m
  BY <1>1, <1>5, AppendFacts, LenProperties
<1> HIDE DEF t
<1>7. inbox'[c] = t /\ \A d \in Conns \ {c} : inbox'[d] = inbox[d]
  BY <1>2, <1>5
<1>8. \A i \in 1 .. Len(t) : (i \in 1 .. Len(s) /\ t[i] = s[i]) \/ (i = Len(s) + 1 /\ t[i] = m)
  BY <1>6
<1>9. \A i \in 1 .. Len(s) : s[i].n \in 0 .. nmsg
  BY <1>1, <1>5, SentNumbers
<1>10. MsgsOK(inbox[c], port[c], c, from2)'
  <2>1. PICK s0, m0, p0 : s0 \in Seq(Msg) /\ m0 \in Msg /\ s0 = s /\ m0 = m /\ p0 = port[c]
    BY <1>1, <1>5
  <2>2. MsgsOK(Append(s0, m0), p0, c, from2)'
    BY <1>1, <1>3, <1>5, <2>1, MsgsAppend
  <2>3. inbox'[c] = Append(s0, m0) /\ port'[c] = p0
    BY <1>3, <1>7, <2>1 DEF t
  <2>4. QED
    BY <2>2, <2>3, Zenon DEF MsgsOK
<1>11. ASSUME NEW x, NEW w, WorkOK(x, w, at, from), x.org \in 0 .. MaxConns
      PROVE  /\ x.fd \in Fds /\ ThreadOf(x.fd) = w /\ x.msgs # <<>>
             /\ MsgsOK(x.msgs, x.port, x.org, from2)'
             /\ x.org = 0 => Len(x.msgs) = 1 /\ x.port = "client"
             /\ x.org # 0 => /\ x.org <= conns /\ at[x.org] = x.fd /\ x.port = port[x.org]
                             /\ Before(x.msgs, inbox'[x.org])
  <2>1. MsgsOK(x.msgs, x.port, x.org, from2)'
    BY <1>1, <1>11, MsgsGrow DEF WorkOK
  <2>2. ASSUME x.org # 0
        PROVE  Before(x.msgs, inbox'[x.org])
    <3>1. x.org \in Conns /\ Before(x.msgs, inbox[x.org])
      BY <1>11, <2>2, BoundsAssumption DEF WorkOK, Conns
    <3>2. CASE x.org # c
      BY <1>7, <3>1, <3>2
    <3>3. CASE x.org = c
      <4>1. \A i \in 1 .. Len(x.msgs) : x.msgs[i].n \in 0 .. nmsg
        BY <1>1, <1>11, SentNumbers DEF WorkOK
      <4>2. ASSUME NEW i \in 1 .. Len(x.msgs), NEW j \in 1 .. Len(t)
            PROVE  x.msgs[i].n < t[j].n
        <5>1. CASE j \in 1 .. Len(s) /\ t[j] = s[j]
          BY <3>1, <3>3, <5>1 DEF Before, s
        <5>2. CASE t[j] = m
          BY <1>1, <4>1, <5>2
        <5>3. QED
          BY <1>8, <5>1, <5>2
      <4>3. QED
        BY <1>7, <3>3, <4>2 DEF Before
    <3>4. QED
      BY <3>2, <3>3
  <2>3. QED
    BY <1>11, <2>1, <2>2 DEF WorkOK
<1>12. Mail(at, from2)'
  <2>1. ASSUME NEW v \in Workers, NEW i \in 1 .. Len(jobs[v])
        PROVE  WorkOK(jobs[v][i], v, at, from2)'
    <3>1. jobs[v][i].org \in 0 .. MaxConns /\ WorkOK(jobs[v][i], v, at, from)
      BY <1>4, MsgsOfJob DEF Job, Mail
    <3>2. PICK x : x = jobs[v][i]
      OBVIOUS
    <3>3. /\ x.fd \in Fds /\ ThreadOf(x.fd) = v /\ x.msgs # <<>>
          /\ MsgsOK(x.msgs, x.port, x.org, from2)'
          /\ x.org = 0 => Len(x.msgs) = 1 /\ x.port = "client"
          /\ x.org # 0 => /\ x.org <= conns /\ at[x.org] = x.fd /\ x.port = port[x.org]
                          /\ Before(x.msgs, inbox'[x.org])
      BY <1>11, <3>1, <3>2
    <3>4. jobs'[v][i] = x
      BY <1>3, <3>2
    <3>5. QED
      BY <1>3, <3>3, <3>4, Zenon DEF WorkOK, MsgsOK, Before, ThreadOf
  <2>2. ASSUME NEW v \in Workers, wk[v].pc # "idle"
        PROVE  WorkOK(wk[v], v, at, from2)'
    <3>1. wk[v].org \in 0 .. MaxConns /\ WorkOK(wk[v], v, at, from)
      BY <1>4, <2>2, TypeLocal DEF Local, Mail
    <3>2. PICK x : x = wk[v]
      OBVIOUS
    <3>3. /\ x.fd \in Fds /\ ThreadOf(x.fd) = v /\ x.msgs # <<>>
          /\ MsgsOK(x.msgs, x.port, x.org, from2)'
          /\ x.org = 0 => Len(x.msgs) = 1 /\ x.port = "client"
          /\ x.org # 0 => /\ x.org <= conns /\ at[x.org] = x.fd /\ x.port = port[x.org]
                          /\ Before(x.msgs, inbox'[x.org])
      BY <1>11, <3>1, <3>2
    <3>4. wk'[v] = x
      BY <1>3, <3>2
    <3>5. QED
      BY <1>3, <3>3, <3>4, Zenon DEF WorkOK, MsgsOK, Before, ThreadOf
  <2>3. ASSUME NEW d \in Conns
        PROVE  (MsgsOK(inbox[d], port[d], d, from2) /\ (d > conns => inbox[d] = <<>>))'
    <3>1. CASE d = c
      <4>1. ~(c > conns)
        BY <1>3, <1>4 DEF TypeOK, Conns
      <4>2. QED
        BY <1>3, <1>10, <3>1, <4>1
    <3>2. CASE d # c
      <4>1. PICK s0, p0 : s0 = inbox[d] /\ p0 = port[d]
        OBVIOUS
      <4>2. MsgsOK(s0, p0, d, from) /\ (d > conns => s0 = <<>>)
        BY <1>4, <4>1 DEF Mail
      <4>3. MsgsOK(s0, p0, d, from2)'
        BY <1>1, <4>2, MsgsGrow
      <4>4. inbox'[d] = s0 /\ port'[d] = p0
        BY <1>3, <1>7, <3>2, <4>1
      <4>5. QED
        BY <1>3, <4>2, <4>3, <4>4, Zenon DEF MsgsOK
    <3>3. QED
      BY <3>1, <3>2
  <2>4. \A fd \in Fds : (open[fd] # 0 => open[fd] <= conns /\ at[open[fd]] = fd)'
    BY <1>3, <1>4 DEF Mail
  <2>5. QED
    BY <1>3, <2>1, <2>2, <2>3, <2>4 DEF Mail
<1>13. Fresh'
  <2>1. items[nmsg + 1].org = 0
    BY <1>1, <1>4 DEF Fresh
  <2>2. \A i \in 1 .. Len(t) : t[i].n # 0 => items[t[i].n].org = 0
    BY <1>1, <1>5, <1>8, <2>1 DEF Unmade
  <2>3. ASSUME NEW d \in Conns
        PROVE  \A i \in 1 .. Len(inbox'[d]) : inbox'[d][i].n # 0 => items'[inbox'[d][i].n].org = 0
    <3>1. CASE d = c
      BY <1>3, <1>7, <2>2, <3>1
    <3>2. CASE d # c
      BY <1>3, <1>4, <1>7, <3>2 DEF Fresh, Unmade
    <3>3. QED
      BY <3>1, <3>2
  <2>4. \A n \in Items : items'[n].org <= conns' /\ (n > nmsg' => items'[n].org = 0)
    BY <1>1, <1>3, <1>4 DEF Fresh, Items
  <2>5. QED
    BY <1>3, <1>4, <2>3, <2>4 DEF Fresh, Unmade, Cmd
<1>14. QED
  BY <1>12, <1>13

(* Queues and workers are left alone.                                      *)
LEMMA SameOrder ==
  ASSUME Order, UNCHANGED <<jobs, wk>>
  PROVE  Order'
<1>1. ASSUME NEW v \in Workers, NEW i \in 1 .. Len(jobs[v])
      PROVE  (wk[v].pc # "idle" /\ wk[v].org = jobs[v][i].org /\ wk[v].org # 0
                => Before(wk[v].msgs, jobs[v][i].msgs))'
  <2>1. wk[v].pc # "idle" /\ wk[v].org = jobs[v][i].org /\ wk[v].org # 0
          => Before(wk[v].msgs, jobs[v][i].msgs)
    BY DEF Order
  <2>2. QED
    BY <2>1 DEF Before
<1>2. ASSUME NEW v \in Workers, NEW i \in 1 .. Len(jobs[v]), NEW j \in 1 .. Len(jobs[v])
      PROVE  (j < i /\ jobs[v][j].org = jobs[v][i].org /\ jobs[v][i].org # 0
                => Before(jobs[v][j].msgs, jobs[v][i].msgs))'
  <2>1. j < i /\ jobs[v][j].org = jobs[v][i].org /\ jobs[v][i].org # 0
          => Before(jobs[v][j].msgs, jobs[v][i].msgs)
    BY DEF Order
  <2>2. QED
    BY <2>1 DEF Before
<1>3. QED
  BY <1>1, <1>2 DEF Order

(* PeerSend.                                                               *)
LEMMA PeerSendCore ==
  ASSUME NEW at, NEW from \in [Items -> 0 .. MaxConns], Core(at, from), NEW c \in Conns,
         NEW cmd \in Kinds, NEW y \in YyIDs \cup {0}, PeerSend(c, cmd, y)
  PROVE  \E from2 \in [Items -> 0 .. MaxConns] : Core(at, from2)'
<1> DEFINE n == nmsg + 1
<1>1. nmsg \in Nat /\ nmsg' = n /\ n \in Items /\ inbox' \in [Conns -> Seq(Msg)] /\ n <= MaxMsgs
      /\ UNCHANGED <<open, port, fin, conns, jobs, wk, items, fdmap, usermap, outq,
                     wbuf, got, sql, shells, rude, clean>>
  BY PeerSendDoes
<1>2. PICK f : f = [from EXCEPT ![n] = c]
  OBVIOUS
<1>3. /\ f \in [Items -> 0 .. MaxConns] /\ f[n] = c
      /\ \A k \in 1 .. nmsg : f[k] = from[k]
  <2>1. c \in 0 .. MaxConns
    BY BoundsAssumption DEF Conns
  <2>2. \A k \in 1 .. nmsg : k \in Items /\ k # n
    BY <1>1, BoundsAssumption DEF Items
  <2>3. QED
    BY <1>1, <1>2, <2>1, <2>2
<1>4. Mail(at, f)' /\ Fresh'
  BY <1>3, PeerSendMail
<1>5. TypeOK /\ Order /\ Refs(at) /\ Accounts /\ Routed /\ \A v \in Workers : Stage(v)
  BY DEF Core
<1>6. TypeOK'
  <2>1. nmsg' \in 0 .. MaxMsgs
    BY <1>1
  <2>2. QED
    BY <1>1, <1>5, <2>1, Zenon DEF TypeOK
<1>7. Order'
  BY <1>1, <1>5, SameOrder
<1>8. (\A v \in Workers : Stage(v)') /\ Routed' /\ Refs(at)' /\ Accounts'
  <2>1. \A v \in Workers : Stage(v)'
    BY <1>1, <1>5, Zenon DEF Stage, Cmd
  <2>2. Routed' /\ Refs(at)' /\ Accounts'
    BY <1>1, <1>5, Zenon DEF Routed, Refs, Accounts
  <2>3. QED
    BY <2>1, <2>2
<1>9. Core(at, f)'
  BY <1>4, <1>6, <1>7, <1>8 DEF Core
<1>10. QED
  BY <1>3, <1>9

(* A connection is accepted.                                               *)
LEMMA AcceptDoes ==
  ASSUME TypeOK, NEW at, NEW from, Mail(at, from), NEW fd \in Fds,
         NEW p \in {"client", "shell"}, Accept(fd, p)
  PROVE  LET c == conns + 1
         IN  /\ open[fd] = 0 /\ conns \in Nat /\ c \in Conns /\ c \in 0 .. MaxConns /\ conns' = c
             /\ open' \in [Fds -> 0 .. MaxConns] /\ open'[fd] = c
             /\ \A g \in Fds \ {fd} : open'[g] = open[g]
             /\ port' \in [Conns -> {"client", "shell"}] /\ port'[c] = p
             /\ \A d \in Conns \ {c} : port'[d] = port[d]
             /\ inbox' \in [Conns -> Seq(Msg)] /\ \A d \in Conns \ {c} : inbox'[d] = inbox[d]
             /\ inbox'[c] = <<>> \/ \E y \in YyIDs : /\ p = "shell"
                                                     /\ inbox'[c] = <<[cmd |-> "SVR_INIT", y |-> y, n |-> 0]>>
             /\ shells' \in Seq(YyIDs) /\ clean' \subseteq Conns
             /\ clean' = IF Pending(fd) THEN clean ELSE clean \cup {c}
             /\ UNCHANGED <<fin, nmsg, jobs, wk, items, fdmap, usermap, outq, wbuf, got, sql, rude>>
<1> DEFINE c == conns + 1
<1>1. /\ open[fd] = 0 /\ conns < MaxConns /\ conns' = c /\ open' = [open EXCEPT ![fd] = c]
      /\ port' = [port EXCEPT ![c] = p]
      /\ clean' = IF Pending(fd) THEN clean ELSE clean \cup {c}
      /\ \/ UNCHANGED <<inbox, shells>>
         \/ /\ p = "shell" /\ shells # <<>>
            /\ inbox' = [inbox EXCEPT ![c] = <<[cmd |-> "SVR_INIT", y |-> Head(shells), n |-> 0]>>]
            /\ shells' = Tail(shells)
      /\ UNCHANGED <<fin, nmsg, jobs, wk, items, fdmap, usermap, outq, wbuf, got, sql, rude>>
  BY DEF Accept
<1>2. conns \in Nat /\ c \in Conns /\ c \in 0 .. MaxConns /\ c > conns
  BY <1>1, BoundsAssumption DEF TypeOK, Conns
<1> HIDE DEF c
<1>3. /\ open' \in [Fds -> 0 .. MaxConns] /\ open'[fd] = c
      /\ \A g \in Fds \ {fd} : open'[g] = open[g]
  BY <1>1, <1>2 DEF TypeOK
<1>4. /\ port' \in [Conns -> {"client", "shell"}] /\ port'[c] = p
      /\ \A d \in Conns \ {c} : port'[d] = port[d]
  BY <1>1, <1>2 DEF TypeOK
<1>5. clean' \subseteq Conns
  BY <1>1, <1>2 DEF TypeOK
<1>6. inbox \in [Conns -> Seq(Msg)] /\ inbox[c] = <<>> /\ shells \in Seq(YyIDs)
  BY <1>2 DEF TypeOK, Mail
<1>7. CASE UNCHANGED <<inbox, shells>>
  BY <1>1, <1>2, <1>3, <1>4, <1>5, <1>6, <1>7 DEF c
<1>8. CASE /\ p = "shell" /\ shells # <<>>
           /\ inbox' = [inbox EXCEPT ![c] = <<[cmd |-> "SVR_INIT", y |-> Head(shells), n |-> 0]>>]
           /\ shells' = Tail(shells)
  <2> DEFINE m == [cmd |-> "SVR_INIT", y |-> Head(shells), n |-> 0]
             s == <<m>>
  <2>1. Head(shells) \in YyIDs /\ Tail(shells) \in Seq(YyIDs)
    BY <1>6, <1>8, TailFacts
  <2>2. m \in Msg
    BY <2>1, BoundsAssumption DEF Msg
  <2>3. inbox' = [inbox EXCEPT ![c] = s]
    BY <1>8
  <2> HIDE DEF m
  <2>4. s \in Seq(Msg)
    BY <2>2
  <2> HIDE DEF s
  <2>5. inbox' \in [Conns -> Seq(Msg)] /\ inbox'[c] = s /\ \A d \in Conns \ {c} : inbox'[d] = inbox[d]
    BY <1>2, <1>6, <2>3, <2>4
  <2>6. \E y \in YyIDs : p = "shell" /\ inbox'[c] = <<[cmd |-> "SVR_INIT", y |-> y, n |-> 0]>>
    BY <1>8, <2>1, <2>5, Zenon DEF s, m
  <2>7. shells' \in Seq(YyIDs)
    BY <1>8, <2>1
  <2>8. QED
    BY <1>1, <1>2, <1>3, <1>4, <1>5, <2>5, <2>6, <2>7, Zenon DEF c
<1>9. QED
  BY <1>1, <1>7, <1>8

(* SVR_INIT is a command a shell client may send.                          *)
LEMMA InitMsgs ==
  ASSUME NEW from, NEW c, c # 0, NEW y \in YyIDs,
         NEW s, s = <<[cmd |-> "SVR_INIT", y |-> y, n |-> 0]>>
  PROVE  MsgsOK(s, "shell", c, from)' /\ Unmade(s)'
<1> DEFINE m == [cmd |-> "SVR_INIT", y |-> y, n |-> 0]
<1>1. m.cmd = "SVR_INIT" /\ m.y \in YyIDs /\ m.n = 0
  OBVIOUS
<1> HIDE DEF m
<1>2. Len(s) = 1 /\ s[1] = m
  BY DEF m
<1>3. \A i \in 1 .. Len(s) : s[i] = m /\ i = 1
  BY <1>2
<1>4. MsgOK(m, "shell", c, from)'
  BY <1>1 DEF MsgOK
<1>5. \A i, j \in 1 .. Len(s) : ~(i < j)
  BY <1>3
<1>6. MsgsOK(s, "shell", c, from)'
  BY <1>3, <1>4, <1>5 DEF MsgsOK
<1>7. Unmade(s)'
  BY <1>1, <1>3 DEF Unmade
<1>8. QED
  BY <1>6, <1>7

(* Accept: the new connection has a number of its own, and the descriptor  *)
(* it is accepted on is recorded.                                          *)
LEMMA AcceptCore ==
  ASSUME NEW at \in [Conns -> Nat], NEW from, Core(at, from), NEW fd \in Fds,
         NEW p \in {"client", "shell"}, Accept(fd, p)
  PROVE  \E at2 \in [Conns -> Nat] : Core(at2, from)'
<1> DEFINE c == conns + 1
<1>1. /\ TypeOK /\ Mail(at, from) /\ Order /\ Refs(at) /\ Accounts /\ Routed /\ Fresh
      /\ \A v \in Workers : Stage(v)
  BY DEF Core
<1>2. /\ open[fd] = 0 /\ conns \in Nat /\ c \in Conns /\ c \in 0 .. MaxConns /\ conns' = c
      /\ open' \in [Fds -> 0 .. MaxConns] /\ open'[fd] = c
      /\ \A g \in Fds \ {fd} : open'[g] = open[g]
  BY <1>1, AcceptDoes
<1>3. /\ port' \in [Conns -> {"client", "shell"}] /\ port'[c] = p
      /\ \A d \in Conns \ {c} : port'[d] = port[d]
      /\ inbox' \in [Conns -> Seq(Msg)] /\ \A d \in Conns \ {c} : inbox'[d] = inbox[d]
      /\ shells' \in Seq(YyIDs) /\ clean' \subseteq Conns
  BY <1>1, AcceptDoes
<1>4. inbox'[c] = <<>> \/ \E y \in YyIDs : /\ p = "shell"
                                           /\ inbox'[c] = <<[cmd |-> "SVR_INIT", y |-> y, n |-> 0]>>
  BY <1>1, AcceptDoes, Zenon
<1>5. UNCHANGED <<fin, nmsg, jobs, wk, items, fdmap, usermap, outq, wbuf, got, sql, rude>>
  BY <1>1, AcceptDoes
<1>6. PICK f : f = [at EXCEPT ![c] = fd]
  OBVIOUS
<1>7. /\ f \in [Conns -> Nat] /\ f[c] = fd
      /\ \A d \in Conns : d <= conns => f[d] = at[d] /\ d # c
  <2>1. fd \in Nat
    BY FdsAssumption
  <2>2. \A d \in Conns : d <= conns => d # c
    BY <1>2 DEF Conns
  <2>3. QED
    BY <1>2, <1>6, <2>1, <2>2
<1>8. PICK cc : cc = c
  OBVIOUS
<1> HIDE DEF c
<1>9. MsgsOK(inbox[cc], port[cc], cc, from)' /\ Unmade(inbox[cc])'
  <2>1. CASE inbox'[cc] = <<>>
    <3>1. \A i : i \notin 1 .. Len(inbox'[cc])
      BY <2>1
    <3>2. QED
      BY <3>1 DEF MsgsOK, Unmade
  <2>2. CASE \E y \in YyIDs : p = "shell" /\ inbox'[cc] = <<[cmd |-> "SVR_INIT", y |-> y, n |-> 0]>>
    <3>1. PICK y \in YyIDs : p = "shell" /\ inbox'[cc] = <<[cmd |-> "SVR_INIT", y |-> y, n |-> 0]>>
      BY <2>2
    <3>2. PICK s : s = <<[cmd |-> "SVR_INIT", y |-> y, n |-> 0]>>
      OBVIOUS
    <3>3. cc # 0
      BY <1>2, <1>8, BoundsAssumption DEF Conns
    <3>4. MsgsOK(s, "shell", cc, from)' /\ Unmade(s)'
      BY <3>2, <3>3, InitMsgs
    <3>5. inbox'[cc] = s /\ port'[cc] = "shell"
      BY <1>3, <1>8, <3>1, <3>2
    <3>6. QED
      BY <3>4, <3>5, Zenon DEF MsgsOK, Unmade
  <2>3. QED
    BY <1>4, <1>8, <2>1, <2>2
<1>10. TypeOK'
  BY <1>1, <1>2, <1>3, <1>5, Zenon DEF TypeOK
<1>11. ASSUME NEW x, NEW w, WorkOK(x, w, at, from), x.org \in 0 .. MaxConns
       PROVE  x.org # 0 => /\ x.org <= conns' /\ f[x.org] = x.fd /\ x.port = port'[x.org]
                           /\ inbox'[x.org] = inbox[x.org]
  <2> SUFFICES ASSUME x.org # 0
               PROVE  /\ x.org <= conns' /\ f[x.org] = x.fd /\ x.port = port'[x.org]
                      /\ inbox'[x.org] = inbox[x.org]
    OBVIOUS
  <2>1. x.org \in Conns /\ x.org <= conns /\ at[x.org] = x.fd /\ x.port = port[x.org]
    BY <1>11, BoundsAssumption DEF WorkOK, Conns
  <2>2. x.org # c /\ f[x.org] = at[x.org]
    BY <1>7, <2>1
  <2>3. x.org <= conns'
    BY <1>2, <2>1 DEF c, Conns
  <2>4. QED
    BY <1>3, <2>1, <2>2, <2>3
<1>12. Mail(f, from)'
  <2>1. ASSUME NEW v \in Workers, NEW i \in 1 .. Len(jobs[v])
        PROVE  WorkOK(jobs[v][i], v, f, from)'
    <3>1. jobs[v][i].org \in 0 .. MaxConns /\ WorkOK(jobs[v][i], v, at, from)
      BY <1>1, MsgsOfJob DEF Job, Mail
    <3>2. PICK x : x = jobs[v][i]
      OBVIOUS
    <3>3. x.org # 0 => /\ x.org <= conns' /\ f[x.org] = x.fd /\ x.port = port'[x.org]
                       /\ inbox'[x.org] = inbox[x.org]
      BY <1>11, <3>1, <3>2
    <3>4. jobs'[v][i] = x /\ WorkOK(x, v, at, from)
      BY <1>5, <3>1, <3>2
    <3>5. MsgsOK(x.msgs, x.port, x.org, from)'
      BY <1>5, <3>4 DEF WorkOK, MsgsOK, MsgOK
    <3>6. x.org # 0 => Before(x.msgs, inbox'[x.org])
      BY <3>3, <3>4, Zenon DEF WorkOK
    <3>7. QED
      BY <3>3, <3>4, <3>5, <3>6, Zenon DEF WorkOK, MsgsOK, Before, ThreadOf
  <2>2. ASSUME NEW v \in Workers, wk[v].pc # "idle"
        PROVE  WorkOK(wk[v], v, f, from)'
    <3>1. wk[v].org \in 0 .. MaxConns /\ WorkOK(wk[v], v, at, from)
      BY <1>1, <2>2, TypeLocal DEF Local, Mail
    <3>2. PICK x : x = wk[v]
      OBVIOUS
    <3>3. x.org # 0 => /\ x.org <= conns' /\ f[x.org] = x.fd /\ x.port = port'[x.org]
                       /\ inbox'[x.org] = inbox[x.org]
      BY <1>11, <3>1, <3>2
    <3>4. wk'[v] = x /\ WorkOK(x, v, at, from)
      BY <1>5, <3>1, <3>2
    <3>5. MsgsOK(x.msgs, x.port, x.org, from)'
      BY <1>5, <3>4 DEF WorkOK, MsgsOK, MsgOK
    <3>6. x.org # 0 => Before(x.msgs, inbox'[x.org])
      BY <3>3, <3>4, Zenon DEF WorkOK
    <3>7. QED
      BY <3>3, <3>4, <3>5, <3>6, Zenon DEF WorkOK, MsgsOK, Before, ThreadOf
  <2>3. ASSUME NEW d \in Conns
        PROVE  (MsgsOK(inbox[d], port[d], d, from) /\ (d > conns => inbox[d] = <<>>))'
    <3>1. CASE d = cc
      <4>1. ~(d > conns')
        BY <1>2, <1>8, <3>1 DEF Conns
      <4>2. QED
        BY <1>9, <3>1, <4>1
    <3>2. CASE d # cc
      <4>1. MsgsOK(inbox[d], port[d], d, from) /\ (d > conns => inbox[d] = <<>>)
        BY <1>1 DEF Mail
      <4>2. inbox'[d] = inbox[d] /\ port'[d] = port[d]
        BY <1>3, <1>8, <3>2
      <4>3. d > conns' => inbox'[d] = <<>>
        BY <1>2, <4>1, <4>2 DEF c, Conns
      <4>4. QED
        BY <1>5, <4>1, <4>2, <4>3 DEF MsgsOK, MsgOK
    <3>3. QED
      BY <3>1, <3>2
  <2>4. ASSUME NEW g \in Fds, open'[g] # 0
        PROVE  open'[g] <= conns' /\ f[open'[g]] = g
    <3>1. CASE g = fd
      BY <1>2, <1>7, <3>1 DEF Conns
    <3>2. CASE g # fd
      <4>1. open'[g] = open[g] /\ open[g] <= conns /\ at[open[g]] = g /\ open[g] \in 0 .. MaxConns
        BY <1>1, <1>2, <2>4, <3>2 DEF Mail, TypeOK
      <4>2. open[g] \in Conns
        BY <2>4, <4>1, BoundsAssumption DEF Conns
      <4>3. open[g] <= conns'
        BY <1>2, <4>1 DEF c
      <4>4. QED
        BY <1>7, <4>1, <4>2, <4>3
    <3>3. QED
      BY <3>1, <3>2
  <2>5. QED
    BY <1>5, <2>1, <2>2, <2>3, <2>4 DEF Mail
<1>13. Order'
  BY <1>1, <1>5, SameOrder
<1>14. Fresh'
  <2>1. ASSUME NEW d \in Conns
        PROVE  Unmade(inbox[d])'
    <3>1. CASE d = cc
      BY <1>9, <3>1
    <3>2. CASE d # cc
      BY <1>1, <1>3, <1>5, <1>8, <3>2 DEF Fresh, Unmade
    <3>3. QED
      BY <3>1, <3>2
  <2>2. \A n \in Items : items'[n].org <= conns' /\ (n > nmsg' => items'[n].org = 0)
    <3>1. ASSUME NEW n \in Items
          PROVE  items[n].org <= conns + 1 /\ (n > nmsg => items[n].org = 0)
      <4>1. items[n].org \in 0 .. MaxConns
        BY <1>1, TypeLocal DEF Item
      <4>2. QED
        BY <1>1, <1>2, <4>1 DEF Fresh
    <3>2. QED
      BY <1>2, <1>5, <3>1 DEF c
  <2>3. QED
    BY <1>1, <1>5, <2>1, <2>2 DEF Fresh, Unmade, Cmd
<1>15. Refs(f)'
  <2>1. ASSUME NEW i \in Items, items[i].org # 0
        PROVE  f[items[i].org] = at[items[i].org]
    <3>1. items[i].org \in 0 .. MaxConns /\ items[i].org <= conns
      BY <1>1, TypeLocal DEF Item, Fresh
    <3>2. items[i].org \in Conns
      BY <2>1, <3>1, BoundsAssumption DEF Conns
    <3>3. QED
      BY <1>7, <3>1, <3>2
  <2>2. /\ \A v \in Workers : wk[v].item # 0 => wk[v].item \in Items
        /\ \A g \in Fds : fdmap[g] # 0 => fdmap[g] \in Items
    BY <1>1, TypeLocal DEF Local, TypeOK
  <2>3. Refs(f)
    BY <1>1, <2>1, <2>2 DEF Refs
  <2>4. QED
    BY <1>5, <2>3, Zenon DEF Refs
<1>16. (\A v \in Workers : Stage(v)') /\ Routed' /\ Accounts'
  <2>1. \A v \in Workers : Stage(v)'
    BY <1>1, <1>5, Zenon DEF Stage, Cmd
  <2>2. Routed' /\ Accounts'
    BY <1>1, <1>5, Zenon DEF Routed, Accounts
  <2>3. QED
    BY <2>1, <2>2
<1>17. Core(f, from)'
  BY <1>10, <1>12, <1>13, <1>14, <1>15, <1>16 DEF Core
<1>18. QED
  BY <1>7, <1>17

-----------------------------------------------------------------------------
(* The invariant of the specification.                                     *)
CoreInv ==
  \E at \in [Conns -> Nat], from \in [Items -> 0 .. MaxConns] : Core(at, from)

(* At the start nothing has been sent, and no session exists.              *)
LEMMA InitCore ==
  ASSUME Init
  PROVE  CoreInv
<1> DEFINE at == [c \in Conns |-> 0]
           from == [n \in Items |-> 0]
<1>1. at \in [Conns -> Nat] /\ from \in [Items -> 0 .. MaxConns]
  BY BoundsAssumption
<1> HIDE DEF at, from
<1>2. TypeOK
  <2>1. 0 \in 0 .. MaxConns /\ 0 \in 0 .. MaxMsgs
    BY BoundsAssumption
  <2>2. wk \in [Workers -> Local]
    BY IdleLocal DEF Init
  <2>3. \A c \in 0 .. MaxConns : NewItem(c) \in Item
    BY <2>1 DEF NewItem, Item
  <2>4. items \in [Items -> Item]
    BY <2>1, <2>3 DEF Init
  <2>5. sql \in [Workers -> BOOLEAN]
    BY SqlAssumption DEF Init
  <2>6. /\ open \in [Fds -> 0 .. MaxConns] /\ port \in [Conns -> {"client", "shell"}]
        /\ inbox \in [Conns -> Seq(Msg)] /\ fin \subseteq Conns /\ conns \in 0 .. MaxConns
        /\ nmsg \in 0 .. MaxMsgs /\ jobs \in [Workers -> Seq(Job)]
        /\ fdmap \in [Fds -> Items \cup {0}] /\ usermap \in [YyIDs -> Items \cup {0}]
        /\ outq \in Seq(Out) /\ wbuf \in [Fds -> Seq(Out)] /\ got \in [Conns -> Seq(Out)]
        /\ shells \in Seq(YyIDs) /\ rude \subseteq Conns /\ clean \subseteq Conns
    BY <2>1, EmptySeq DEF Init
  <2>7. QED
    BY <2>2, <2>4, <2>5, <2>6, Zenon DEF TypeOK, Local, Item
<1>3. /\ \A w \in Workers : jobs[w] = <<>> /\ wk[w] = Idle
      /\ \A c \in Conns : inbox[c] = <<>>
      /\ \A i \in Items : items[i].org = 0
      /\ \A fd \in Fds : open[fd] = 0 /\ fdmap[fd] = 0
      /\ \A y \in YyIDs : usermap[y] = 0
      /\ conns = 0 /\ nmsg = 0
  BY DEF Init, NewItem
<1>4. \A i : i \notin 1 .. Len(<<>>)
  OBVIOUS
<1>5. (\A w \in Workers : Stage(w)) /\ Routed
  BY <1>3 DEF Stage, Idle, Routed, LoginPc, LogoutPc, UrlPc, InitPc
<1>6. Mail(at, from) /\ Order
  BY <1>3, <1>4 DEF Mail, Order, MsgsOK, Idle
<1>7. Fresh
  BY <1>3, <1>4 DEF Fresh, Unmade, Idle
<1>8. Refs(at) /\ Accounts
  BY <1>3 DEF Refs, Accounts, Idle
<1>9. QED
  BY <1>1, <1>2, <1>5, <1>6, <1>7, <1>8 DEF Core, CoreInv

(* Every step of a worker keeps it.                                        *)
LEMMA WorkerCore ==
  ASSUME NEW at, NEW from, NEW w \in Workers, Core(at, from), Worker(w)
  PROVE  Core(at, from)'
<1>1. CASE TakeJob(w) \/ NotLogin(w) \/ BadFrame(w) \/ OtherCmd(w)
  BY <1>1, TakeJobCore, NotLoginCore, BadFrameCore, OtherCmdCore
<1>2. CASE LoginNew(w) \/ LoginAccount(w) \/ LoginCmd(w) \/ LoginRefused(w) \/ Login1(w)
  BY <1>2, LoginNewCore, LoginAccountCore, LoginCmdCore, LoginRefusedCore, Login1Core
<1>3. CASE Logout(w) \/ ShellExit(w) \/ LogoutDelUser(w) \/ LogoutDelFd(w)
  BY <1>3, LogoutCore, ShellExitCore, LogoutDelUserCore, LogoutDelFdCore
<1>4. CASE OpenUrl(w) \/ UrlVisible(w) \/ OpenUrlRoute(w)
  BY <1>4, OpenUrlCore, UrlVisibleCore, OpenUrlRouteCore
<1>5. CASE OpenUrlTell(w) \/ ShellExec(w) \/ OpenUrlAnswer(w)
  BY <1>5, OpenUrlTellCore, ShellExecCore, OpenUrlAnswerCore
<1>6. CASE SvrInit(w) \/ SvrRegister(w) \/ SvrTell(w)
  BY <1>6, SvrInitCore, SvrRegisterCore, SvrTellCore
<1>7. QED
  BY <1>1, <1>2, <1>3, <1>4, <1>5, <1>6 DEF Worker

(* A step that changes nothing keeps it.                                   *)
LEMMA SameCore ==
  ASSUME NEW at, NEW from, Core(at, from), UNCHANGED vars
  PROVE  Core(at, from)'
<1>1. TypeOK' /\ (\A w \in Workers : Stage(w)') /\ Routed'
  BY Zenon DEF Core, vars, TypeOK, Stage, Routed, Cmd
<1>2. Order' /\ Fresh' /\ Refs(at)' /\ Accounts'
  <2>1. Order'
    BY SameOrder DEF Core, vars
  <2>2. Fresh'
    BY Zenon DEF Core, vars, Fresh, Unmade, Cmd
  <2>3. Refs(at)' /\ Accounts'
    BY Zenon DEF Core, vars, Refs, Accounts
  <2>4. QED
    BY <2>1, <2>2, <2>3
<1>3. Mail(at, from)'
  <2>1. /\ \A fd \in Fds : (open[fd] # 0 => open[fd] <= conns /\ at[open[fd]] = fd)'
        /\ \A c \in Conns : (c > conns => inbox[c] = <<>>)'
    BY Zenon DEF Core, vars, Mail
  <2>2. \A c \in Conns : MsgsOK(inbox[c], port[c], c, from)'
    BY Zenon DEF Core, vars, Mail, MsgsOK, MsgOK
  <2>3. ASSUME NEW w \in Workers, NEW i \in 1 .. Len(jobs[w])
        PROVE  WorkOK(jobs[w][i], w, at, from)'
    <3>1. WorkOK(jobs[w][i], w, at, from)
      BY DEF Core, Mail
    <3>2. QED
      BY <3>1 DEF vars, WorkOK, MsgsOK, MsgOK, Before, ThreadOf
  <2>4. ASSUME NEW w \in Workers, wk'[w].pc # "idle"
        PROVE  WorkOK(wk[w], w, at, from)'
    <3>1. WorkOK(wk[w], w, at, from)
      BY <2>4 DEF Core, Mail, vars
    <3>2. QED
      BY <3>1 DEF vars, WorkOK, MsgsOK, MsgOK, Before, ThreadOf
  <2>5. jobs' = jobs
    BY DEF vars
  <2>6. QED
    BY <2>1, <2>2, <2>3, <2>4, <2>5 DEF Mail
<1>4. QED
  BY <1>1, <1>2, <1>3 DEF Core

(* Every step keeps it: connections and commands that come are recorded.   *)
LEMMA StepCore ==
  ASSUME CoreInv, [Next]_vars
  PROVE  CoreInv'
<1>1. PICK at \in [Conns -> Nat], from \in [Items -> 0 .. MaxConns] : Core(at, from)
  BY DEF CoreInv
<1>2. ASSUME Core(at, from)'
      PROVE  CoreInv'
  BY <1>2 DEF CoreInv
<1>3. CASE UNCHANGED vars
  BY <1>1, <1>2, <1>3, SameCore
<1>4. CASE \E w \in Workers : Worker(w)
  BY <1>1, <1>2, <1>4, WorkerCore
<1>5. CASE EventLoop
  <2>1. ASSUME NEW fd \in Fds, NEW p \in {"client", "shell"}, Accept(fd, p)
        PROVE  CoreInv'
    <3>1. PICK at2 \in [Conns -> Nat] : Core(at2, from)'
      BY <1>1, <2>1, AcceptCore
    <3>2. QED
      BY <3>1 DEF CoreInv
  <2>2. ASSUME NEW fd \in Fds, DoRead(fd) \/ PeerGone(fd) \/ DoWrite(fd)
        PROVE  CoreInv'
    BY <1>1, <1>2, <2>2, DoReadCore, PeerGoneCore, DoWriteCore
  <2>3. CASE QueueReceive
    BY <1>1, <1>2, <2>3, QueueReceiveCore
  <2>4. QED
    BY <1>5, <2>1, <2>2, <2>3 DEF EventLoop
<1>6. CASE Peers
  <2>1. ASSUME NEW c \in Conns, NEW cmd \in Kinds, NEW y \in YyIDs \cup {0}, PeerSend(c, cmd, y)
        PROVE  CoreInv'
    <3>1. PICK from2 \in [Items -> 0 .. MaxConns] : Core(at, from2)'
      BY <1>1, <2>1, PeerSendCore
    <3>2. QED
      BY <3>1 DEF CoreInv
  <2>2. ASSUME NEW c \in Conns, PeerClose(c)
        PROVE  CoreInv'
    BY <1>1, <1>2, <2>2, PeerCloseCore
  <2>3. QED
    BY <1>6, <2>1, <2>2 DEF Peers
<1>7. QED
  BY <1>3, <1>4, <1>5, <1>6 DEF Next

(* The invariant holds in every state of every run of the server.          *)
THEOREM CoreCorrect == Spec => []CoreInv
<1>1. Init => CoreInv
  BY InitCore
<1>2. CoreInv /\ [Next]_vars => CoreInv'
  BY StepCore
<1>3. QED
  BY <1>1, <1>2, PTL DEF Spec

(* The queues, maps, sessions and locals keep their types, for any number  *)
(* of workers, descriptors, users, connections and commands: in particular *)
(* a worker always has a command where JsonProcess reads one, a session    *)
(* where a handler uses state, and every answer has a real descriptor.     *)
THEOREM TypeCorrect == Spec => []TypeOK
<1>1. CoreInv => TypeOK
  BY DEF CoreInv, Core
<1>2. QED
  BY <1>1, CoreCorrect, PTL
=============================================================================
