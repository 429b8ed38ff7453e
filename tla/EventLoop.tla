------------------------------- MODULE EventLoop -------------------------------
(***************************************************************************)
(* The event thread: libevent's loop around the connections and the queue  *)
(* of OutQueue.                                                            *)
(*                                                                         *)
(* Sources: src/src/event/yylibevent.cpp (Bind, do_accept, alloc_fd_state, *)
(* free_fd_state, do_read, do_write, queue_receive, closefd).              *)
(*                                                                         *)
(* One round of the loop polls and then runs the callbacks of everything   *)
(* that was ready, in any order.  The listener and the socket pair are     *)
(* level-triggered and get ONE accept, ONE byte per round; a connection is *)
(* edge-triggered (EV_ET): it is reported once per change, so what a       *)
(* callback leaves behind is not reported again.  All the callbacks run in *)
(* the event thread; the workers push into the queue beside it, and the    *)
(* peers and the kernel act on the sockets at any moment.  Bytes of an     *)
(* answer are counted, input is counted in chunks of one recv.             *)
(***************************************************************************)
EXTENDS OutQueue

CONSTANTS
  Fds,        (* the descriptors accept() may return                       *)
  Sizes,      (* sizes of the buffers the workers queue; 0 is closefd      *)
  SndBuf,     (* bytes a connection's send buffer in the kernel holds      *)
  MaxIn,      (* bound on the unread chunks of one connection              *)
  MaxConns    (* bound on the connections the peers open                   *)

ASSUME FdsAssumption == Fds \subseteq Nat \ {0} /\ IsFiniteSet(Fds)
ASSUME SizesAssumption == Sizes \subseteq Nat
ASSUME BoundsAssumption ==
  /\ SndBuf \in Nat \ {0}
  /\ MaxIn \in Nat \ {0}
  /\ MaxConns \in Nat

VARIABLES
  cargo,     (* fd and size of the buffers in bufs, in the same order      *)
  con,       (* per descriptor: fd_state, its events and its socket        *)
  backlog,   (* connections the peers opened and the listener still holds  *)
  conns,     (* the number of connections the peers have opened            *)
  served,    (* the descriptors the workers have had data from             *)
  active     (* callbacks of this round that are still to run              *)

sockVars == <<con, backlog, conns, served>>
loopVars == <<vars, cargo, sockVars, active>>

(* A descriptor in use has an fd_state (open), its writebuffer (wbuf), the *)
(* write event added or not (wadd), an unreported change (edge), space to  *)
(* send (room), input (inb), the peer's close (fin); full remembers that   *)
(* the send buffer has been full.                                          *)
NoState == [open |-> FALSE, wbuf |-> 0, wadd |-> FALSE, edge |-> FALSE,
            room |-> SndBuf, inb |-> 0, fin |-> FALSE, full |-> FALSE]

LoopInit ==
  /\ Init
  /\ cargo = <<>>
  /\ con = [fd \in Fds |-> NoState]
  /\ backlog = 0
  /\ conns = 0
  /\ served = {}
  /\ active = {}

-----------------------------------------------------------------------------
(* libevent over epoll.                                                    *)

(* The conditions of a connection that its added events wait for.          *)
Ready(c) == {k \in {"read", "write"} :
               \/ k = "read" /\ (c.inb > 0 \/ c.fin)
               \/ k = "write" /\ c.wadd /\ c.room > 0}

(* event_add and event_del change the epoll entry, and epoll_ctl reports   *)
(* the entry anew when something it waits for is ready already.            *)
Changed(c) == [c EXCEPT !.edge = @ \/ Ready(c) # {}]

EventAdd(c) == IF c.wadd THEN c ELSE Changed([c EXCEPT !.wadd = TRUE])
EventDel(c) == Changed([c EXCEPT !.wadd = FALSE])

Callback == ({"queue", "accept"} \X {0}) \cup ({"read", "write"} \X Fds)

Due ==
  {cb \in Callback :
     \/ cb[1] = "queue" /\ flags + pad > 0
     \/ cb[1] = "accept" /\ backlog > 0
     \/ /\ cb[2] \in Fds
        /\ con[cb[2]].edge
        /\ cb[1] \in Ready(con[cb[2]])}

(* epoll_wait returns: everything ready is reported, every edge is spent.  *)
Poll ==
  /\ loop
  /\ active = {}
  /\ Due # {}
  /\ active' = Due
  /\ con' = [fd \in Fds |-> [con[fd] EXCEPT !.edge = FALSE]]
  /\ UNCHANGED <<vars, cargo, backlog, conns, served>>

(* free_fd_state: fd_close, the entry, both events and the descriptor go;  *)
(* event_free also withdraws the callbacks of the descriptor.              *)
FreeFdState(fd, cb) ==
  /\ con' = [con EXCEPT ![fd] = NoState]
  /\ active' = {a \in active \ {cb} : a[2] # fd}

-----------------------------------------------------------------------------
(* The callbacks.                                                          *)

(* Mutant: accept is retried until a descriptor is free.                   *)
DoAcceptRetries ==
  /\ <<"accept", 0>> \in active
  /\ LET free == {fd \in Fds : ~con[fd].open} IN
     \/ /\ free = {}
        /\ UNCHANGED <<con, backlog, active>>
     \/ \E fd \in free :
          /\ con' = [con EXCEPT ![fd] = Changed([NoState EXCEPT !.open = TRUE])]
          /\ backlog' = backlog - 1
          /\ active' = active \ {<<"accept", 0>>}
  /\ UNCHANGED <<vars, cargo, conns, served>>

(* do_accept: one connection per callback, on the lowest free descriptor   *)
(* (with none, accept fails with EMFILE).  The new connection may already  *)
(* hold input, and its peer may be gone, when its read event is added.     *)
DoAccept ==
  /\ <<"accept", 0>> \in active
  /\ active' = active \ {<<"accept", 0>>}
  /\ LET free == {fd \in Fds : ~con[fd].open} IN
     \/ /\ free = {}
        /\ UNCHANGED <<con, backlog>>
     \/ \E fd \in free, early \in 0 .. MaxIn, gone \in BOOLEAN :
          /\ \A other \in free : fd <= other
          /\ con' = [con EXCEPT ![fd] =
               Changed([NoState EXCEPT !.open = TRUE, !.inb = early, !.fin = gone])]
          /\ backlog' = backlog - 1
  /\ UNCHANGED <<vars, cargo, conns, served>>

(* Mutant: one recv per callback, as if the event were level-triggered.    *)
DoReadOnce(fd) ==
  LET c == con[fd] IN
  /\ <<"read", fd>> \in active
  /\ IF c.fin /\ c.inb = 0
     THEN /\ FreeFdState(fd, <<"read", fd>>)
          /\ UNCHANGED served
     ELSE /\ con' = [con EXCEPT ![fd].inb = IF @ > 0 THEN @ - 1 ELSE 0]
          /\ served' = served \cup {fd}
          /\ active' = active \ {<<"read", fd>>}
  /\ UNCHANGED <<vars, cargo, backlog, conns>>

(* do_read: recv until it would block, then the whole input goes to        *)
(* data_receive.  When recv meets the peer's close the state is freed and  *)
(* the input read in the same callback is deleted.                         *)
DoRead(fd) ==
  LET c == con[fd] IN
  /\ <<"read", fd>> \in active
  /\ IF c.fin
     THEN /\ FreeFdState(fd, <<"read", fd>>)
          /\ UNCHANGED served
     ELSE /\ con' = [con EXCEPT ![fd].inb = 0]
          /\ served' = IF c.inb > 0 THEN served \cup {fd} ELSE served
          /\ active' = active \ {<<"read", fd>>}
  /\ UNCHANGED <<vars, cargo, backlog, conns>>

(* Mutant: a short send is taken for a whole one.                          *)
AfterSendAll(c) == EventDel([c EXCEPT !.wbuf = 0, !.room = @ - c.wbuf])

(* What one send of the writebuffer leaves: all of it sent, or, after a    *)
(* short send, the rest dropped by read(NULL, sz) with the event added.    *)
AfterSend(c) ==
  IF c.wbuf <= c.room
  THEN EventDel([c EXCEPT !.wbuf = 0, !.room = @ - c.wbuf, !.full = @ \/ c.wbuf = c.room])
  ELSE [c EXCEPT !.wbuf = 0, !.room = 0, !.full = TRUE]

(* Mutant: the write event stays added only while something was sent.      *)
DoWriteClears(fd) ==
  LET c == con[fd] IN
  /\ <<"write", fd>> \in active
  /\ con' = [con EXCEPT ![fd] =
       CASE c.wbuf = 0 -> EventDel(c)
         [] OTHER      -> [AfterSend(c) EXCEPT !.wadd = TRUE]]
  /\ active' = active \ {<<"write", fd>>}
  /\ UNCHANGED <<vars, cargo, backlog, conns, served>>

(* do_write: nothing to send takes the event away, a send that would block *)
(* leaves everything for the next change, an error (the peer is gone)      *)
(* frees the state.                                                        *)
DoWrite(fd) ==
  LET c == con[fd] IN
  /\ <<"write", fd>> \in active
  /\ \/ /\ con' = [con EXCEPT ![fd] =
             CASE c.wbuf = 0 -> EventDel(c)
               [] c.wbuf > 0 /\ c.room = 0 -> c
               [] OTHER -> AfterSend(c)]
        /\ active' = active \ {<<"write", fd>>}
     \/ /\ c.wbuf > 0 /\ c.fin
        /\ FreeFdState(fd, <<"write", fd>>)
  /\ UNCHANGED <<vars, cargo, backlog, conns, served>>

(* queue_receive with the buffer it popped: an empty one closes, another   *)
(* is appended to the writebuffer and the write event is added; without an *)
(* fd_state the buffer is dropped.                                         *)
QueueReceive(b) ==
  IF b.size = 0 /\ con[b.fd].open
  THEN FreeFdState(b.fd, <<"queue", 0>>)
  ELSE /\ con' = IF con[b.fd].open
                 THEN [con EXCEPT ![b.fd] = EventAdd([con[b.fd] EXCEPT !.wbuf = @ + b.size])]
                 ELSE con
       /\ active' = active \ {<<"queue", 0>>}

(* Mutant: the callback reads until the queue would block.                 *)
DoQueueReadLevel ==
  /\ <<"queue", 0>> \in active
  /\ \/ /\ ReadPad
        /\ UNCHANGED <<cargo, con, active>>
     \/ /\ ReadFlag
        /\ cargo' = Pop(cargo)
        /\ IF cargo = <<>>
           THEN /\ active' = active \ {<<"queue", 0>>}
                /\ UNCHANGED con
           ELSE QueueReceive(cargo[1])
  /\ UNCHANGED <<backlog, conns, served>>

(* do_queue_read: one byte, and queue_receive when it is a flag.           *)
DoQueueRead ==
  /\ <<"queue", 0>> \in active
  /\ \/ /\ ReadPad
        /\ active' = active \ {<<"queue", 0>>}
        /\ UNCHANGED <<cargo, con>>
     \/ /\ ReadFlag
        /\ cargo' = Pop(cargo)
        /\ IF cargo = <<>>
           THEN /\ active' = active \ {<<"queue", 0>>}
                /\ UNCHANGED con
           ELSE QueueReceive(cargo[1])
  /\ UNCHANGED <<backlog, conns, served>>

EventThread ==
  \/ Poll
  \/ DoAccept
  \/ DoQueueRead
  \/ \E fd \in Fds : DoRead(fd) \/ DoWrite(fd)

(* Exit: event_base_loopexit lets the callbacks of the round finish.       *)
Exit ==
  /\ active = {}
  /\ LoopEnds
  /\ UNCHANGED <<cargo, sockVars, active>>

-----------------------------------------------------------------------------
(* The workers: data_send of an answer, or of closefd's empty buffer, for  *)
(* a descriptor they had data from, whoever owns it by now.                *)
WorkerPush(s) ==
  /\ DataSend(s)
  /\ \E fd \in served, size \in Sizes :
       cargo' = Push(cargo, [fd |-> fd, size |-> size])
  /\ UNCHANGED <<sockVars, active>>

WorkerCall(s) == MsgCall(s) /\ UNCHANGED <<cargo, sockVars, active>>
WorkerFlag(s) == MsgSend(s) /\ UNCHANGED <<cargo, sockVars, active>>
WorkerFlagFails(s) == MsgSendFails(s) /\ UNCHANGED <<cargo, sockVars, active>>

(* The peers and the kernel.  A change of a socket reaches its epoll entry *)
(* when an added event waits for it.                                       *)
PeerConnects ==
  /\ conns < MaxConns
  /\ conns' = conns + 1
  /\ backlog' = backlog + 1
  /\ UNCHANGED <<vars, cargo, con, served, active>>

PeerSends(fd) ==
  /\ con[fd].open /\ ~con[fd].fin /\ con[fd].inb < MaxIn
  /\ con' = [con EXCEPT ![fd].inb = @ + 1, ![fd].edge = TRUE]
  /\ UNCHANGED <<vars, cargo, backlog, conns, served, active>>

PeerCloses(fd) ==
  /\ con[fd].open /\ ~con[fd].fin
  /\ con' = [con EXCEPT ![fd].fin = TRUE, ![fd].edge = TRUE]
  /\ UNCHANGED <<vars, cargo, backlog, conns, served, active>>

(* The peer takes bytes: a full send buffer has space again.               *)
PeerReads(fd) ==
  /\ con[fd].open /\ con[fd].room < SndBuf
  /\ \E r \in con[fd].room + 1 .. SndBuf :
       con' = [con EXCEPT ![fd].room = r,
                          ![fd].edge = @ \/ (con[fd].wadd /\ con[fd].room = 0)]
  /\ UNCHANGED <<vars, cargo, backlog, conns, served, active>>

LoopNext ==
  \/ EventThread
  \/ Exit
  \/ \E s \in Senders :
       WorkerPush(s) \/ WorkerCall(s) \/ WorkerFlag(s) \/ WorkerFlagFails(s)
  \/ PeerConnects
  \/ \E fd \in Fds : PeerSends(fd) \/ PeerCloses(fd) \/ PeerReads(fd)

(* The event thread goes on while a callback is due, and so do the workers *)
(* inside msg_send; nothing is promised about the peers.                   *)
LoopFairness ==
  /\ WF_loopVars(EventThread)
  /\ \A s \in Senders : WF_loopVars(WorkerCall(s) \/ WorkerFlag(s))

LoopSpec == LoopInit /\ [][LoopNext]_loopVars /\ LoopFairness
-----------------------------------------------------------------------------
(* Properties.                                                             *)

LoopTypeOK ==
  /\ Len(cargo) = Len(bufs)
  /\ \A i \in 1 .. Len(cargo) : cargo[i] \in [fd : Fds, size : Sizes]
  /\ con \in [Fds -> [open : BOOLEAN, wbuf : Nat, wadd : BOOLEAN, edge : BOOLEAN,
                      room : 0 .. SndBuf, inb : 0 .. MaxIn, fin : BOOLEAN,
                      full : BOOLEAN]]
  /\ backlog \in 0 .. MaxConns
  /\ conns \in 0 .. MaxConns
  /\ served \subseteq Fds
  /\ active \subseteq Callback

(* No answer is lost on a connection whose send buffer was never full: the *)
(* bytes that leave a writebuffer are bytes the kernel took, also when     *)
(* queue_receive closes the connection with an answer of the same worker   *)
(* right before the close in the queue.  Only the peer's own close may     *)
(* discard an answer.                                                      *)
AnswersBeforeClose ==
  [][\A fd \in Fds :
       LET c == con[fd]  d == con'[fd] IN
       c.wbuf > d.wbuf /\ ~c.full /\ ~d.full /\ ~c.fin
         => d.open /\ c.wbuf - d.wbuf = c.room - d.room]_loopVars

(* An answer in a writebuffer does not wait for ever although the socket   *)
(* has space: the edge-triggered write event is added, or reported again,  *)
(* whenever it has to be.                                                  *)
WritesDrain ==
  \A fd \in Fds : con[fd].wbuf > 0 ~> (con[fd].wbuf = 0 \/ con[fd].room = 0 \/ ~loop)

(* Input, and the peer's close, of an accepted connection are taken up:    *)
(* no chunk and no close is left behind an edge that was already reported. *)
InputTaken ==
  \A fd \in Fds :
    (con[fd].inb > 0 \/ con[fd].fin)
      ~> ((con[fd].inb = 0 /\ ~con[fd].fin) \/ ~loop)

(* The loop implements the queue of OutQueue with its fairness: rounds,    *)
(* other callbacks and closed connections never keep it from being read.   *)
QueueServed == FairSpec
=============================================================================
