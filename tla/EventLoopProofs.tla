---------------------------- MODULE EventLoopProofs ----------------------------
(***************************************************************************)
(* Proofs about the event loop, for every number of workers, descriptors   *)
(* and connections: the loop's steps are steps of the queue, and answers   *)
(* are written before the close that is queued behind them.                *)
(***************************************************************************)
EXTENDS EventLoop, OutQueueProofs

(* A step of the loop is a step of the queue or leaves the queue alone.    *)
LEMMA StepOfQueue == [LoopNext]_loopVars => [Next]_vars
<1> SUFFICES ASSUME [LoopNext]_loopVars PROVE [Next]_vars
  OBVIOUS
<1>1. CASE EventThread
  BY <1>1 DEF EventThread, Poll, DoAccept, DoQueueRead, DoRead, DoWrite, Next
<1>2. CASE Exit
  BY <1>2 DEF Exit, Next
<1>3. CASE \E s \in Senders :
         WorkerPush(s) \/ WorkerCall(s) \/ WorkerFlag(s) \/ WorkerFlagFails(s)
  BY <1>3 DEF WorkerPush, WorkerCall, WorkerFlag, WorkerFlagFails, Next
<1>4. CASE PeerConnects
  BY <1>4 DEF PeerConnects
<1>5. CASE \E fd \in Fds : PeerSends(fd) \/ PeerCloses(fd) \/ PeerReads(fd)
  BY <1>5 DEF PeerSends, PeerCloses, PeerReads
<1>6. CASE UNCHANGED loopVars
  BY <1>6 DEF loopVars
<1>7. QED
  BY <1>1, <1>2, <1>3, <1>4, <1>5, <1>6 DEF LoopNext

(* The loop keeps the safety of the queue, however its callbacks, the      *)
(* workers and the peers interleave.                                       *)
THEOREM LoopImplementsQueue == LoopSpec => Spec
<1>1. LoopInit => Init
  BY DEF LoopInit
<1>2. QED
  BY <1>1, StepOfQueue, PTL DEF LoopSpec, Spec

(* Inside the loop every queued buffer has exactly one flag, and a flag    *)
(* always finds a buffer.                                                  *)
THEOREM LoopFlagsCorrect == LoopSpec => [](FlagsMatchBuffers /\ FlagFindsBuffer)
  BY LoopImplementsQueue, FlagsCorrect, PTL
-----------------------------------------------------------------------------
(* The fd_state of a descriptor, its events and its socket.                *)
Con == [open : BOOLEAN, wbuf : Nat, wadd : BOOLEAN, edge : BOOLEAN,
        room : 0 .. SndBuf, inb : 0 .. MaxIn, fin : BOOLEAN, full : BOOLEAN]

(* A queued buffer: for whom, and how long.                                *)
Cargo == [fd : Fds, size : Sizes]

(* The types, and what links the queue's two halves and the backlog.       *)
LoopTypes ==
  /\ TypeOK
  /\ cargo \in Seq(Cargo) /\ Len(cargo) = Len(bufs)
  /\ con \in [Fds -> Con]
  /\ conns \in 0 .. MaxConns
  /\ backlog \in 0 .. conns
  /\ <<"accept", 0>> \in active => backlog > 0
  /\ served \subseteq Fds
  /\ active \subseteq Callback

(* A descriptor not in use has nothing to send.  While the send buffer has *)
(* never been full it has space, and the write event is added only for a   *)
(* writebuffer that holds something.                                       *)
Settled(c) ==
  /\ ~c.open => c.wbuf = 0
  /\ ~c.full => c.room > 0 /\ (c.wadd => c.wbuf > 0)

(* An answer on its way to a socket that has never been full: the write    *)
(* callback is due at the next poll, with all the zero bytes of its flag   *)
(* unread, or it is in this round, in which at most one of them is read.   *)
Waiting(c, p, a, fd) ==
  c.wbuf > 0 /\ ~c.full =>
    /\ c.wadd
    /\ \/ c.edge /\ p = 3 /\ <<"queue", 0>> \notin a
       \/ <<"write", fd>> \in a /\ (p = 3 \/ (p = 2 /\ <<"queue", 0>> \notin a))

(* The inductive invariant.                                                *)
LoopInv ==
  /\ LoopTypes
  /\ \A fd \in Fds : Settled(con[fd]) /\ Waiting(con[fd], pad, active, fd)
-----------------------------------------------------------------------------
(* What the operations make of the fields of a connection.                 *)

(* A descriptor without fd_state: nothing to send, all the space.          *)
LEMMA NoStateFields ==
  /\ NoState \in Con
  /\ NoState.wbuf = 0 /\ NoState.wadd = FALSE /\ NoState.full = FALSE
  /\ NoState.room = SndBuf /\ SndBuf > 0
<1>1. SndBuf \in 0 .. SndBuf /\ 0 \in 0 .. MaxIn /\ SndBuf > 0 /\ 0 \in Nat
  BY BoundsAssumption
<1>2. QED
  BY <1>1 DEF NoState, Con

(* epoll_ctl raises an edge and changes nothing else.                      *)
LEMMA ChangedFields ==
  ASSUME NEW c \in Con
  PROVE  /\ Changed(c) \in Con
         /\ Changed(c).open = c.open /\ Changed(c).wbuf = c.wbuf
         /\ Changed(c).wadd = c.wadd /\ Changed(c).room = c.room
         /\ Changed(c).fin = c.fin /\ Changed(c).full = c.full
         /\ Ready(c) # {} => Changed(c).edge
<1>1. Changed(c) = [c EXCEPT !.edge = c.edge \/ Ready(c) # {}]
  BY DEF Changed
<1>2. QED
  BY <1>1 DEF Con

(* event_del takes the write event away, and no byte.                      *)
LEMMA DelFields ==
  ASSUME NEW c \in Con
  PROVE  /\ EventDel(c) \in Con
         /\ EventDel(c).open = c.open /\ EventDel(c).wbuf = c.wbuf
         /\ EventDel(c).wadd = FALSE /\ EventDel(c).room = c.room
         /\ EventDel(c).fin = c.fin /\ EventDel(c).full = c.full
<1> DEFINE d == [c EXCEPT !.wadd = FALSE]
<1>1. /\ d \in Con /\ d.wadd = FALSE /\ d.open = c.open
      /\ d.wbuf = c.wbuf /\ d.room = c.room /\ d.fin = c.fin /\ d.full = c.full
  BY DEF Con
<1>2. EventDel(c) = Changed(d)
  BY DEF EventDel
<1> HIDE DEF d
<1>3. QED
  BY <1>1, <1>2, ChangedFields

(* event_add with space in the send buffer raises an edge.                 *)
LEMMA AddFields ==
  ASSUME NEW c \in Con
  PROVE  /\ EventAdd(c) \in Con /\ EventAdd(c).open = c.open
         /\ EventAdd(c).wbuf = c.wbuf /\ EventAdd(c).wadd = TRUE
         /\ EventAdd(c).room = c.room /\ EventAdd(c).full = c.full
         /\ ~c.wadd /\ c.room > 0 => EventAdd(c).edge
<1>1. CASE c.wadd
  BY <1>1 DEF EventAdd, Con
<1>2. CASE ~c.wadd
  <2> DEFINE d == [c EXCEPT !.wadd = TRUE]
  <2>1. /\ d \in Con /\ d.open = c.open /\ d.wadd = TRUE
        /\ d.wbuf = c.wbuf /\ d.room = c.room /\ d.full = c.full
    BY DEF Con
  <2>2. EventAdd(c) = Changed(d)
    BY <1>2 DEF EventAdd
  <2> HIDE DEF d
  <2>3. c.room > 0 => "write" \in Ready(d)
    BY <2>1 DEF Ready
  <2>4. QED
    BY <2>1, <2>2, <2>3, ChangedFields
<1>3. QED
  BY <1>1, <1>2

(* A send leaves an empty writebuffer; when it was whole the kernel has    *)
(* taken every byte.                                                       *)
LEMMA SendFields ==
  ASSUME NEW c \in Con, c.wbuf > 0
  PROVE  /\ AfterSend(c) \in Con
         /\ AfterSend(c).wbuf = 0
         /\ c.full => AfterSend(c).full
         /\ ~AfterSend(c).full => /\ AfterSend(c).open = c.open
                                  /\ AfterSend(c).wadd = FALSE
                                  /\ AfterSend(c).room = c.room - c.wbuf
                                  /\ AfterSend(c).room > 0
<1>1. c.wbuf \in Nat /\ c.room \in 0 .. SndBuf /\ SndBuf \in Nat /\ c.full \in BOOLEAN
  BY BoundsAssumption DEF Con
<1>2. CASE c.wbuf <= c.room
  <2> DEFINE r == c.room - c.wbuf
             e == c.full \/ c.wbuf = c.room
             d == [c EXCEPT !.wbuf = 0, !.room = r, !.full = e]
  <2>1. r \in 0 .. SndBuf /\ 0 \in Nat /\ (~e => r > 0) /\ e \in BOOLEAN
    BY <1>1, <1>2
  <2>2. AfterSend(c) = EventDel(d)
    BY <1>2 DEF AfterSend
  <2>3. r = c.room - c.wbuf /\ (c.full => e)
    OBVIOUS
  <2> HIDE DEF r, e
  <2>4. d \in Con /\ d.wbuf = 0 /\ d.room = r /\ d.full = e /\ d.open = c.open
    BY <2>1 DEF Con
  <2> HIDE DEF d
  <2>5. QED
    BY <2>1, <2>2, <2>3, <2>4, DelFields
<1>3. CASE ~(c.wbuf <= c.room)
  <2>1. AfterSend(c) = [c EXCEPT !.wbuf = 0, !.room = 0, !.full = TRUE]
    BY <1>3 DEF AfterSend
  <2>2. 0 \in 0 .. SndBuf /\ 0 \in Nat
    BY <1>1
  <2>3. QED
    BY <2>1, <2>2 DEF Con
<1>4. QED
  BY <1>2, <1>3
-----------------------------------------------------------------------------
(* The part of the invariant about one descriptor, and of the property:    *)
(* bytes that leave the writebuffer are bytes the kernel took.             *)
Orderly == \A fd \in Fds : Settled(con[fd]) /\ Waiting(con[fd], pad, active, fd)

HandedOver(c, d) ==
  c.wbuf > d.wbuf /\ ~c.full /\ ~d.full /\ ~c.fin
    => d.open /\ c.wbuf - d.wbuf = c.room - d.room

AllHandedOver == \A fd \in Fds : HandedOver(con[fd], con'[fd])

(* The callbacks that other connections wait for stay, and the queue's is  *)
(* not added.                                                              *)
RoundGoesOn(fds) ==
  /\ \A g \in fds : <<"write", g>> \in active => <<"write", g>> \in active'
  /\ <<"queue", 0>> \in active' => <<"queue", 0>> \in active

(* A connection that does not change hands nothing over.                   *)
LEMMA SameHandedOver == ASSUME NEW c \in Con PROVE HandedOver(c, c)
<1>1. c.wbuf \in Nat
  BY DEF Con
<1>2. QED
  BY <1>1 DEF HandedOver

(* A step that leaves the connections alone.                               *)
LEMMA KeepAll ==
  ASSUME LoopTypes, Orderly, con' = con, pad' = pad, RoundGoesOn(Fds)
  PROVE  Orderly' /\ AllHandedOver
<1>1. Orderly'
  BY DEF Orderly, Waiting, RoundGoesOn
<1>2. AllHandedOver
  BY SameHandedOver DEF AllHandedOver, LoopTypes
<1>3. QED
  BY <1>1, <1>2

(* A step on the connection of one descriptor.                             *)
LEMMA KeepOthers ==
  ASSUME LoopTypes, Orderly, NEW fd \in Fds, NEW d \in Con,
         con' = [con EXCEPT ![fd] = d], pad' = pad, RoundGoesOn(Fds \ {fd}),
         Settled(d), Waiting(d, pad, active', fd), HandedOver(con[fd], d)
  PROVE  con' \in [Fds -> Con] /\ Orderly' /\ AllHandedOver
<1>1. con \in [Fds -> Con]
  BY DEF LoopTypes
<1>2. con' \in [Fds -> Con] /\ con'[fd] = d /\ \A g \in Fds \ {fd} : con'[g] = con[g]
  BY <1>1
<1>3. ASSUME NEW g \in Fds
      PROVE  Settled(con'[g]) /\ Waiting(con'[g], pad', active', g) /\ HandedOver(con[g], con'[g])
  <2>1. CASE g = fd
    BY <1>2, <2>1
  <2>2. CASE g # fd
    <3>1. con'[g] = con[g] /\ con[g] \in Con
      BY <1>1, <1>2, <2>2
    <3>2. Settled(con[g]) /\ Waiting(con[g], pad, active, g)
      BY DEF Orderly
    <3>3. Waiting(con[g], pad, active', g)
      BY <2>2, <3>2 DEF Waiting, RoundGoesOn
    <3>4. QED
      BY <3>1, <3>2, <3>3, SameHandedOver
  <2>3. QED
    BY <2>1, <2>2
<1>4. QED
  BY <1>2, <1>3 DEF Orderly, AllHandedOver

(* free_fd_state, when the writebuffer holds nothing that counts.          *)
LEMMA FreeKeeps ==
  ASSUME LoopTypes, Orderly, NEW fd \in Fds, NEW cb, FreeFdState(fd, cb), pad' = pad,
         \A g \in Fds \ {fd} : cb # <<"write", g>>,
         con[fd].wbuf = 0 \/ con[fd].full \/ con[fd].fin
  PROVE  con' \in [Fds -> Con] /\ Orderly' /\ AllHandedOver
<1>1. NoState \in Con /\ Settled(NoState) /\ Waiting(NoState, pad, active', fd)
  BY NoStateFields DEF Settled, Waiting
<1>2. HandedOver(con[fd], NoState)
  BY NoStateFields DEF HandedOver
<1>3. con' = [con EXCEPT ![fd] = NoState]
  BY DEF FreeFdState
<1>4. RoundGoesOn(Fds \ {fd})
  BY DEF RoundGoesOn, FreeFdState
<1>5. QED
  BY <1>1, <1>2, <1>3, <1>4, KeepOthers
-----------------------------------------------------------------------------
(* The steps.  TypeOK of the queue is kept by TypeStep.                    *)

(* A poll turns the edge of a waiting answer into its write callback.      *)
LEMMA PollKeeps ==
  ASSUME LoopInv, Poll, TypeOK' PROVE LoopInv' /\ AllHandedOver
<1>1. LoopTypes /\ Orderly
  BY DEF LoopInv, Orderly
<1>2. con \in [Fds -> Con] /\ active = {} /\ active' = Due /\ pad' = pad
  BY <1>1 DEF LoopTypes, Poll, vars
<1>3. con' = [fd \in Fds |-> [con[fd] EXCEPT !.edge = FALSE]]
  BY DEF Poll
<1>4. ASSUME NEW fd \in Fds
      PROVE  /\ con'[fd] \in Con
             /\ Settled(con'[fd]) /\ Waiting(con'[fd], pad', active', fd)
             /\ HandedOver(con[fd], con'[fd])
  <2> DEFINE c == con[fd]
             d == [c EXCEPT !.edge = FALSE]
  <2>1. c \in Con
    BY <1>2
  <2>2. con'[fd] = d
    BY <1>3
  <2> HIDE DEF c
  <2>3. /\ d \in Con /\ d.wbuf = c.wbuf /\ d.wadd = c.wadd /\ d.room = c.room
        /\ d.full = c.full /\ d.open = c.open
    BY <2>1 DEF Con
  <2> HIDE DEF d
  <2>4. Settled(c) /\ Waiting(c, pad, active, fd)
    BY <1>1 DEF Orderly, c
  <2>5. Settled(d)
    BY <2>3, <2>4 DEF Settled
  <2>6. Waiting(d, pad, Due, fd)
    <3> SUFFICES ASSUME d.wbuf > 0, ~d.full
                 PROVE  d.wadd /\ <<"write", fd>> \in Due /\ pad = 3
      BY DEF Waiting
    <3>1. c.wadd /\ c.edge /\ pad = 3 /\ c.room > 0
      BY <1>2, <2>3, <2>4 DEF Waiting, Settled
    <3>2. "write" \in Ready(c) /\ <<"write", fd>> \in Callback
      BY <3>1 DEF Ready, Callback
    <3>3. <<"write", fd>> \in Due
      BY <3>1, <3>2 DEF Due, c
    <3>4. QED
      BY <2>3, <3>1, <3>3
  <2>7. HandedOver(c, d)
    <3>1. c.wbuf \in Nat
      BY <2>1 DEF Con
    <3>2. QED
      BY <2>3, <3>1 DEF HandedOver
  <2>8. QED
    BY <1>2, <2>2, <2>3, <2>5, <2>6, <2>7 DEF c
<1>5. con' \in [Fds -> Con] /\ Orderly' /\ AllHandedOver
  BY <1>3, <1>4 DEF Orderly, AllHandedOver
<1>6. /\ Due \subseteq Callback
      /\ <<"accept", 0>> \in Due => backlog > 0
  <2>1. Due \subseteq Callback
    BY DEF Due
  <2>2. 0 \notin Fds
    BY FdsAssumption
  <2>3. QED
    BY <2>1, <2>2 DEF Due
<1>7. LoopTypes'
  BY <1>1, <1>2, <1>5, <1>6 DEF LoopTypes, Poll, vars
<1>8. QED
  BY <1>5, <1>7 DEF LoopInv, Orderly

(* An accepted connection starts with an empty writebuffer.                *)
LEMMA DoAcceptKeeps ==
  ASSUME LoopInv, DoAccept, TypeOK' PROVE LoopInv' /\ AllHandedOver
<1>1. LoopTypes /\ Orderly
  BY DEF LoopInv, Orderly
<1>2. pad' = pad /\ active' = active \ {<<"accept", 0>>} /\ <<"accept", 0>> \in active
  BY DEF DoAccept, vars
<1>3. RoundGoesOn(Fds)
  BY <1>2 DEF RoundGoesOn
<1>4. con' \in [Fds -> Con] /\ Orderly' /\ AllHandedOver /\ backlog' \in 0 .. conns
  <2>1. CASE UNCHANGED <<con, backlog>>
    BY <1>1, <1>2, <1>3, <2>1, KeepAll DEF LoopTypes
  <2>2. ASSUME NEW fd \in Fds, ~con[fd].open, NEW early \in 0 .. MaxIn, NEW gone \in BOOLEAN,
               con' = [con EXCEPT ![fd] =
                 Changed([NoState EXCEPT !.open = TRUE, !.inb = early, !.fin = gone])],
               backlog' = backlog - 1
        PROVE  con' \in [Fds -> Con] /\ Orderly' /\ AllHandedOver /\ backlog' \in 0 .. conns
    <3> DEFINE n == [NoState EXCEPT !.open = TRUE, !.inb = early, !.fin = gone]
               d == Changed(n)
    <3>1. /\ n \in Con /\ n.wbuf = 0 /\ n.wadd = FALSE /\ n.full = FALSE
          /\ n.open = TRUE /\ n.room = SndBuf
      BY NoStateFields DEF Con
    <3> HIDE DEF n
    <3>2. /\ d \in Con /\ d.wbuf = 0 /\ d.wadd = FALSE /\ d.full = FALSE
          /\ d.open = TRUE /\ d.room = SndBuf
      BY <3>1, ChangedFields
    <3>3. con' = [con EXCEPT ![fd] = d]
      BY <2>2 DEF n
    <3> HIDE DEF d
    <3>4. Settled(d) /\ Waiting(d, pad, active', fd)
      BY <3>2, NoStateFields DEF Settled, Waiting
    <3>5. HandedOver(con[fd], d)
      BY <1>1, <2>2, <3>2 DEF Orderly, Settled, HandedOver
    <3>6. backlog' \in 0 .. conns
      BY <1>1, <1>2, <2>2 DEF LoopTypes
    <3>7. QED
      BY <1>1, <1>2, <1>3, <3>2, <3>3, <3>4, <3>5, <3>6, KeepOthers DEF RoundGoesOn
  <2>3. QED
    BY <2>1, <2>2 DEF DoAccept
<1>5. LoopTypes'
  BY <1>1, <1>2, <1>4 DEF LoopTypes, DoAccept, vars
<1>6. QED
  BY <1>4, <1>5 DEF LoopInv, Orderly

(* A read changes nothing of the writebuffer, unless the peer has closed.  *)
LEMMA DoReadKeeps ==
  ASSUME LoopInv, NEW fd \in Fds, DoRead(fd), TypeOK' PROVE LoopInv' /\ AllHandedOver
<1>1. LoopTypes /\ Orderly
  BY DEF LoopInv, Orderly
<1>2. pad' = pad /\ con \in [Fds -> Con] /\ con[fd] \in Con
  BY <1>1 DEF LoopTypes, DoRead, vars
<1>3. /\ con' \in [Fds -> Con] /\ Orderly' /\ AllHandedOver
      /\ served' \subseteq Fds /\ active' \subseteq active
  <2>1. CASE con[fd].fin
    <3>1. FreeFdState(fd, <<"read", fd>>) /\ served' = served
      BY <2>1 DEF DoRead
    <3>2. con' \in [Fds -> Con] /\ Orderly' /\ AllHandedOver
      BY <1>1, <1>2, <2>1, <3>1, FreeKeeps
    <3>3. QED
      BY <1>1, <3>1, <3>2 DEF FreeFdState, LoopTypes
  <2>2. CASE ~con[fd].fin
    <3> DEFINE c == con[fd]
               d == [c EXCEPT !.inb = 0]
    <3>1. /\ con' = [con EXCEPT ![fd] = d]
          /\ active' = active \ {<<"read", fd>>}
          /\ served' \subseteq served \cup {fd}
      BY <2>2 DEF DoRead
    <3>2. c \in Con /\ Settled(c) /\ Waiting(c, pad, active, fd)
      BY <1>1, <1>2 DEF Orderly
    <3> HIDE DEF c
    <3>3. 0 \in 0 .. MaxIn
      BY BoundsAssumption
    <3>4. /\ d \in Con /\ d.wbuf = c.wbuf /\ d.wadd = c.wadd /\ d.room = c.room
          /\ d.full = c.full /\ d.open = c.open /\ d.edge = c.edge
      BY <3>2, <3>3 DEF Con
    <3> HIDE DEF d
    <3>5. Settled(d)
      BY <3>2, <3>4 DEF Settled
    <3>6. RoundGoesOn(Fds)
      BY <3>1 DEF RoundGoesOn
    <3>7. Waiting(d, pad, active', fd)
      BY <3>2, <3>4, <3>6 DEF Waiting, RoundGoesOn
    <3>8. HandedOver(c, d)
      <4>1. c.wbuf \in Nat
        BY <3>2 DEF Con
      <4>2. QED
        BY <3>4, <4>1 DEF HandedOver
    <3>9. con' \in [Fds -> Con] /\ Orderly' /\ AllHandedOver
      BY <1>1, <1>2, <3>1, <3>4, <3>5, <3>6, <3>7, <3>8, KeepOthers DEF RoundGoesOn, c
    <3>10. QED
      BY <1>1, <3>1, <3>9 DEF LoopTypes
  <2>3. QED
    BY <2>1, <2>2
<1>4. LoopTypes'
  BY <1>1, <1>3 DEF LoopTypes, DoRead, vars
<1>5. QED
  BY <1>3, <1>4 DEF LoopInv, Orderly

(* A write empties the writebuffer into the kernel, or fills the send      *)
(* buffer, or frees the state of a peer that is gone.                      *)
LEMMA DoWriteKeeps ==
  ASSUME LoopInv, NEW fd \in Fds, DoWrite(fd), TypeOK' PROVE LoopInv' /\ AllHandedOver
<1> DEFINE c == con[fd]
           d == CASE c.wbuf = 0 -> EventDel(c)
                  [] c.wbuf > 0 /\ c.room = 0 -> c
                  [] OTHER -> AfterSend(c)
<1>1. LoopTypes /\ Orderly
  BY DEF LoopInv, Orderly
<1>2. pad' = pad /\ con \in [Fds -> Con]
  BY <1>1 DEF LoopTypes, DoWrite, vars
<1>3. c \in Con /\ Settled(c) /\ c.wbuf \in Nat /\ c.room \in Nat
  BY <1>1, <1>2, BoundsAssumption DEF Orderly, Con
<1>4. CASE con' = [con EXCEPT ![fd] = d] /\ active' = active \ {<<"write", fd>>}
  <2> HIDE DEF c
  <2>0. /\ c.wbuf = 0 => d = EventDel(c)
        /\ c.wbuf > 0 /\ c.room = 0 => d = c
        /\ c.wbuf > 0 /\ c.room > 0 => d = AfterSend(c)
    <3>1. /\ ~(c.wbuf = 0 /\ c.wbuf > 0)
          /\ ~(c.room = 0 /\ c.room > 0)
      BY <1>3
    <3>2. QED
      BY <3>1, Zenon
  <2> HIDE DEF d
  <2>1. d \in Con /\ Settled(d) /\ HandedOver(c, d) /\ (d.full \/ d.wbuf = 0)
    <3>1. CASE c.wbuf = 0
      <4>1. d = EventDel(c)
        BY <2>0, <3>1
      <4>2. /\ d \in Con /\ d.wbuf = 0 /\ d.wadd = FALSE
            /\ d.room = c.room /\ d.full = c.full
        BY <1>3, <3>1, <4>1, DelFields
      <4>3. Settled(d)
        BY <1>3, <4>2 DEF Settled
      <4>4. HandedOver(c, d)
        <5>1. ~(c.wbuf > d.wbuf)
          BY <3>1, <4>2
        <5>2. QED
          BY <5>1 DEF HandedOver
      <4>5. QED
        BY <4>2, <4>3, <4>4
    <3>2. CASE c.wbuf > 0 /\ c.room = 0
      <4>1. d = c
        BY <2>0, <3>2
      <4>2. c.full
        BY <1>3, <3>2 DEF Settled
      <4>3. QED
        BY <1>3, <4>1, <4>2 DEF HandedOver
    <3>3. CASE c.wbuf > 0 /\ c.room > 0
      <4>1. d = AfterSend(c)
        BY <2>0, <3>3
      <4>2. AfterSend(c) \in Con /\ Settled(AfterSend(c))
        BY <1>3, <3>3, SendFields DEF Settled
      <4>3. HandedOver(c, AfterSend(c))
        <5> SUFFICES ASSUME ~AfterSend(c).full
                     PROVE  /\ AfterSend(c).open
                            /\ c.wbuf - AfterSend(c).wbuf = c.room - AfterSend(c).room
          BY DEF HandedOver
        <5>1. c.open = TRUE
          <6>1. c.open \in BOOLEAN
            BY <1>3 DEF Con
          <6>2. QED
            BY <1>3, <3>3, <6>1 DEF Settled
        <5>2. /\ AfterSend(c).wbuf = 0 /\ AfterSend(c).open = c.open
              /\ AfterSend(c).room = c.room - c.wbuf
          BY <1>3, <3>3, SendFields
        <5>3. c.wbuf - 0 = c.room - (c.room - c.wbuf)
          BY <1>3
        <5>4. QED
          BY <5>1, <5>2, <5>3
      <4>4. AfterSend(c).wbuf = 0
        BY <1>3, <3>3, SendFields
      <4>5. QED
        BY <4>1, <4>2, <4>3, <4>4
    <3>4. QED
      BY <1>3, <3>1, <3>2, <3>3
  <2>2. Waiting(d, pad, active', fd)
    BY <2>1 DEF Waiting
  <2>3. RoundGoesOn(Fds \ {fd})
    BY <1>4 DEF RoundGoesOn
  <2>4. con' \in [Fds -> Con] /\ Orderly' /\ AllHandedOver
    BY <1>1, <1>2, <1>4, <2>1, <2>2, <2>3, KeepOthers DEF c
  <2>5. LoopTypes'
    BY <1>1, <1>4, <2>4 DEF LoopTypes, DoWrite, vars
  <2>6. QED
    BY <2>4, <2>5 DEF LoopInv, Orderly
<1>5. CASE c.fin /\ FreeFdState(fd, <<"write", fd>>)
  <2>1. con' \in [Fds -> Con] /\ Orderly' /\ AllHandedOver
    BY <1>1, <1>2, <1>5, FreeKeeps
  <2>2. active' \subseteq active
    BY <1>5 DEF FreeFdState
  <2>3. LoopTypes'
    BY <1>1, <2>1, <2>2 DEF LoopTypes, DoWrite, vars
  <2>4. QED
    BY <2>1, <2>3 DEF LoopInv, Orderly
<1>6. QED
  BY <1>4, <1>5 DEF DoWrite

(* One byte of the queue.  A zero byte leaves two more before the next     *)
(* flag; a flag is read only when every answer before it was written.      *)
LEMMA ReadPadKeeps ==
  ASSUME LoopTypes, Orderly, <<"queue", 0>> \in active, pad' = pad - 1,
         active' = active \ {<<"queue", 0>>}, con' = con
  PROVE  Orderly' /\ AllHandedOver
<1>1. ASSUME NEW fd \in Fds PROVE Waiting(con[fd], pad - 1, active', fd)
  <2>1. Waiting(con[fd], pad, active, fd)
    BY DEF Orderly
  <2>2. 3 - 1 = 2
    OBVIOUS
  <2>3. QED
    BY <2>1, <2>2 DEF Waiting
<1>2. Orderly'
  BY <1>1 DEF Orderly
<1>3. AllHandedOver
  BY SameHandedOver DEF AllHandedOver, LoopTypes
<1>4. QED
  BY <1>2, <1>3

(* An answer appended for an open connection is due at the next poll.      *)
LEMMA AppendKeeps ==
  ASSUME LoopTypes, Orderly, NEW fd \in Fds, NEW n \in Nat, n > 0, con[fd].open,
         pad = 0, pad' = 3, <<"queue", 0>> \notin active',
         con' = [con EXCEPT ![fd] =
                   EventAdd([con[fd] EXCEPT !.wbuf = con[fd].wbuf + n])]
  PROVE  con' \in [Fds -> Con] /\ Orderly' /\ AllHandedOver
<1> DEFINE c == con[fd]
           w == c.wbuf + n
           e == [c EXCEPT !.wbuf = w]
           d == EventAdd(e)
<1>1. con \in [Fds -> Con]
  BY DEF LoopTypes
<1>2. \A g \in Fds : con[g].wbuf > 0 => con[g].full
  <2>1. pad # 3 /\ pad # 2
    OBVIOUS
  <2>2. QED
    BY <2>1 DEF Orderly, Waiting
<1>3. c \in Con /\ Settled(c) /\ c.wbuf \in Nat /\ c.open /\ (c.wbuf > 0 => c.full)
  BY <1>1, <1>2 DEF Orderly, Con
<1>4. con' = [con EXCEPT ![fd] = d]
  OBVIOUS
<1>5. c = con[fd]
  OBVIOUS
<1> HIDE DEF c
<1>6. w \in Nat /\ w > 0 /\ ~(c.wbuf > w)
  BY <1>3
<1> HIDE DEF w
<1>7. /\ e \in Con /\ e.wbuf = w /\ e.wadd = c.wadd /\ e.room = c.room
      /\ e.full = c.full /\ e.open = c.open
  BY <1>3, <1>6 DEF Con
<1> HIDE DEF e
<1>8. /\ d \in Con /\ d.open = c.open /\ d.wbuf = w /\ d.wadd = TRUE
      /\ d.room = c.room /\ d.full = c.full
      /\ ~c.wadd /\ c.room > 0 => d.edge
  BY <1>7, AddFields
<1> HIDE DEF d
<1>9. ~c.full => ~c.wadd /\ c.room > 0
  BY <1>3 DEF Settled
<1>10. Settled(d)
  BY <1>3, <1>6, <1>8 DEF Settled
<1>11. Waiting(d, 3, active', fd)
  BY <1>8, <1>9 DEF Waiting
<1>12. HandedOver(c, d)
  BY <1>6, <1>8 DEF HandedOver
<1>13. /\ con' \in [Fds -> Con] /\ con'[fd] = d
       /\ \A g \in Fds \ {fd} : con'[g] = con[g]
  BY <1>1, <1>4, <1>8
<1>14. ASSUME NEW g \in Fds
       PROVE  Settled(con'[g]) /\ Waiting(con'[g], 3, active', g) /\ HandedOver(con[g], con'[g])
  <2>1. CASE g = fd
    BY <1>5, <1>10, <1>11, <1>12, <1>13, <2>1
  <2>2. CASE g # fd
    <3>1. con'[g] = con[g] /\ con[g] \in Con /\ Settled(con[g])
      BY <1>1, <1>13, <2>2 DEF Orderly
    <3>2. Waiting(con[g], 3, active', g)
      BY <1>2 DEF Waiting
    <3>3. QED
      BY <3>1, <3>2, SameHandedOver
  <2>3. QED
    BY <2>1, <2>2
<1>15. QED
  BY <1>13, <1>14 DEF Orderly, AllHandedOver

(* A close from the queue finds the writebuffer empty, or the send         *)
(* buffer full at some time before.                                        *)
LEMMA CloseKeeps ==
  ASSUME LoopTypes, Orderly, NEW fd \in Fds, FreeFdState(fd, <<"queue", 0>>),
         pad = 0, pad' = 3
  PROVE  con' \in [Fds -> Con] /\ Orderly' /\ AllHandedOver
<1>1. con \in [Fds -> Con]
  BY DEF LoopTypes
<1>2. \A g \in Fds : con[g].wbuf > 0 => con[g].full
  <2>1. pad # 3 /\ pad # 2
    OBVIOUS
  <2>2. QED
    BY <2>1 DEF Orderly, Waiting
<1>3. /\ con' \in [Fds -> Con] /\ con'[fd] = NoState
      /\ \A g \in Fds \ {fd} : con'[g] = con[g]
  BY <1>1, NoStateFields DEF FreeFdState
<1>4. ASSUME NEW g \in Fds
      PROVE  Settled(con'[g]) /\ Waiting(con'[g], 3, active', g) /\ HandedOver(con[g], con'[g])
  <2>1. CASE g = fd
    <3>1. Settled(NoState) /\ Waiting(NoState, 3, active', fd)
      BY NoStateFields DEF Settled, Waiting
    <3>2. HandedOver(con[fd], NoState)
      BY <1>2, NoStateFields DEF HandedOver
    <3>3. QED
      BY <1>3, <2>1, <3>1, <3>2
  <2>2. CASE g # fd
    <3>1. con'[g] = con[g] /\ con[g] \in Con /\ Settled(con[g])
      BY <1>1, <1>3, <2>2 DEF Orderly
    <3>2. Waiting(con[g], 3, active', g)
      BY <1>2 DEF Waiting
    <3>3. QED
      BY <3>1, <3>2, SameHandedOver
  <2>3. QED
    BY <2>1, <2>2
<1>5. QED
  BY <1>3, <1>4 DEF Orderly, AllHandedOver

(* The callback of the queue as a whole.                                   *)
LEMMA DoQueueReadKeeps ==
  ASSUME LoopInv, DoQueueRead, TypeOK' PROVE LoopInv' /\ AllHandedOver
<1>1. LoopTypes /\ Orderly
  BY DEF LoopInv, Orderly
<1>2. con \in [Fds -> Con] /\ cargo \in Seq(Cargo) /\ Len(cargo) = Len(bufs)
  BY <1>1 DEF LoopTypes
<1>3. /\ con' \in [Fds -> Con] /\ Orderly' /\ AllHandedOver /\ active' \subseteq active
      /\ cargo' \in Seq(Cargo) /\ Len(cargo') = Len(bufs')
  <2>1. CASE ReadPad /\ active' = active \ {<<"queue", 0>>} /\ UNCHANGED <<cargo, con>>
    <3>1. pad' = pad - 1 /\ bufs' = bufs /\ con' = con /\ cargo' = cargo
      BY <2>1 DEF ReadPad
    <3>2. Orderly' /\ AllHandedOver
      BY <1>1, <2>1, <3>1, ReadPadKeeps DEF DoQueueRead
    <3>3. QED
      BY <1>2, <2>1, <3>1, <3>2
  <2>2. CASE /\ ReadFlag
             /\ cargo' = Pop(cargo)
             /\ IF cargo = <<>>
                THEN active' = active \ {<<"queue", 0>>} /\ UNCHANGED con
                ELSE QueueReceive(cargo[1])
    <3>1. pad = 0 /\ pad' = 3 /\ bufs' = Pop(bufs)
      BY <2>2 DEF ReadFlag, IntSize
    <3>2. cargo' \in Seq(Cargo) /\ Len(cargo') = Len(bufs')
      <4>1. bufs \in Seq(1 .. MaxSends)
        BY <1>1 DEF LoopTypes, TypeOK
      <4>2. QED
        BY <1>2, <2>2, <3>1, <4>1 DEF Pop
    <3>3. CASE con' = con /\ active' = active \ {<<"queue", 0>>}
      <4>1. ASSUME NEW g \in Fds PROVE Waiting(con[g], 3, active', g)
        <5>1. pad # 3 /\ pad # 2
          BY <3>1
        <5>2. Waiting(con[g], pad, active, g)
          BY <1>1 DEF Orderly
        <5>3. QED
          BY <5>1, <5>2 DEF Waiting
      <4>2. Orderly'
        BY <1>1, <3>1, <3>3, <4>1 DEF Orderly
      <4>3. AllHandedOver
        BY <1>2, <3>3, SameHandedOver DEF AllHandedOver
      <4>4. QED
        BY <1>2, <3>2, <3>3, <4>2, <4>3
    <3>4. CASE cargo # <<>> /\ QueueReceive(cargo[1])
      <4> DEFINE b == cargo[1]
      <4>1. b \in Cargo
        BY <1>2, <3>4
      <4>2. b.fd \in Fds /\ b.size \in Nat
        BY <4>1, SizesAssumption DEF Cargo
      <4>3. QueueReceive(b)
        BY <3>4
      <4> HIDE DEF b
      <4>4. CASE b.size = 0 /\ con[b.fd].open
        <5>1. FreeFdState(b.fd, <<"queue", 0>>)
          BY <4>3, <4>4 DEF QueueReceive
        <5>2. con' \in [Fds -> Con] /\ Orderly' /\ AllHandedOver
          BY <1>1, <3>1, <4>2, <5>1, CloseKeeps
        <5>3. active' \subseteq active
          BY <5>1 DEF FreeFdState
        <5>4. QED
          BY <3>2, <5>2, <5>3
      <4>5. CASE ~con[b.fd].open
        <5>1. con' = con /\ active' = active \ {<<"queue", 0>>}
          BY <4>3, <4>5 DEF QueueReceive
        <5>2. QED
          BY <3>3, <5>1
      <4>6. CASE b.size # 0 /\ con[b.fd].open
        <5>1. /\ con' = [con EXCEPT ![b.fd] =
                           EventAdd([con[b.fd] EXCEPT !.wbuf = con[b.fd].wbuf + b.size])]
              /\ active' = active \ {<<"queue", 0>>}
          BY <4>3, <4>6 DEF QueueReceive
        <5>2. b.size > 0
          BY <4>2, <4>6
        <5>3. con' \in [Fds -> Con] /\ Orderly' /\ AllHandedOver
          BY <1>1, <3>1, <4>2, <4>6, <5>1, <5>2, AppendKeeps
        <5>4. QED
          BY <3>2, <5>1, <5>3
      <4>7. QED
        BY <4>4, <4>5, <4>6
    <3>5. QED
      BY <2>2, <3>3, <3>4
  <2>3. QED
    BY <2>1, <2>2 DEF DoQueueRead
<1>4. LoopTypes'
  BY <1>1, <1>3 DEF LoopTypes, DoQueueRead
<1>5. QED
  BY <1>3, <1>4 DEF LoopInv, Orderly

(* The workers and the exit leave the connections alone.                   *)
LEMMA WorkersKeep ==
  ASSUME LoopInv, TypeOK',
         Exit \/ \E s \in Senders :
         WorkerPush(s) \/ WorkerCall(s) \/ WorkerFlag(s) \/ WorkerFlagFails(s)
  PROVE  LoopInv' /\ AllHandedOver
<1>1. LoopTypes /\ Orderly
  BY DEF LoopInv, Orderly
<1>2. UNCHANGED <<sockVars, active, pad>>
  BY DEF Exit, LoopEnds, WorkerPush, DataSend, WorkerCall, MsgCall, WorkerFlag,
         MsgSend, WorkerFlagFails, MsgSendFails
<1>3. con' = con /\ pad' = pad /\ active' = active
  BY <1>2 DEF sockVars
<1>4. Orderly' /\ AllHandedOver
  BY <1>1, <1>3, KeepAll DEF RoundGoesOn
<1>5. cargo' \in Seq(Cargo) /\ Len(cargo') = Len(bufs')
  <2>1. cargo \in Seq(Cargo) /\ Len(cargo) = Len(bufs) /\ bufs \in Seq(1 .. MaxSends)
    BY <1>1 DEF LoopTypes, TypeOK
  <2>2. CASE UNCHANGED <<cargo, bufs>>
    BY <2>1, <2>2
  <2>3. ASSUME NEW s \in Senders, WorkerPush(s)
        PROVE  cargo' \in Seq(Cargo) /\ Len(cargo') = Len(bufs')
    <3>1. PICK fd \in served, size \in Sizes :
             cargo' = Append(cargo, [fd |-> fd, size |-> size])
      BY <2>3 DEF WorkerPush, Push
    <3>2. [fd |-> fd, size |-> size] \in Cargo
      BY <1>1 DEF LoopTypes, Cargo
    <3>3. bufs' = Append(bufs, sent + 1) /\ bufs' \in Seq(1 .. MaxSends)
      BY <2>3 DEF WorkerPush, DataSend, Push, TypeOK
    <3>4. QED
      BY <2>1, <3>1, <3>2, <3>3
  <2>4. QED
    BY <2>2, <2>3 DEF Exit, LoopEnds, WorkerCall, MsgCall, WorkerFlag, MsgSend,
                       WorkerFlagFails, MsgSendFails
<1>6. LoopTypes'
  BY <1>1, <1>2, <1>5 DEF LoopTypes, sockVars
<1>7. QED
  BY <1>4, <1>6 DEF LoopInv, Orderly

(* The peers take bytes and send; they take no answer away.                *)
LEMMA PeersKeep ==
  ASSUME LoopInv, TypeOK',
         NEW fd \in Fds, PeerSends(fd) \/ PeerCloses(fd) \/ PeerReads(fd)
  PROVE  LoopInv' /\ AllHandedOver
<1> DEFINE c == con[fd]
<1>1. LoopTypes /\ Orderly
  BY DEF LoopInv, Orderly
<1>2. UNCHANGED <<vars, cargo, backlog, conns, served, active>>
  BY DEF PeerSends, PeerCloses, PeerReads
<1>3. pad' = pad /\ active' = active
  BY <1>2 DEF vars
<1>4. c \in Con /\ Settled(c) /\ Waiting(c, pad, active, fd)
  BY <1>1 DEF Orderly, LoopTypes
<1>5. \E d \in Con :
        /\ con' = [con EXCEPT ![fd] = d]
        /\ d.open = c.open /\ d.wbuf = c.wbuf /\ d.wadd = c.wadd /\ d.full = c.full
        /\ (c.room > 0 => d.room > 0) /\ (c.edge => d.edge)
  <2>1. CASE PeerSends(fd)
    <3> DEFINE i == c.inb + 1
               d == [c EXCEPT !.inb = i, !.edge = TRUE]
    <3>1. con' = [con EXCEPT ![fd] = d]
      BY <2>1 DEF PeerSends
    <3>2. i \in 0 .. MaxIn
      <4>1. c.inb \in 0 .. MaxIn /\ c.inb < MaxIn
        BY <1>4, <2>1 DEF PeerSends, Con
      <4>2. QED
        BY <4>1, BoundsAssumption
    <3> HIDE DEF i, c
    <3>3. /\ d \in Con /\ d.open = c.open /\ d.wbuf = c.wbuf /\ d.wadd = c.wadd
          /\ d.full = c.full /\ d.room = c.room /\ d.edge
      BY <1>4, <3>2 DEF Con
    <3>4. QED
      BY <3>1, <3>3
  <2>2. CASE PeerCloses(fd)
    <3> DEFINE d == [c EXCEPT !.fin = TRUE, !.edge = TRUE]
    <3>1. con' = [con EXCEPT ![fd] = d]
      BY <2>2 DEF PeerCloses
    <3> HIDE DEF c
    <3>3. /\ d \in Con /\ d.open = c.open /\ d.wbuf = c.wbuf /\ d.wadd = c.wadd
          /\ d.full = c.full /\ d.room = c.room /\ d.edge
      BY <1>4 DEF Con
    <3>4. QED
      BY <3>1, <3>3
  <2>3. CASE PeerReads(fd)
    <3>1. PICK r \in c.room + 1 .. SndBuf :
             con' = [con EXCEPT ![fd].room = r,
                                ![fd].edge = @ \/ (con[fd].wadd /\ con[fd].room = 0)]
      BY <2>3 DEF PeerReads
    <3> DEFINE e == c.edge \/ (c.wadd /\ c.room = 0)
               d == [c EXCEPT !.room = r, !.edge = e]
    <3>2. con' = [con EXCEPT ![fd] = d]
      BY <3>1
    <3>3. r \in 0 .. SndBuf /\ r > 0 /\ (c.edge => e) /\ e \in BOOLEAN
      <4>1. c.room \in 0 .. SndBuf
        BY <1>4 DEF Con
      <4>2. QED
        BY <4>1, BoundsAssumption
    <3> HIDE DEF c, e
    <3>4. /\ d \in Con /\ d.open = c.open /\ d.wbuf = c.wbuf /\ d.wadd = c.wadd
          /\ d.full = c.full /\ d.room = r /\ d.edge = e
      BY <1>4, <3>3 DEF Con
    <3>5. QED
      BY <3>2, <3>3, <3>4
  <2>4. QED
    BY <2>1, <2>2, <2>3
<1>6. PICK d \in Con :
        /\ con' = [con EXCEPT ![fd] = d]
        /\ d.open = c.open /\ d.wbuf = c.wbuf /\ d.wadd = c.wadd /\ d.full = c.full
        /\ (c.room > 0 => d.room > 0) /\ (c.edge => d.edge)
  BY <1>5
<1>7. Settled(d) /\ Waiting(d, pad, active', fd)
  BY <1>3, <1>4, <1>6 DEF Settled, Waiting
<1>8. HandedOver(c, d)
  <2>1. c.wbuf \in Nat
    BY <1>4 DEF Con
  <2>2. QED
    BY <1>6, <2>1 DEF HandedOver
<1>9. con' \in [Fds -> Con] /\ Orderly' /\ AllHandedOver
  BY <1>1, <1>3, <1>6, <1>7, <1>8, KeepOthers DEF RoundGoesOn
<1>10. LoopTypes'
  BY <1>1, <1>2, <1>9 DEF LoopTypes, vars
<1>11. QED
  BY <1>9, <1>10 DEF LoopInv, Orderly

(* A new connection waits in the backlog.                                  *)
LEMMA ConnectKeeps ==
  ASSUME LoopInv, TypeOK', PeerConnects PROVE LoopInv' /\ AllHandedOver
<1>1. LoopTypes /\ Orderly
  BY DEF LoopInv, Orderly
<1>2. con' = con /\ pad' = pad /\ active' = active
  BY DEF PeerConnects, vars
<1>3. Orderly' /\ AllHandedOver
  BY <1>1, <1>2, KeepAll DEF RoundGoesOn
<1>4. conns' \in 0 .. MaxConns /\ backlog' \in 0 .. conns' /\ (backlog > 0 => backlog' > 0)
  BY <1>1, BoundsAssumption DEF LoopTypes, PeerConnects
<1>5. LoopTypes'
  BY <1>1, <1>4 DEF LoopTypes, PeerConnects, vars
<1>6. QED
  BY <1>3, <1>5 DEF LoopInv, Orderly
-----------------------------------------------------------------------------
(* The invariant holds when the loop starts.                               *)
LEMMA LoopStart == LoopInit => LoopInv
<1> SUFFICES ASSUME LoopInit PROVE LoopInv
  OBVIOUS
<1>1. TypeOK
  <2>1. bufs \in Seq(1 .. MaxSends) /\ flags \in Nat /\ lost \in Nat
    BY DEF LoopInit, Init
  <2>2. pad \in 0 .. IntSize - 1 /\ sent \in 0 .. MaxSends
    BY MaxSendsAssumption DEF LoopInit, Init, IntSize
  <2>3. QED
    BY <2>1, <2>2 DEF LoopInit, Init, TypeOK
<1>2. con = [fd \in Fds |-> NoState] /\ con \in [Fds -> Con]
  BY NoStateFields DEF LoopInit
<1>3. LoopTypes
  BY <1>1, <1>2, BoundsAssumption DEF LoopTypes, LoopInit, Init
<1>4. Settled(NoState) /\ \A fd \in Fds : Waiting(NoState, pad, active, fd)
  BY NoStateFields DEF Settled, Waiting
<1>5. QED
  BY <1>2, <1>3, <1>4 DEF LoopInv

(* Every step keeps the invariant, and hands bytes over to the kernel.     *)
LEMMA LoopStep ==
  ASSUME LoopInv, [LoopNext]_loopVars PROVE LoopInv' /\ AllHandedOver
<1>1. TypeOK'
  BY StepOfQueue, TypeStep DEF LoopInv, LoopTypes
<1>2. CASE EventThread
  BY <1>1, <1>2, PollKeeps, DoAcceptKeeps, DoQueueReadKeeps, DoReadKeeps, DoWriteKeeps
     DEF EventThread
<1>3. CASE Exit \/ \E s \in Senders :
         WorkerPush(s) \/ WorkerCall(s) \/ WorkerFlag(s) \/ WorkerFlagFails(s)
  BY <1>1, <1>3, WorkersKeep
<1>4. CASE PeerConnects
  BY <1>1, <1>4, ConnectKeeps
<1>5. CASE \E fd \in Fds : PeerSends(fd) \/ PeerCloses(fd) \/ PeerReads(fd)
  BY <1>1, <1>5, PeersKeep
<1>6. CASE UNCHANGED loopVars
  <2>1. LoopTypes /\ Orderly
    BY DEF LoopInv, Orderly
  <2>2. /\ UNCHANGED <<vars, cargo, con, backlog, conns, served, active>>
        /\ pad' = pad /\ bufs' = bufs
    BY <1>6 DEF loopVars, sockVars, vars
  <2>3. Orderly' /\ AllHandedOver
    BY <2>1, <2>2, KeepAll DEF RoundGoesOn
  <2>4. LoopTypes'
    BY <1>1, <2>1, <2>2 DEF LoopTypes
  <2>5. QED
    BY <2>3, <2>4 DEF LoopInv, Orderly
<1>7. QED
  BY <1>2, <1>3, <1>4, <1>5, <1>6 DEF LoopNext

(* The state of the loop is well formed: as many fd/size pairs as queued   *)
(* buffers, and writebuffers, send buffers and callbacks in their ranges.  *)
THEOREM LoopTypeCorrect == LoopSpec => []LoopTypeOK
<1>1. LoopInv => LoopTypeOK
  <2> SUFFICES ASSUME LoopInv PROVE LoopTypeOK
    OBVIOUS
  <2>1. LoopTypes
    BY DEF LoopInv
  <2>2. \A i \in 1 .. Len(cargo) : cargo[i] \in [fd : Fds, size : Sizes]
    <3>1. cargo \in Seq(Cargo)
      BY <2>1 DEF LoopTypes
    <3>2. \A i \in 1 .. Len(cargo) : cargo[i] \in Cargo
      BY <3>1
    <3>3. QED
      BY <3>2 DEF Cargo
  <2>3. backlog \in 0 .. MaxConns
    BY <2>1, BoundsAssumption DEF LoopTypes
  <2>4. QED
    BY <2>1, <2>2, <2>3 DEF LoopTypes, LoopTypeOK, Con
<1>2. LoopInv /\ [LoopNext]_loopVars => LoopInv'
  BY LoopStep
<1>3. QED
  BY <1>1, <1>2, LoopStart, PTL DEF LoopSpec

(* While a connection's send buffer has never been full, no answer leaves  *)
(* the writebuffer except into the kernel, unless the peer closed: in      *)
(* particular queue_receive never closes a connection before the answer    *)
(* queued in front of the close is sent.                                   *)
THEOREM AnswersCorrect == LoopSpec => AnswersBeforeClose
<1>1. LoopInv /\ [LoopNext]_loopVars => LoopInv' /\ AllHandedOver
  BY LoopStep
<1>2. LoopInv /\ [LoopNext]_loopVars =>
        [\A fd \in Fds :
           LET c == con[fd]  d == con'[fd] IN
           c.wbuf > d.wbuf /\ ~c.full /\ ~d.full /\ ~c.fin
             => d.open /\ c.wbuf - d.wbuf = c.room - d.room]_loopVars
  BY <1>1 DEF AllHandedOver, HandedOver
<1>3. QED
  BY <1>1, <1>2, LoopStart, PTL DEF LoopSpec, AnswersBeforeClose
=============================================================================
