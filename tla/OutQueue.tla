------------------------------- MODULE OutQueue -------------------------------
(***************************************************************************)
(* The way back: how a worker thread hands a buffer to the event thread.   *)
(*                                                                         *)
(* Sources: src/src/event/yylibevent.cpp (data_send, flag_send, initqueue, *)
(* do_queue_read, queue_receive), event_msgqueue.h (msg_send),             *)
(* lockqueuemap.h (push, pop).                                             *)
(*                                                                         *)
(* data_send pushes the buffer into _bufqueue_map and, in a second step,   *)
(* writes the flag as a four-byte int into a socket pair.  The event       *)
(* thread reads the other end ONE byte per callback: the first byte of an  *)
(* int is the flag and makes it pop one buffer, the other three are zero   *)
(* and are skipped.  The writing end is blocking, so a full socket stops   *)
(* the sender; a failed send closes the queue for good (fd = -1).          *)
(***************************************************************************)
EXTENDS Integers, Sequences, FiniteSets

CONSTANTS
  Senders,    (* the worker threads                                        *)
  MaxSends,   (* bound on the data_send calls of all the workers           *)
  Capacity,   (* bytes the socket pair holds                               *)
  CanFail     (* whether send() may fail                                   *)

IntSize == 4  (* sizeof(int): what msg_send writes for one flag            *)

ASSUME SendersAssumption == IsFiniteSet(Senders)
ASSUME MaxSendsAssumption == MaxSends \in Nat
ASSUME CapacityAssumption == Capacity \in Nat /\ Capacity >= IntSize
ASSUME CanFailAssumption == CanFail \in BOOLEAN

VARIABLES
  bufs,      (* _bufqueue_map[WRITE_EVENT_FLAG]: the queued buffers        *)
  pc,        (* each worker: "idle", before msg_send or inside its send()  *)
  flags,     (* whole flags in the socket pair, their first byte unread    *)
  pad,       (* zero bytes before them: the rest of the flag read last     *)
  dead,      (* msg_queue::fd = -1                                         *)
  lost,      (* the number of flags msg_send failed to write               *)
  sent,      (* the number of data_send calls so far                       *)
  loop       (* the event loop runs (event_base_dispatch has not returned) *)

vars == <<bufs, pc, flags, pad, dead, lost, sent, loop>>

Init ==
  /\ bufs = <<>>
  /\ pc = [s \in Senders |-> "idle"]
  /\ flags = 0
  /\ pad = 0
  /\ dead = FALSE
  /\ lost = 0
  /\ sent = 0
  /\ loop = TRUE

-----------------------------------------------------------------------------
(* LockQueueMap::push and pop on the queue of the flag, under its mutex.   *)
Push(q, buf) == Append(q, buf)
Pop(q) == IF q # <<>> THEN Tail(q) ELSE q

(* data_send, first half: _bufqueue_map.push.  The buffer is the n-th one. *)
DataSend(s) ==
  /\ pc[s] = "idle"
  /\ sent < MaxSends
  /\ sent' = sent + 1
  /\ bufs' = Push(bufs, sent + 1)
  /\ pc' = [pc EXCEPT ![s] = "send"]
  /\ UNCHANGED <<flags, pad, dead, lost, loop>>

Room == IntSize * flags + pad + IntSize <= Capacity

(* flag_send / msg_send calls send() on the descriptor of the queue.  On   *)
(* the -1 a former error left behind the call fails at once: the flag is   *)
(* not written, the buffer stays queued, and msg_send returns true.        *)
MsgCall(s) ==
  /\ pc[s] = "send"
  /\ pc' = [pc EXCEPT ![s] = IF dead THEN "idle" ELSE "wait"]
  /\ lost' = IF dead THEN lost + 1 ELSE lost
  /\ UNCHANGED <<bufs, flags, pad, dead, sent, loop>>

(* Mutant: a full socket drops the flag instead of blocking the sender.    *)
MsgSendDrops(s) ==
  /\ pc[s] = "wait"
  /\ flags' = IF Room THEN flags + 1 ELSE flags
  /\ pc' = [pc EXCEPT ![s] = "idle"]
  /\ UNCHANGED <<bufs, pad, dead, lost, sent, loop>>

(* Mutant: the flag is written twice, once by data_send itself.            *)
MsgSendTwice(s) ==
  /\ pc[s] = "wait"
  /\ Room
  /\ flags' = flags + 2
  /\ pc' = [pc EXCEPT ![s] = "idle"]
  /\ UNCHANGED <<bufs, pad, dead, lost, sent, loop>>

(* send() writes the flag; it blocks while the socket is full.  A sender   *)
(* already inside goes on with the descriptor it was called with, also     *)
(* when the send of another worker fails meanwhile.                        *)
MsgSend(s) ==
  /\ pc[s] = "wait"
  /\ Room
  /\ flags' = flags + 1
  /\ pc' = [pc EXCEPT ![s] = "idle"]
  /\ UNCHANGED <<bufs, pad, dead, lost, sent, loop>>

(* send() returns an error: the queue is given up (fd = -1), and msg_send  *)
(* still returns true.                                                     *)
MsgSendFails(s) ==
  /\ CanFail
  /\ pc[s] = "wait"
  /\ dead' = TRUE
  /\ lost' = lost + 1
  /\ pc' = [pc EXCEPT ![s] = "idle"]
  /\ UNCHANGED <<bufs, flags, pad, sent, loop>>

-----------------------------------------------------------------------------
(* Mutant: the last zero byte of an int is left in the socket.             *)
ReadPadShort ==
  /\ loop
  /\ pad > 1
  /\ pad' = pad - 1
  /\ UNCHANGED <<bufs, pc, flags, dead, lost, sent, loop>>

(* do_queue_read on a zero byte: nothing but the byte is consumed.         *)
ReadPad ==
  /\ loop
  /\ pad > 0
  /\ pad' = pad - 1
  /\ UNCHANGED <<bufs, pc, flags, dead, lost, sent, loop>>

(* Mutant: the callback takes every flag that has arrived for one wake-up. *)
ReadAllFlags ==
  /\ loop
  /\ pad = 0 /\ flags > 0
  /\ flags' = 0
  /\ bufs' = Pop(bufs)
  /\ UNCHANGED <<pc, pad, dead, lost, sent, loop>>

(* Mutant: one zero byte too many is expected after a flag.                *)
ReadFlagLong ==
  /\ loop
  /\ pad = 0 /\ flags > 0
  /\ flags' = flags - 1
  /\ pad' = IntSize
  /\ bufs' = Pop(bufs)
  /\ UNCHANGED <<pc, dead, lost, sent, loop>>

(* do_queue_read on the flag byte, and queue_receive: pop one buffer.      *)
ReadFlag ==
  /\ loop
  /\ pad = 0 /\ flags > 0
  /\ flags' = flags - 1
  /\ pad' = IntSize - 1
  /\ bufs' = Pop(bufs)
  /\ UNCHANGED <<pc, dead, lost, sent, loop>>

(* The loop is left: nobody reads the socket pair any more.                *)
LoopEnds ==
  /\ loop
  /\ loop' = FALSE
  /\ UNCHANGED <<bufs, pc, flags, pad, dead, lost, sent>>

Next ==
  \/ \E s \in Senders : DataSend(s) \/ MsgCall(s) \/ MsgSend(s) \/ MsgSendFails(s)
  \/ ReadPad \/ ReadFlag \/ LoopEnds

(* The operating system schedules the workers and libevent calls back for  *)
(* a readable descriptor.                                                  *)
Fairness ==
  /\ WF_vars(ReadPad \/ ReadFlag)
  /\ \A s \in Senders : WF_vars(MsgCall(s) \/ MsgSend(s))

Spec == Init /\ [][Next]_vars
FairSpec == Spec /\ Fairness
-----------------------------------------------------------------------------
(* Properties.                                                             *)

TypeOK ==
  /\ bufs \in Seq(1 .. MaxSends)
  /\ pc \in [Senders -> {"idle", "send", "wait"}]
  /\ flags \in Nat
  /\ pad \in 0 .. IntSize - 1
  /\ dead \in BOOLEAN
  /\ lost \in Nat
  /\ sent \in 0 .. MaxSends
  /\ loop \in BOOLEAN

(* The workers between push and the end of msg_send.                       *)
Pending == {s \in Senders : pc[s] # "idle"}

(* Every queued buffer has its flag in the socket pair, or a worker about  *)
(* to write it, or its flag was lost by a failed send: one each, however   *)
(* the pushes, the writes and the byte-wise reads of the threads mix.      *)
FlagsMatchBuffers == Len(bufs) = flags + Cardinality(Pending) + lost

(* A flag always finds a buffer: the early return of queue_receive on a    *)
(* null buffer is never taken, so no flag is spent without a delivery.     *)
FlagFindsBuffer == flags > 0 => bufs # <<>>

Queued(n) == \E i \in 1 .. Len(bufs) : bufs[i] = n

(* A queued buffer reaches the event thread, while the loop runs and no    *)
(* send has failed: a flag is never dropped, and the flag that delivers a  *)
(* buffer need not be the one its own sender wrote.                        *)
Delivered ==
  \A n \in 1 .. MaxSends : Queued(n) ~> (~loop \/ dead \/ ~Queued(n))

(* A worker blocked in msg_send by a full socket goes on: the event thread *)
(* never waits for the workers, and once the loop has ended only a full    *)
(* socket pair, which nobody reads any more, can keep a worker from        *)
(* returning to its semaphore and so from being joined.                    *)
SendersResume ==
  \A s \in Senders : pc[s] # "idle" ~> (pc[s] = "idle" \/ (~loop /\ ~Room))

(* The comment in _sendCmd, "data_send will deliver to _event": a queued   *)
(* buffer reaches the event thread while the loop runs, also after a send  *)
(* has failed.  The code does not keep this.                               *)
DataSendDelivers ==
  \A n \in 1 .. MaxSends : Queued(n) ~> (~loop \/ ~Queued(n))
=============================================================================
