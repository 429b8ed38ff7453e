------------------------------ MODULE BossWorker ------------------------------
(***************************************************************************)
(* The hand-over of received data from the event thread (the boss) to the  *)
(* worker threads of MmsServer, and the shutdown of the workers.           *)
(*                                                                         *)
(* Sources: src/include/util.h (UTIL::Bossmultiworker), src/src/yymm_svr/  *)
(* yymms_svr.cpp (data_receive, work_thread, run, exit).                   *)
(*                                                                         *)
(* Every worker owns a mutex-protected queue of jobs and a semaphore.  The *)
(* boss pushes a job and, in a second step, posts the semaphore; the       *)
(* worker waits, tests its exit flag, pops, processes.  A mutex is held    *)
(* for one queue operation only, so each queue operation is one step.      *)
(***************************************************************************)
EXTENDS Naturals, Sequences

CONSTANTS
  ThreadNum,   (* _threadnum: the number of worker threads                 *)
  Fds,         (* the socket descriptors data may arrive on                *)
  MaxJobs      (* bound on the number of data_receive calls                *)

ASSUME ThreadNumAssumption == ThreadNum \in Nat \ {0}
ASSUME FdsAssumption == Fds \subseteq Nat \ {0}
ASSUME MaxJobsAssumption == MaxJobs \in Nat

Workers == 0 .. (ThreadNum - 1)

(* A BossInfo: the descriptor, and a serial number standing for the buffer *)
(* (the n-th buffer handed to data_receive).  NoJob is the default value   *)
(* PopJob returns on an empty queue: fd 0 and buffer NULL.  Descriptor 0   *)
(* is standard input, so accept never returns it.                          *)
Job == [fd : Fds, buf : 1 .. MaxJobs]
NoJob == [fd |-> 0, buf |-> 0]

VARIABLES
  jobs,       (* _workers[i]->first: the queue of each worker              *)
  sem,        (* thread_data::_sem                                         *)
  exitflag,   (* thread_data::_exitflag                                    *)
  wpc,        (* where each worker is in work_thread                       *)
  cur,        (* the local variable info of each worker                    *)
  bpc,        (* where the boss is: in the event loop or in run()          *)
  bidx,       (* the worker the boss is concerned with                     *)
  exitreq,    (* event_base_loopexit was called                            *)
  received    (* the number of data_receive calls so far                   *)

vars == <<jobs, sem, exitflag, wpc, cur, bpc, bidx, exitreq, received>>
bossVars == <<bpc, bidx, exitreq, received>>

Init ==
  /\ jobs = [w \in Workers |-> <<>>]
  /\ sem = [w \in Workers |-> 0]
  /\ exitflag = [w \in Workers |-> FALSE]
  /\ wpc = [w \in Workers |-> "wait"]
  /\ cur = [w \in Workers |-> NoJob]
  /\ bpc = "loop"
  /\ bidx = 0
  /\ exitreq = FALSE
  /\ received = 0

-----------------------------------------------------------------------------
(* The boss.                                                               *)

(* Bossmultiworker::PushJob and PopJob, each under the mutex of the queue: *)
(* PopJob returns the default value on an empty queue.                     *)
Enqueue(q, job) == Append(q, job)
FrontJob(q) == IF q # <<>> THEN Head(q) ELSE NoJob
Dequeue(q) == IF q # <<>> THEN Tail(q) ELSE q

(* Mutant: jobs are dealt out in turn, whatever their socket.              *)
ThreadOfInTurn(fd) == received % ThreadNum

(* fd % _threadnum: the worker that serves a socket.                       *)
ThreadOf(fd) == fd % ThreadNum

(* data_receive up to PushJob: the job is in the queue, not yet announced. *)
PushJob(fd) ==
  /\ bpc = "loop"
  /\ received < MaxJobs
  /\ LET t == ThreadOf(fd) IN
       /\ jobs' = [jobs EXCEPT ![t] = Enqueue(@, [fd |-> fd, buf |-> received + 1])]
       /\ bidx' = t
  /\ received' = received + 1
  /\ bpc' = "post"
  /\ UNCHANGED <<sem, exitflag, wpc, cur, exitreq>>

(* Mutant: the job is queued and the worker is not told.                   *)
PostJobForgotten ==
  /\ bpc = "post"
  /\ bpc' = "loop"
  /\ UNCHANGED <<jobs, sem, exitflag, wpc, cur, bidx, exitreq, received>>

(* The rest of data_receive: sem_post of the worker that got the job.      *)
PostJob ==
  /\ bpc = "post"
  /\ sem' = [sem EXCEPT ![bidx] = @ + 1]
  /\ bpc' = "loop"
  /\ UNCHANGED <<jobs, exitflag, wpc, cur, bidx, exitreq, received>>

(* MmsServer::exit, called from the SIGUSR1 handler at any moment.         *)
RequestExit ==
  /\ ~exitreq
  /\ bpc \in {"loop", "post"}
  /\ exitreq' = TRUE
  /\ UNCHANGED <<jobs, sem, exitflag, wpc, cur, bpc, bidx, received>>

(* event_base_dispatch returns: run() starts to stop the workers.          *)
LoopEnds ==
  /\ bpc = "loop"
  /\ exitreq
  /\ bpc' = "flag"
  /\ bidx' = 0
  /\ UNCHANGED <<jobs, sem, exitflag, wpc, cur, exitreq, received>>

(* Mutant: the worker is woken up for the shutdown without its flag set.   *)
SetNoExitFlag ==
  /\ bpc = "flag"
  /\ bpc' = "wake"
  /\ UNCHANGED <<jobs, sem, exitflag, wpc, cur, bidx, exitreq, received>>

(* First loop of run(): data->_exitflag = true ...                         *)
SetExitFlag ==
  /\ bpc = "flag"
  /\ exitflag' = [exitflag EXCEPT ![bidx] = TRUE]
  /\ bpc' = "wake"
  /\ UNCHANGED <<jobs, sem, wpc, cur, bidx, exitreq, received>>

(* Mutant: a worker that still has jobs queued is not posted for the exit. *)
PostExitToIdle ==
  /\ bpc = "wake"
  /\ sem' = [sem EXCEPT ![bidx] = IF jobs[bidx] = <<>> THEN @ + 1 ELSE @]
  /\ IF bidx + 1 < ThreadNum
       THEN bpc' = "flag" /\ bidx' = bidx + 1
       ELSE bpc' = "join" /\ bidx' = 0
  /\ UNCHANGED <<jobs, exitflag, wpc, cur, exitreq, received>>

(* ... sem_post(&data->_sem), and on to the next worker or to the joins.   *)
PostExit ==
  /\ bpc = "wake"
  /\ sem' = [sem EXCEPT ![bidx] = @ + 1]
  /\ IF bidx + 1 < ThreadNum
       THEN bpc' = "flag" /\ bidx' = bidx + 1
       ELSE bpc' = "join" /\ bidx' = 0
  /\ UNCHANGED <<jobs, exitflag, wpc, cur, exitreq, received>>

(* Mutant: the second loop runs one worker too far.                        *)
JoinTooFar ==
  /\ bpc = "join"
  /\ wpc[bidx] = "exit"
  /\ bidx' = bidx + 1
  /\ bpc' = IF bidx < ThreadNum THEN bpc ELSE "ended"
  /\ UNCHANGED <<jobs, sem, exitflag, wpc, cur, exitreq, received>>

(* Second loop of run(): pthread_join of each worker in turn.              *)
Join ==
  /\ bpc = "join"
  /\ wpc[bidx] = "exit"
  /\ IF bidx + 1 < ThreadNum
       THEN bidx' = bidx + 1 /\ bpc' = bpc
       ELSE bpc' = "ended" /\ bidx' = bidx
  /\ UNCHANGED <<jobs, sem, exitflag, wpc, cur, exitreq, received>>

-----------------------------------------------------------------------------
(* A worker: the loop of work_thread.                                      *)

SemWait(w) ==
  /\ wpc[w] = "wait"
  /\ sem[w] > 0
  /\ sem' = [sem EXCEPT ![w] = @ - 1]
  /\ wpc' = [wpc EXCEPT ![w] = "woken"]
  /\ UNCHANGED <<jobs, exitflag, cur>> /\ UNCHANGED bossVars

TestExit(w) ==
  /\ wpc[w] = "woken"
  /\ wpc' = [wpc EXCEPT ![w] = IF exitflag[w] THEN "exit" ELSE "pop"]
  /\ UNCHANGED <<jobs, sem, exitflag, cur>> /\ UNCHANGED bossVars

(* PopJob, and the test that sends an empty job back to sem_wait.          *)
PopJob(w) ==
  /\ wpc[w] = "pop"
  /\ LET info == FrontJob(jobs[w]) IN
       /\ cur' = [cur EXCEPT ![w] = info]
       /\ wpc' = [wpc EXCEPT ![w] =
                    IF info.fd = 0 \/ info.buf = 0 THEN "wait" ELSE "work"]
  /\ jobs' = [jobs EXCEPT ![w] = Dequeue(@)]
  /\ UNCHANGED <<sem, exitflag>> /\ UNCHANGED bossVars

(* _process_data returns.  What it does is the subject of MmsServer.  It   *)
(* may also never return: JsonProcess parses the same LOGOUT for ever when *)
(* the session is gone (the break leaves the command in the buffer), and   *)
(* msg_send blocks on a full socket pair once the event loop has ended.    *)
(* So nothing below assumes that this step is taken.                       *)
ProcessData(w) ==
  /\ wpc[w] = "work"
  /\ wpc' = [wpc EXCEPT ![w] = "wait"]
  /\ UNCHANGED <<jobs, sem, exitflag, cur>> /\ UNCHANGED bossVars

(* run() has returned: the process is over.                                *)
Ended ==
  /\ bpc = "ended"
  /\ UNCHANGED vars

Boss ==
  \/ \E fd \in Fds : PushJob(fd)
  \/ PostJob \/ RequestExit \/ LoopEnds \/ SetExitFlag \/ PostExit \/ Join \/ Ended

Worker(w) == SemWait(w) \/ TestExit(w) \/ PopJob(w) \/ ProcessData(w)

Next == Boss \/ \E w \in Workers : Worker(w)

(* The operating system schedules every runnable thread, and work_thread's *)
(* own steps are short.  There is no fairness of ProcessData.              *)
Fairness ==
  /\ WF_vars(PostJob \/ LoopEnds \/ SetExitFlag \/ PostExit \/ Join)
  /\ \A w \in Workers : WF_vars(SemWait(w) \/ TestExit(w) \/ PopJob(w))

Spec == Init /\ [][Next]_vars
FairSpec == Spec /\ Fairness
-----------------------------------------------------------------------------
(* Properties.                                                             *)

TypeOK ==
  /\ jobs \in [Workers -> Seq(Job)]
  /\ sem \in [Workers -> Nat]
  /\ exitflag \in [Workers -> BOOLEAN]
  /\ wpc \in [Workers -> {"wait", "woken", "pop", "work", "exit"}]
  /\ cur \in [Workers -> Job \cup {NoJob}]
  /\ bpc \in {"loop", "post", "flag", "wake", "join", "ended"}
  /\ bidx \in Workers
  /\ exitreq \in BOOLEAN
  /\ received \in 0 .. MaxJobs

(* run() has posted the semaphore of w for the shutdown.                   *)
ExitPosted(w) ==
  \/ bpc \in {"join", "ended"}
  \/ bpc \in {"flag", "wake"} /\ w < bidx

(* 1 if the condition holds: the summands of the count below.              *)
One(b) == IF b THEN 1 ELSE 0

(* Every queued job has exactly one wake-up: a pending token, a worker     *)
(* that has taken one and not popped yet, or the post data_receive still   *)
(* owes.  The shutdown adds one token of its own per worker.               *)
WakeupsMatchJobs ==
  \A w \in Workers :
    Len(jobs[w]) + One(ExitPosted(w)) =
      sem[w] + One(wpc[w] \in {"woken", "pop", "exit"})
             + One(bpc = "post" /\ bidx = w)

(* A worker that gets past the exit test always finds a job: PopJob never  *)
(* returns its default value, so no wake-up is ever spent on an empty      *)
(* queue (which would strand a later job) whatever the timing of run().    *)
PopFindsJob ==
  \A w \in Workers : wpc[w] = "pop" => jobs[w] # <<>>

(* The comment in data_receive: a socket is served by a fixed thread, so   *)
(* two threads never process data of the same socket at once.              *)
OneThreadPerSocket ==
  \A v, w \in Workers :
    v # w /\ wpc[v] = "work" /\ wpc[w] = "work" => cur[v].fd # cur[w].fd

(* The buffers of a socket in the queue of the thread that serves it, and  *)
(* those that some worker is processing.                                   *)
Waiting(fd) ==
  LET q == jobs[fd % ThreadNum]
  IN  {q[i].buf : i \in {k \in 1 .. Len(q) : q[k].fd = fd}}
Active(fd) == {cur[w].buf : w \in {v \in Workers : wpc[v] = "work" /\ cur[v].fd = fd}}

PerSocket == INSTANCE SocketJobs WITH
  waiting <- [fd \in Fds |-> Waiting(fd)],
  active  <- [fd \in Fds |-> Active(fd)],
  arrived <- received

(* data_receive and work_thread together keep, for every socket, the order *)
(* of its data and process it one buffer at a time, up to the shutdown.    *)
PerSocketOrder == PerSocket!Spec

(* The worker never stays in _process_data for ever.                       *)
Returns(w) == []<>(wpc[w] # "work")

(* A job handed over is processed, unless the server is told to exit or    *)
(* the thread that serves its socket is stuck in _process_data: no wake-up *)
(* is lost, and a stuck worker holds up the sockets it serves and no other.*)
JobsAreProcessed ==
  \A fd \in Fds, n \in 1 .. MaxJobs :
    Returns(ThreadOf(fd)) =>
      ((\E w \in Workers : \E i \in 1 .. Len(jobs[w]) :
          jobs[w][i] = [fd |-> fd, buf |-> n])
        ~> (exitreq \/ \E w \in Workers :
                         wpc[w] = "work" /\ cur[w] = [fd |-> fd, buf |-> n]))

(* An exit request ends the server when no worker is stuck: every worker   *)
(* sees its flag, also one that was busy or still has jobs queued, and     *)
(* run() joins them all.  One stuck worker is enough to keep run() from    *)
(* returning, since pthread_join waits for it.                             *)
ShutdownCompletes ==
  (\A w \in Workers : Returns(w)) => (exitreq ~> bpc = "ended")
=============================================================================
