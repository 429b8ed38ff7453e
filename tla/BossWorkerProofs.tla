--------------------------- MODULE BossWorkerProofs ---------------------------
(***************************************************************************)
(* Proofs about BossWorker for every number of threads, every set of       *)
(* sockets and every bound on the jobs.                                    *)
(***************************************************************************)
EXTENDS BossWorker, TLAPS

(* The boss and each worker keep their variables in their types.           *)
LEMMA TypeStep == TypeOK /\ [Next]_vars => TypeOK'
<1> SUFFICES ASSUME TypeOK, [Next]_vars PROVE TypeOK'
  OBVIOUS
<1> USE ThreadNumAssumption, FdsAssumption, MaxJobsAssumption
<1>1. ASSUME NEW fd \in Fds, PushJob(fd) PROVE TypeOK'
  <2>1. /\ fd % ThreadNum \in Workers
        /\ [fd |-> fd, buf |-> received + 1] \in Job
    BY <1>1 DEF Workers, Job, TypeOK, PushJob, Enqueue
  <2>2. jobs' \in [Workers -> Seq(Job)]
    BY <1>1, <2>1 DEF PushJob, Enqueue, ThreadOf, TypeOK
  <2>3. QED
    BY <1>1, <2>1, <2>2 DEF PushJob, Enqueue, ThreadOf, TypeOK
<1>2. CASE PostJob
  BY <1>2 DEF PostJob, TypeOK
<1>3. CASE RequestExit
  BY <1>3 DEF RequestExit, TypeOK
<1>4. CASE LoopEnds
  BY <1>4 DEF LoopEnds, TypeOK, Workers
<1>5. CASE SetExitFlag
  BY <1>5 DEF SetExitFlag, TypeOK
<1>6. CASE PostExit
  <2>1. sem' \in [Workers -> Nat]
    BY <1>6 DEF PostExit, TypeOK
  <2>2. bidx' \in Workers /\ bpc' \in {"flag", "join"}
    <3>1. bidx \in Nat /\ 0 \in Workers
      BY DEF TypeOK, Workers
    <3>2. bidx + 1 < ThreadNum => bidx + 1 \in Workers
      BY <3>1 DEF Workers
    <3>3. QED
      BY <1>6, <3>1, <3>2 DEF PostExit
  <2>3. QED
    BY <1>6, <2>1, <2>2 DEF PostExit, TypeOK
<1>7. CASE Join
  BY <1>7 DEF Join, TypeOK, Workers
<1>8. ASSUME NEW w \in Workers, SemWait(w) PROVE TypeOK'
  BY <1>8 DEF SemWait, TypeOK, bossVars
<1>9. ASSUME NEW w \in Workers, TestExit(w) PROVE TypeOK'
  BY <1>9 DEF TestExit, TypeOK, bossVars
<1>10. ASSUME NEW w \in Workers, PopJob(w) PROVE TypeOK'
  <2>1. jobs[w] # <<>> => /\ Head(jobs[w]) \in Job
                          /\ Tail(jobs[w]) \in Seq(Job)
    BY DEF TypeOK
  <2>2. jobs' \in [Workers -> Seq(Job)]
    BY <1>10, <2>1 DEF PopJob, FrontJob, Dequeue, TypeOK
  <2>3. cur' \in [Workers -> Job \cup {NoJob}]
    BY <1>10, <2>1 DEF PopJob, FrontJob, Dequeue, TypeOK
  <2>4. QED
    BY <1>10, <2>2, <2>3 DEF PopJob, FrontJob, Dequeue, TypeOK, bossVars
<1>11. ASSUME NEW w \in Workers, ProcessData(w) PROVE TypeOK'
  BY <1>11 DEF ProcessData, TypeOK, bossVars
<1>12. CASE UNCHANGED vars
  BY <1>12 DEF vars, TypeOK
<1>13. CASE Ended
  BY <1>13 DEF Ended, vars, TypeOK
<1>14. QED
  BY <1>1, <1>2, <1>3, <1>4, <1>5, <1>6, <1>7, <1>8, <1>9, <1>10, <1>11,
     <1>12, <1>13 DEF Next, Boss, Worker

(* Type correctness of the hand-over and of the shutdown.                  *)
THEOREM TypeCorrect == Spec => []TypeOK
<1>1. Init => TypeOK
  BY ThreadNumAssumption, MaxJobsAssumption
     DEF Init, TypeOK, Workers, Job, NoJob
<1>2. QED
  BY <1>1, TypeStep, PTL DEF Spec

(***************************************************************************)
(* The inductive invariant behind PopFindsJob.  The count alone is not     *)
(* enough: once run() has posted the exit token of w, a worker that is not *)
(* past sem_wait must still have that token before it, because a worker    *)
(* that takes it sees the flag and leaves.                                 *)
(***************************************************************************)
ExitTokenPending ==
  /\ bpc = "wake" => exitflag[bidx]
  /\ \A w \in Workers :
       /\ ExitPosted(w) => exitflag[w]
       /\ ExitPosted(w) /\ wpc[w] \in {"wait", "pop", "work"} => sem[w] > 0

WakeInv == TypeOK /\ WakeupsMatchJobs /\ ExitTokenPending

(* At the pop there is a job: the worker's own token stands for one, and   *)
(* the exit token, if posted, is still in the semaphore.                   *)
LEMMA WakeInvGivesJob == WakeInv => PopFindsJob
<1> SUFFICES ASSUME WakeInv, NEW w \in Workers, wpc[w] = "pop"
             PROVE  jobs[w] # <<>>
  BY DEF PopFindsJob
<1>1. /\ jobs[w] \in Seq(Job) /\ sem[w] \in Nat
      /\ Len(jobs[w]) + One(ExitPosted(w)) =
           sem[w] + 1 + One(bpc = "post" /\ bidx = w)
      /\ ExitPosted(w) => sem[w] > 0
  BY DEF WakeInv, TypeOK, WakeupsMatchJobs, ExitTokenPending, One
<1>2. Len(jobs[w]) \in Nat
  BY <1>1
<1>3. CASE ExitPosted(w)
  BY <1>1, <1>2, <1>3 DEF One
<1>4. CASE ~ExitPosted(w)
  BY <1>1, <1>2, <1>4 DEF One
<1>5. QED
  BY <1>3, <1>4

(* Every step of the boss and of a worker keeps the balance of each worker *)
(* and the pending exit token.                                             *)
LEMMA WakeStep == WakeInv /\ [Next]_vars => WakeInv'
<1> SUFFICES ASSUME WakeInv, [Next]_vars PROVE WakeInv'
  OBVIOUS
<1> USE ThreadNumAssumption, FdsAssumption, MaxJobsAssumption
<1>0. TypeOK' /\ TypeOK
  BY TypeStep DEF WakeInv
<1>1. ASSUME NEW fd \in Fds, PushJob(fd)
      PROVE  WakeupsMatchJobs' /\ ExitTokenPending'
  <2> DEFINE t == fd % ThreadNum
  <2>1. fd \in Nat /\ t \in Workers
    BY DEF Workers
  <2>2. \A w \in Workers : ~ExitPosted(w) /\ ~ExitPosted(w)'
    BY <1>1 DEF PushJob, Enqueue, ExitPosted
  <2>3. /\ Len(jobs'[t]) = Len(jobs[t]) + 1
        /\ \A w \in Workers : w # t => jobs'[w] = jobs[w]
    <3>1. [fd |-> fd, buf |-> received + 1] \in Job
      BY <1>0, <1>1 DEF PushJob, Enqueue, Job, TypeOK
    <3>2. QED
      BY <1>0, <1>1, <2>1, <3>1 DEF PushJob, Enqueue, ThreadOf, TypeOK
  <2>4. bpc = "loop" /\ bpc' = "post" /\ bidx' = t /\ sem' = sem /\ wpc' = wpc
    BY <1>1 DEF PushJob, Enqueue, ThreadOf
  <2>5. WakeupsMatchJobs'
    <3> SUFFICES ASSUME NEW w \in Workers
                 PROVE  Len(jobs'[w]) = sem[w] + One(wpc[w] \in {"woken", "pop", "exit"})
                                               + One(t = w)
      BY <1>0, <2>2, <2>4, SMTT(20) DEF WakeupsMatchJobs, One, TypeOK
    <3>1. Len(jobs[w]) = sem[w] + One(wpc[w] \in {"woken", "pop", "exit"})
      BY <1>0, <2>2, <2>4, SMTT(20) DEF WakeInv, WakeupsMatchJobs, One, TypeOK
    <3>2. sem[w] \in Nat /\ One(wpc[w] \in {"woken", "pop", "exit"}) \in {0, 1}
      BY <1>0 DEF One, TypeOK
    <3>3. CASE w = t
      <4>1. Len(jobs'[w]) = Len(jobs[w]) + 1 /\ One(t = w) = 1
        BY <2>3, <3>3 DEF One
      <4>2. QED
        BY <3>1, <3>2, <4>1
    <3>4. CASE w # t
      <4>1. Len(jobs'[w]) = Len(jobs[w]) /\ One(t = w) = 0
        BY <2>3, <3>4 DEF One
      <4>2. QED
        BY <3>1, <3>2, <4>1
    <3>5. QED
      BY <3>3, <3>4
  <2>6. ExitTokenPending'
    BY <2>2, <2>4 DEF ExitTokenPending
  <2>7. QED
    BY <2>5, <2>6
<1>2. CASE PostJob
  <2>1. \A w \in Workers : ~ExitPosted(w) /\ ~ExitPosted(w)'
    BY <1>2 DEF PostJob, ExitPosted
  <2>2. WakeupsMatchJobs'
    <3> SUFFICES ASSUME NEW w \in Workers
                 PROVE  Len(jobs[w]) =
                          sem'[w] + One(wpc[w] \in {"woken", "pop", "exit"})
      BY <1>2, <2>1 DEF PostJob, WakeupsMatchJobs, One
    <3>1. Len(jobs[w]) = sem[w] + One(wpc[w] \in {"woken", "pop", "exit"})
                                + One(bidx = w)
      BY <1>0, <1>2, <2>1 DEF PostJob, WakeInv, WakeupsMatchJobs, One, TypeOK
    <3>2. QED
      BY <1>0, <1>2, <3>1 DEF PostJob, One, TypeOK
  <2>3. ExitTokenPending'
    BY <1>2, <2>1 DEF PostJob, ExitTokenPending
  <2>4. QED
    BY <1>0, <2>2, <2>3 DEF WakeInv
<1>3. CASE RequestExit
  BY <1>0, <1>3 DEF RequestExit, WakeInv, WakeupsMatchJobs, ExitTokenPending,
     One, ExitPosted, TypeOK
<1>4. CASE LoopEnds
  BY <1>0, <1>4 DEF LoopEnds, WakeInv, WakeupsMatchJobs, ExitTokenPending,
     One, ExitPosted, TypeOK, Workers
<1>5. CASE SetExitFlag
  BY <1>0, <1>5 DEF SetExitFlag, WakeInv, WakeupsMatchJobs, ExitTokenPending,
     One, ExitPosted, TypeOK, Workers
<1>6. CASE PostExit
  <2>1. \A w \in Workers : ExitPosted(w)' <=> (ExitPosted(w) \/ w = bidx)
    BY <1>0, <1>6, SMTT(20) DEF PostExit, ExitPosted, TypeOK, Workers
  <2>2. ~ExitPosted(bidx)
    BY <1>0, <1>6 DEF PostExit, ExitPosted, TypeOK, Workers
  <2>3. bpc' # "post" /\ bpc # "post" /\ bpc' # "wake"
    BY <1>6 DEF PostExit
  <2>4. WakeupsMatchJobs'
    BY <1>0, <1>6, <2>1, <2>2, <2>3
       DEF PostExit, WakeInv, WakeupsMatchJobs, One, TypeOK
  <2>5. ExitTokenPending'
    BY <1>0, <1>6, <2>1, <2>2, <2>3
       DEF PostExit, WakeInv, ExitTokenPending, TypeOK
  <2>6. QED
    BY <1>0, <2>4, <2>5 DEF WakeInv
<1>7. CASE Join
  BY <1>0, <1>7 DEF Join, WakeInv, WakeupsMatchJobs, ExitTokenPending,
     One, ExitPosted, TypeOK, Workers
<1>8. ASSUME NEW w \in Workers, SemWait(w)
      PROVE  WakeupsMatchJobs' /\ ExitTokenPending'
  <2>1. \A v \in Workers : ExitPosted(v)' <=> ExitPosted(v)
    BY <1>8 DEF SemWait, bossVars, ExitPosted
  <2>2. WakeupsMatchJobs'
    BY <1>0, <1>8, <2>1
       DEF SemWait, bossVars, WakeInv, WakeupsMatchJobs, One, TypeOK
  <2>3. ExitTokenPending'
    BY <1>0, <1>8, <2>1
       DEF SemWait, bossVars, WakeInv, ExitTokenPending, TypeOK
  <2>4. QED
    BY <2>2, <2>3
<1>9. ASSUME NEW w \in Workers, TestExit(w)
      PROVE  WakeupsMatchJobs' /\ ExitTokenPending'
  <2>1. \A v \in Workers : ExitPosted(v)' <=> ExitPosted(v)
    BY <1>9 DEF TestExit, bossVars, ExitPosted
  <2>2. WakeupsMatchJobs'
    BY <1>0, <1>9, <2>1
       DEF TestExit, bossVars, WakeInv, WakeupsMatchJobs, One, TypeOK
  <2>3. ExitTokenPending'
    BY <1>0, <1>9, <2>1
       DEF TestExit, bossVars, WakeInv, ExitTokenPending, TypeOK
  <2>4. QED
    BY <2>2, <2>3
<1>10. ASSUME NEW w \in Workers, PopJob(w)
       PROVE  WakeupsMatchJobs' /\ ExitTokenPending'
  <2>1. \A v \in Workers : ExitPosted(v)' <=> ExitPosted(v)
    BY <1>10 DEF PopJob, FrontJob, Dequeue, bossVars, ExitPosted
  <2>2. jobs[w] # <<>>
    BY <1>10, WakeInvGivesJob DEF PopJob, FrontJob, Dequeue, PopFindsJob
  <2>3. /\ Len(jobs'[w]) = Len(jobs[w]) - 1
        /\ \A v \in Workers : v # w => jobs'[v] = jobs[v]
    BY <1>0, <1>10, <2>2 DEF PopJob, FrontJob, Dequeue, TypeOK
  <2>4. wpc'[w] \in {"wait", "work"} /\ \A v \in Workers : v # w => wpc'[v] = wpc[v]
    BY <1>0, <1>10 DEF PopJob, FrontJob, Dequeue, TypeOK
  <2>5. WakeupsMatchJobs'
    <3> SUFFICES ASSUME NEW v \in Workers
                 PROVE  Len(jobs'[v]) + One(ExitPosted(v)) =
                          sem[v] + One(wpc'[v] \in {"woken", "pop", "exit"})
                                 + One(bpc = "post" /\ bidx = v)
      BY <1>10, <2>1 DEF PopJob, FrontJob, Dequeue, bossVars, WakeupsMatchJobs, One
    <3>1. Len(jobs[v]) + One(ExitPosted(v)) =
            sem[v] + One(wpc[v] \in {"woken", "pop", "exit"})
                   + One(bpc = "post" /\ bidx = v)
      BY DEF WakeInv, WakeupsMatchJobs
    <3>2. /\ sem[v] \in Nat /\ Len(jobs[v]) \in Nat
          /\ One(ExitPosted(v)) \in {0, 1}
          /\ One(bpc = "post" /\ bidx = v) \in {0, 1}
      BY <1>0 DEF TypeOK, One
    <3>3. CASE v = w
      <4>1. /\ Len(jobs'[v]) = Len(jobs[v]) - 1
            /\ One(wpc[v] \in {"woken", "pop", "exit"}) = 1
            /\ One(wpc'[v] \in {"woken", "pop", "exit"}) = 0
        BY <1>10, <2>3, <2>4, <3>3 DEF PopJob, FrontJob, Dequeue, One
      <4>2. QED
        BY <3>1, <3>2, <4>1
    <3>4. CASE v # w
      <4>1. Len(jobs'[v]) = Len(jobs[v]) /\ wpc'[v] = wpc[v]
        BY <2>3, <2>4, <3>4
      <4>2. One(wpc'[v] \in {"woken", "pop", "exit"}) =
              One(wpc[v] \in {"woken", "pop", "exit"})
        BY <4>1
      <4>3. QED
        BY <3>1, <4>1, <4>2
    <3>5. QED
      BY <3>3, <3>4
  <2>6. ExitTokenPending'
    BY <1>0, <1>10, <2>1, <2>4
       DEF PopJob, FrontJob, Dequeue, bossVars, WakeInv, ExitTokenPending, TypeOK
  <2>7. QED
    BY <2>5, <2>6
<1>11. ASSUME NEW w \in Workers, ProcessData(w)
       PROVE  WakeupsMatchJobs' /\ ExitTokenPending'
  <2>1. \A v \in Workers : ExitPosted(v)' <=> ExitPosted(v)
    BY <1>11 DEF ProcessData, bossVars, ExitPosted
  <2>2. WakeupsMatchJobs'
    BY <1>0, <1>11, <2>1
       DEF ProcessData, bossVars, WakeInv, WakeupsMatchJobs, One, TypeOK
  <2>3. ExitTokenPending'
    BY <1>0, <1>11, <2>1
       DEF ProcessData, bossVars, WakeInv, ExitTokenPending, TypeOK
  <2>4. QED
    BY <2>2, <2>3
<1>12. CASE UNCHANGED vars \/ Ended
  BY <1>0, <1>12 DEF vars, Ended, WakeInv, WakeupsMatchJobs, ExitTokenPending, One,
     ExitPosted
<1>13. QED
  BY <1>0, <1>1, <1>2, <1>3, <1>4, <1>5, <1>6, <1>7, <1>8, <1>9, <1>10,
     <1>11, <1>12 DEF Next, Boss, Worker, WakeInv

(* No wake-up and no job at the start.                                     *)
LEMMA WakeInit == Init => WakeInv
  BY ThreadNumAssumption, MaxJobsAssumption
     DEF Init, WakeInv, TypeOK, WakeupsMatchJobs, ExitTokenPending,
         ExitPosted, One, Workers, Job, NoJob

(* For every number of threads and sockets: every job queued by            *)
(* data_receive has exactly one wake-up, throughout the shutdown too.      *)
THEOREM WakeupsCorrect == Spec => []WakeupsMatchJobs
<1>1. WakeInv => WakeupsMatchJobs
  BY DEF WakeInv
<1>2. QED
  BY <1>1, WakeInit, WakeStep, PTL DEF Spec

(* PopJob of work_thread never finds its queue empty.                      *)
THEOREM PopCorrect == Spec => []PopFindsJob
  BY WakeInit, WakeStep, WakeInvGivesJob, PTL DEF Spec

(***************************************************************************)
(* The fixed thread of a socket.                                           *)
(***************************************************************************)
HashInv ==
  \A w \in Workers :
    /\ \A i \in 1 .. Len(jobs[w]) : jobs[w][i].fd % ThreadNum = w
    /\ wpc[w] = "work" => cur[w].fd % ThreadNum = w

(* Jobs are pushed to the thread of their descriptor and popped by it.     *)
LEMMA HashStep == TypeOK /\ HashInv /\ [Next]_vars => HashInv'
<1> SUFFICES ASSUME TypeOK, HashInv, [Next]_vars PROVE HashInv'
  OBVIOUS
<1> USE ThreadNumAssumption, FdsAssumption, MaxJobsAssumption
<1>1. ASSUME NEW fd \in Fds, PushJob(fd) PROVE HashInv'
  <2> DEFINE t == fd % ThreadNum
             j == [fd |-> fd, buf |-> received + 1]
  <2>1. t \in Workers /\ j \in Job /\ j.fd = fd
    BY <1>1 DEF Workers, Job, PushJob, Enqueue, TypeOK
  <2>2. jobs' = [jobs EXCEPT ![t] = Append(@, j)] /\ wpc' = wpc /\ cur' = cur
    BY <1>1 DEF PushJob, Enqueue, ThreadOf
  <2>3. \A w \in Workers : w # t => jobs'[w] = jobs[w]
    BY <2>1, <2>2 DEF TypeOK
  <2>4. jobs[t] \in Seq(Job) /\ jobs'[t] = Append(jobs[t], j)
    BY <2>1, <2>2 DEF TypeOK
  <2>5. \A i \in 1 .. Len(jobs'[t]) : jobs'[t][i].fd % ThreadNum = t
    <3> HIDE DEF j
    <3> HIDE DEF t
    <3>1. \A i \in 1 .. Len(jobs[t]) : jobs[t][i].fd % ThreadNum = t
      BY <2>1 DEF HashInv
    <3>2. TAKE i \in 1 .. Len(jobs'[t])
    <3>3. CASE i = Len(jobs[t]) + 1
      BY <2>1, <2>4, <3>3 DEF t
    <3>4. CASE i \in 1 .. Len(jobs[t])
      BY <2>4, <3>1, <3>4
    <3>5. QED
      BY <2>1, <2>4, <3>3, <3>4
  <2>6. QED
    BY <2>2, <2>3, <2>5 DEF HashInv
<1>2. ASSUME NEW w \in Workers, PopJob(w) PROVE HashInv'
  <2>1. CASE jobs[w] = <<>>
    BY <1>2, <2>1 DEF PopJob, FrontJob, Dequeue, HashInv, TypeOK, NoJob
  <2>2. CASE jobs[w] # <<>>
    <3>1. Head(jobs[w]).fd % ThreadNum = w
      BY <2>2 DEF HashInv, TypeOK
    <3>2. \A i \in 1 .. Len(Tail(jobs[w])) : Tail(jobs[w])[i].fd % ThreadNum = w
      BY <2>2 DEF HashInv, TypeOK
    <3>3. QED
      BY <1>2, <2>2, <3>1, <3>2 DEF PopJob, FrontJob, Dequeue, HashInv, TypeOK
  <2>3. QED
    BY <2>1, <2>2
<1>3. ASSUME NEW w \in Workers, SemWait(w) \/ TestExit(w) \/ ProcessData(w)
      PROVE  HashInv'
  BY <1>3 DEF SemWait, TestExit, ProcessData, HashInv, TypeOK
<1>4. CASE PostJob \/ RequestExit \/ LoopEnds \/ SetExitFlag \/ PostExit \/ Join
  BY <1>4 DEF PostJob, RequestExit, LoopEnds, SetExitFlag, PostExit, Join,
     HashInv
<1>5. CASE UNCHANGED vars \/ Ended
  BY <1>5 DEF vars, Ended, HashInv
<1>6. QED
  BY <1>1, <1>2, <1>3, <1>4, <1>5 DEF Next, Boss, Worker

(* For every number of threads: no two threads process data of one socket, *)
(* which is what the comment in data_receive relies on.                    *)
THEOREM SocketHasOneThread == Spec => []OneThreadPerSocket
<1>1. Init => TypeOK /\ HashInv
  BY ThreadNumAssumption, MaxJobsAssumption
     DEF Init, TypeOK, HashInv, Workers, Job, NoJob
<1>2. HashInv => OneThreadPerSocket
  BY DEF HashInv, OneThreadPerSocket
<1>3. QED
  BY <1>1, <1>2, TypeStep, HashStep, PTL DEF Spec

(***************************************************************************)
(* The refinement of SocketJobs.  A queue is in the order of the serial    *)
(* numbers, and what a worker processes is a job and not PopJob's default. *)
(***************************************************************************)
SerialInv ==
  \A w \in Workers :
    /\ \A i \in 1 .. Len(jobs[w]) : jobs[w][i].buf <= received
    /\ \A i, j \in 1 .. Len(jobs[w]) : i < j => jobs[w][i].buf < jobs[w][j].buf
    /\ wpc[w] = "work" => cur[w] \in Job

OrderInv == TypeOK /\ WakeInv /\ HashInv /\ SerialInv

(* What PushJob does to the queues.                                        *)
LEMMA PushJobDoes ==
  ASSUME TypeOK, NEW fd \in Fds, PushJob(fd)
  PROVE  LET t == fd % ThreadNum IN
         /\ t \in Workers /\ received \in Nat /\ received' = received + 1 /\ wpc' = wpc /\ cur' = cur
         /\ Len(jobs[t]) \in Nat /\ Len(jobs'[t]) = Len(jobs[t]) + 1
         /\ \A i \in 1 .. Len(jobs[t]) : jobs'[t][i] = jobs[t][i] /\ jobs[t][i] \in Job
         /\ jobs'[t][Len(jobs[t]) + 1] = [fd |-> fd, buf |-> received + 1]
         /\ \A w \in Workers \ {t} : jobs'[w] = jobs[w]
<1> USE ThreadNumAssumption, FdsAssumption, MaxJobsAssumption
<1> DEFINE t == fd % ThreadNum
           j == [fd |-> fd, buf |-> received + 1]
<1>1. t \in Workers /\ j \in Job /\ received \in Nat
  BY DEF Workers, Job, PushJob, Enqueue, TypeOK
<1>2. /\ jobs' = [jobs EXCEPT ![t] = Append(@, j)] /\ wpc' = wpc /\ cur' = cur
      /\ received' = received + 1
  BY DEF PushJob, Enqueue, ThreadOf
<1>3. /\ jobs[t] \in Seq(Job) /\ jobs'[t] = Append(jobs[t], j)
      /\ \A w \in Workers \ {t} : jobs'[w] = jobs[w]
  BY <1>1, <1>2 DEF TypeOK
<1> HIDE DEF t, j
<1>4. /\ Len(jobs[t]) \in Nat /\ Len(jobs'[t]) = Len(jobs[t]) + 1
      /\ \A i \in 1 .. Len(jobs[t]) : jobs'[t][i] = jobs[t][i] /\ jobs[t][i] \in Job
      /\ jobs'[t][Len(jobs[t]) + 1] = j
  BY <1>1, <1>3
<1>5. QED
  BY <1>1, <1>2, <1>3, <1>4 DEF t, j

(* What PopJob does: there is a job, and the worker processes it.          *)
LEMMA PopJobDoes ==
  ASSUME OrderInv, NEW w \in Workers, PopJob(w)
  PROVE  /\ jobs[w][1] \in Job /\ Len(jobs[w]) \in Nat /\ Len(jobs[w]) >= 1
         /\ Len(jobs'[w]) = Len(jobs[w]) - 1
         /\ \A i \in 1 .. Len(jobs[w]) - 1 : jobs'[w][i] = jobs[w][i + 1]
         /\ \A v \in Workers \ {w} : jobs'[v] = jobs[v] /\ wpc'[v] = wpc[v] /\ cur'[v] = cur[v]
         /\ wpc[w] = "pop" /\ wpc'[w] = "work" /\ cur'[w] = jobs[w][1] /\ received' = received
<1> USE FdsAssumption
<1>1. TypeOK /\ jobs[w] \in Seq(Job) /\ jobs[w] # <<>> /\ wpc[w] = "pop"
  BY WakeInvGivesJob DEF OrderInv, TypeOK, PopFindsJob, PopJob
<1>2. /\ Len(jobs[w]) \in Nat /\ Len(jobs[w]) >= 1 /\ Head(jobs[w]) = jobs[w][1]
      /\ jobs[w][1] \in Job /\ Len(Tail(jobs[w])) = Len(jobs[w]) - 1
      /\ \A i \in 1 .. Len(jobs[w]) - 1 : Tail(jobs[w])[i] = jobs[w][i + 1]
  BY <1>1
<1>3. jobs[w][1].fd # 0 /\ jobs[w][1].buf # 0
  BY <1>2 DEF Job
<1>4. /\ cur' = [cur EXCEPT ![w] = jobs[w][1]] /\ wpc' = [wpc EXCEPT ![w] = "work"]
      /\ jobs' = [jobs EXCEPT ![w] = Tail(jobs[w])] /\ received' = received
  BY <1>1, <1>2, <1>3 DEF PopJob, FrontJob, Dequeue, bossVars
<1>5. /\ jobs'[w] = Tail(jobs[w]) /\ wpc'[w] = "work" /\ cur'[w] = jobs[w][1]
      /\ \A v \in Workers \ {w} : jobs'[v] = jobs[v] /\ wpc'[v] = wpc[v] /\ cur'[v] = cur[v]
  BY <1>1, <1>4 DEF TypeOK
<1>6. QED
  BY <1>1, <1>2, <1>4, <1>5

(* A new serial is above all others, and queues keep their order.          *)
LEMMA SerialStep == OrderInv /\ [Next]_vars => SerialInv'
<1> SUFFICES ASSUME OrderInv, [Next]_vars PROVE SerialInv'
  OBVIOUS
<1>0. TypeOK /\ SerialInv
  BY DEF OrderInv
<1>1. ASSUME NEW fd \in Fds, PushJob(fd) PROVE SerialInv'
  <2> DEFINE t == fd % ThreadNum
             n == Len(jobs[t])
             j == [fd |-> fd, buf |-> received + 1]
  <2>1. /\ t \in Workers /\ received \in Nat /\ received' = received + 1 /\ wpc' = wpc /\ cur' = cur
        /\ n \in Nat /\ Len(jobs'[t]) = n + 1
        /\ \A i \in 1 .. n : jobs'[t][i] = jobs[t][i] /\ jobs[t][i] \in Job
        /\ jobs'[t][n + 1] = j /\ j.buf = received + 1
        /\ \A w \in Workers \ {t} : jobs'[w] = jobs[w]
    BY <1>0, <1>1, PushJobDoes
  <2> HIDE DEF j
  <2>2. /\ \A i \in 1 .. n : jobs[t][i].buf <= received
        /\ \A i, k \in 1 .. n : i < k => jobs[t][i].buf < jobs[t][k].buf
    BY <1>0, <2>1 DEF SerialInv
  <2>3. \A i \in 1 .. n : jobs[t][i].buf \in Nat
    BY <2>1 DEF Job
  <2> HIDE DEF t, n
  <2>4. \A i \in 1 .. Len(jobs'[t]) : i \in 1 .. n \/ i = n + 1
    BY <2>1
  <2>5. /\ \A i \in 1 .. Len(jobs'[t]) : jobs'[t][i].buf <= received'
        /\ \A i, k \in 1 .. Len(jobs'[t]) : i < k => jobs'[t][i].buf < jobs'[t][k].buf
    <3>1. \A i \in 1 .. n : jobs'[t][i].buf = jobs[t][i].buf
      BY <2>1
    <3>2. jobs'[t][n + 1].buf = received + 1
      BY <2>1
    <3>3. \A i \in 1 .. Len(jobs'[t]) : jobs'[t][i].buf <= received'
      BY <2>1, <2>2, <2>3, <2>4, <3>1, <3>2
    <3>4. ASSUME NEW i \in 1 .. Len(jobs'[t]), NEW k \in 1 .. Len(jobs'[t]), i < k
          PROVE  jobs'[t][i].buf < jobs'[t][k].buf
      <4>1. i \in 1 .. n
        BY <2>1, <3>4
      <4>2. CASE k \in 1 .. n
        BY <2>2, <3>1, <3>4, <4>1, <4>2
      <4>3. CASE k = n + 1
        BY <2>1, <2>2, <2>3, <3>1, <3>2, <4>1, <4>3
      <4>4. QED
        BY <2>4, <4>2, <4>3
    <3>5. QED
      BY <3>3, <3>4
  <2>6. ASSUME NEW w \in Workers, w # t
        PROVE  /\ \A i \in 1 .. Len(jobs'[w]) : jobs'[w][i].buf <= received'
               /\ \A i, k \in 1 .. Len(jobs'[w]) : i < k => jobs'[w][i].buf < jobs'[w][k].buf
    <3>1. jobs'[w] = jobs[w]
      BY <2>1, <2>6
    <3>2. \A i \in 1 .. Len(jobs[w]) : jobs[w][i].buf <= received /\ jobs[w][i].buf \in Nat
      <4>1. jobs[w] \in Seq(Job)
        BY <1>0 DEF TypeOK
      <4>2. \A i \in 1 .. Len(jobs[w]) : jobs[w][i] \in Job
        BY <4>1
      <4>3. QED
        BY <1>0, <4>2 DEF SerialInv, Job
    <3>3. QED
      BY <1>0, <2>1, <3>1, <3>2 DEF SerialInv
  <2>7. QED
    BY <1>0, <2>1, <2>5, <2>6 DEF SerialInv
<1>2. ASSUME NEW w \in Workers, PopJob(w) PROVE SerialInv'
  <2>1. /\ jobs[w][1] \in Job /\ Len(jobs[w]) \in Nat /\ Len(jobs[w]) >= 1
        /\ Len(jobs'[w]) = Len(jobs[w]) - 1
        /\ \A i \in 1 .. Len(jobs[w]) - 1 : jobs'[w][i] = jobs[w][i + 1]
        /\ \A v \in Workers \ {w} : jobs'[v] = jobs[v] /\ wpc'[v] = wpc[v] /\ cur'[v] = cur[v]
        /\ cur'[w] = jobs[w][1] /\ received' = received
    BY <1>2, PopJobDoes
  <2>2. /\ \A i \in 1 .. Len(jobs'[w]) : jobs'[w][i].buf <= received'
        /\ \A i, k \in 1 .. Len(jobs'[w]) : i < k => jobs'[w][i].buf < jobs'[w][k].buf
    <3>1. /\ \A i \in 1 .. Len(jobs[w]) : jobs[w][i].buf <= received
          /\ \A i, k \in 1 .. Len(jobs[w]) : i < k => jobs[w][i].buf < jobs[w][k].buf
      BY <1>0 DEF SerialInv
    <3>2. \A i \in 1 .. Len(jobs'[w]) : i + 1 \in 1 .. Len(jobs[w]) /\ jobs'[w][i] = jobs[w][i + 1]
      BY <2>1
    <3>3. \A i \in 1 .. Len(jobs'[w]) : jobs'[w][i].buf <= received'
      BY <2>1, <3>1, <3>2
    <3>4. ASSUME NEW i \in 1 .. Len(jobs'[w]), NEW k \in 1 .. Len(jobs'[w]), i < k
          PROVE  jobs'[w][i].buf < jobs'[w][k].buf
      <4>1. i + 1 < k + 1
        BY <2>1, <3>4
      <4>2. QED
        BY <3>1, <3>2, <4>1
    <3>5. QED
      BY <3>3, <3>4
  <2>3. QED
    BY <1>0, <2>1, <2>2 DEF SerialInv
<1>3. ASSUME NEW w \in Workers, SemWait(w) \/ TestExit(w) \/ ProcessData(w)
      PROVE  SerialInv'
  BY <1>0, <1>3 DEF SemWait, TestExit, ProcessData, SerialInv, TypeOK, bossVars
<1>4. CASE PostJob \/ RequestExit \/ LoopEnds \/ SetExitFlag \/ PostExit \/ Join
  BY <1>0, <1>4 DEF PostJob, RequestExit, LoopEnds, SetExitFlag, PostExit, Join, SerialInv
<1>5. CASE UNCHANGED vars \/ Ended
  BY <1>0, <1>5 DEF vars, Ended, SerialInv
<1>6. QED
  BY <1>1, <1>2, <1>3, <1>4, <1>5 DEF Next, Boss, Worker

(* The socket a worker is processing data of is served by that worker.     *)
LEMMA ActiveOf ==
  ASSUME OrderInv, NEW fd \in Fds, NEW t \in Workers, t = fd % ThreadNum
  PROVE  Active(fd) = IF wpc[t] = "work" /\ cur[t].fd = fd THEN {cur[t].buf} ELSE {}
<1>1. \A v \in Workers : wpc[v] = "work" /\ cur[v].fd = fd => v = t
  BY DEF OrderInv, HashInv
<1>2. QED
  BY <1>1 DEF Active

(* data_receive queues a buffer: it has arrived on its socket.             *)
LEMMA PushArrives ==
  ASSUME OrderInv, NEW fd \in Fds, PushJob(fd)
  PROVE  PerSocket!Arrive(fd)
<1> DEFINE t == fd % ThreadNum
           q == jobs[t]
           j == [fd |-> fd, buf |-> received + 1]
<1>1. /\ t \in Workers /\ received \in Nat /\ received' = received + 1 /\ wpc' = wpc /\ cur' = cur
      /\ Len(q) \in Nat /\ Len(jobs'[t]) = Len(q) + 1
      /\ \A i \in 1 .. Len(q) : jobs'[t][i] = q[i] /\ q[i] \in Job
      /\ jobs'[t][Len(q) + 1] = j /\ j.buf = received + 1 /\ j.fd = fd
      /\ \A w \in Workers \ {t} : jobs'[w] = jobs[w]
  BY PushJobDoes DEF OrderInv
<1>2. received < MaxJobs
  BY DEF PushJob
<1>3. \A g \in Fds : Active(g)' = Active(g)
  BY <1>1 DEF Active
<1> HIDE DEF j
<1>4. Waiting(fd)' = Waiting(fd) \cup {received + 1}
  <2>1. \A i \in 1 .. Len(jobs'[t]) : (i \in 1 .. Len(q) /\ jobs'[t][i] = q[i]) \/ i = Len(q) + 1
    BY <1>1
  <2>2. \A i \in 1 .. Len(q) : i \in 1 .. Len(jobs'[t])
    BY <1>1
  <2>3. Len(q) + 1 \in 1 .. Len(jobs'[t])
    BY <1>1
  <2> HIDE DEF q
  <2>4. Waiting(fd) = {q[i].buf : i \in {k \in 1 .. Len(q) : q[k].fd = fd}}
    BY DEF Waiting, q
  <2>5. Waiting(fd)' = {jobs'[t][i].buf : i \in {k \in 1 .. Len(jobs'[t]) : jobs'[t][k].fd = fd}}
    BY DEF Waiting
  <2> HIDE DEF t
  <2>6. QED
    BY <1>1, <2>1, <2>2, <2>3, <2>4, <2>5
<1>5. ASSUME NEW g \in Fds, g # fd
      PROVE  Waiting(g)' = Waiting(g)
  <2>1. g % ThreadNum \in Workers
    BY ThreadNumAssumption, FdsAssumption DEF Workers
  <2>2. CASE g % ThreadNum # t
    BY <1>1, <2>1, <2>2 DEF Waiting
  <2>3. CASE g % ThreadNum = t
    <3>1. \A i \in 1 .. Len(jobs'[t]) : (i \in 1 .. Len(q) /\ jobs'[t][i] = q[i]) \/ jobs'[t][i].fd # g
      BY <1>1, <1>5
    <3>2. \A i \in 1 .. Len(q) : i \in 1 .. Len(jobs'[t]) /\ jobs'[t][i] = q[i]
      BY <1>1
    <3> HIDE DEF q
    <3>3. Waiting(g) = {q[i].buf : i \in {k \in 1 .. Len(q) : q[k].fd = g}}
      BY <2>3 DEF Waiting, q
    <3>4. Waiting(g)' = {jobs'[t][i].buf : i \in {k \in 1 .. Len(jobs'[t]) : jobs'[t][k].fd = g}}
      BY <2>3 DEF Waiting
    <3> HIDE DEF t
    <3>5. QED
      BY <3>1, <3>2, <3>3, <3>4
  <2>4. QED
    BY <2>2, <2>3
<1>6. [g \in Fds |-> Waiting(g)]' = [[g \in Fds |-> Waiting(g)] EXCEPT ![fd] = @ \cup {received + 1}]
  BY <1>4, <1>5
<1>7. [g \in Fds |-> Active(g)]' = [g \in Fds |-> Active(g)]
  BY <1>3
<1>8. QED
  BY <1>1, <1>2, <1>6, <1>7 DEF PerSocket!Arrive

(* The worker of a socket pops its first job: the least of the buffers     *)
(* that wait on the socket begins, and none of that socket is active.      *)
LEMMA PopBegins ==
  ASSUME OrderInv, NEW w \in Workers, PopJob(w)
  PROVE  \E fd \in Fds : PerSocket!Begin(fd)
<1> DEFINE q == jobs[w]
           j == q[1]
<1>0. PICK fd, n : fd = j.fd /\ n = j.buf
  OBVIOUS
<1>1. /\ j \in Job /\ Len(q) \in Nat /\ Len(q) >= 1
      /\ Len(jobs'[w]) = Len(q) - 1
      /\ \A i \in 1 .. Len(q) - 1 : jobs'[w][i] = q[i + 1]
      /\ \A v \in Workers \ {w} : jobs'[v] = jobs[v] /\ wpc'[v] = wpc[v] /\ cur'[v] = cur[v]
      /\ wpc[w] = "pop" /\ wpc'[w] = "work" /\ cur'[w] = j /\ received' = received
  BY PopJobDoes
<1>2. 1 \in 1 .. Len(q) /\ fd \in Fds /\ fd % ThreadNum = w /\ n \in Nat
  BY <1>0, <1>1 DEF OrderInv, HashInv, Job
<1>3. /\ \A i \in 1 .. Len(q) : 1 < i => n < q[i].buf
      /\ \A i \in 1 .. Len(q) : i = 1 \/ 1 < i
  BY <1>0, <1>1, <1>2 DEF OrderInv, SerialInv
<1>4. \A i \in 1 .. Len(q) : q[i].buf \in Nat
  <2>1. q \in Seq(Job)
    BY DEF OrderInv, TypeOK
  <2>2. \A i \in 1 .. Len(q) : q[i] \in Job
    BY <2>1
  <2>3. QED
    BY <2>2 DEF Job
<1>5. \A i \in 1 .. Len(jobs'[w]) : i + 1 \in 1 .. Len(q) /\ 1 < i + 1 /\ jobs'[w][i] = q[i + 1]
  BY <1>1
<1>6. \A i \in 1 .. Len(q) : 1 < i => i - 1 \in 1 .. Len(jobs'[w]) /\ jobs'[w][i - 1] = q[i]
  BY <1>1
<1> HIDE DEF q, j
<1>7. /\ Waiting(fd) = {q[i].buf : i \in {k \in 1 .. Len(q) : q[k].fd = fd}}
      /\ Waiting(fd)' = {jobs'[w][i].buf : i \in {k \in 1 .. Len(jobs'[w]) : jobs'[w][k].fd = fd}}
  BY <1>2 DEF Waiting, q
<1>8. n \in Waiting(fd) /\ \A m \in Waiting(fd) : n <= m
  <2>1. q[1].buf = n /\ q[1].fd = fd
    BY <1>0 DEF j
  <2>2. QED
    BY <1>2, <1>3, <1>4, <1>7, <2>1
<1>9. Waiting(fd)' = Waiting(fd) \ {n}
  <2>1. q[1].buf = n
    BY <1>0 DEF j
  <2>2. ASSUME NEW m \in Waiting(fd)'
        PROVE  m \in Waiting(fd) \ {n}
    <3>1. PICK i \in 1 .. Len(jobs'[w]) : jobs'[w][i].fd = fd /\ m = jobs'[w][i].buf
      BY <1>7
    <3>2. i + 1 \in 1 .. Len(q) /\ q[i + 1].fd = fd /\ m = q[i + 1].buf /\ n < q[i + 1].buf
      BY <1>3, <1>5, <3>1
    <3>3. m \in Waiting(fd)
      BY <1>7, <3>2
    <3>4. m # n
      BY <1>2, <1>4, <3>2
    <3>5. QED
      BY <3>3, <3>4
  <2>3. ASSUME NEW m \in Waiting(fd), m # n
        PROVE  m \in Waiting(fd)'
    <3>1. PICK i \in 1 .. Len(q) : q[i].fd = fd /\ m = q[i].buf
      BY <1>7
    <3>2. 1 < i
      BY <1>3, <2>1, <2>3, <3>1
    <3>3. QED
      BY <1>6, <1>7, <3>1, <3>2
  <2>4. QED
    BY <2>2, <2>3
<1>10. Active(fd) = {} /\ Active(fd)' = {n}
  <2>1. Active(fd) = {}
    BY <1>1, <1>2, ActiveOf
  <2>2. cur'[w].fd = fd /\ cur'[w].buf = n
    BY <1>0, <1>1
  <2>3. \A v \in Workers \ {w} : ~(wpc'[v] = "work" /\ cur'[v].fd = fd)
    BY <1>1, <1>2 DEF OrderInv, HashInv
  <2>4. Active(fd)' = {cur'[v].buf : v \in {u \in Workers : wpc'[u] = "work" /\ cur'[u].fd = fd}}
    BY DEF Active
  <2>5. QED
    BY <1>1, <2>1, <2>2, <2>3, <2>4
<1>11. ASSUME NEW g \in Fds, g # fd
       PROVE  Waiting(g)' = Waiting(g) /\ Active(g)' = Active(g)
  <2>1. g % ThreadNum \in Workers
    BY ThreadNumAssumption, FdsAssumption DEF Workers
  <2>2. Active(g)' = Active(g)
    <3>1. ~(wpc'[w] = "work" /\ cur'[w].fd = g) /\ ~(wpc[w] = "work" /\ cur[w].fd = g)
      BY <1>0, <1>1, <1>11
    <3>2. {v \in Workers : wpc'[v] = "work" /\ cur'[v].fd = g}
            = {v \in Workers : wpc[v] = "work" /\ cur[v].fd = g}
      BY <1>1, <3>1
    <3>3. Active(g)' = {cur'[v].buf : v \in {u \in Workers : wpc'[u] = "work" /\ cur'[u].fd = g}}
      BY DEF Active
    <3>4. QED
      BY <1>1, <3>1, <3>2, <3>3 DEF Active
  <2>3. CASE g % ThreadNum # w
    BY <1>1, <2>1, <2>2, <2>3 DEF Waiting
  <2>4. CASE g % ThreadNum = w
    <3>1. /\ Waiting(g) = {q[i].buf : i \in {k \in 1 .. Len(q) : q[k].fd = g}}
          /\ Waiting(g)' = {jobs'[w][i].buf : i \in {k \in 1 .. Len(jobs'[w]) : jobs'[w][k].fd = g}}
      BY <2>4 DEF Waiting, q
    <3>2. \A i \in 1 .. Len(q) : q[i].fd = g => 1 < i
      BY <1>0, <1>3, <1>11 DEF j
    <3>3. Waiting(g)' = Waiting(g)
      <4>1. ASSUME NEW m \in Waiting(g)'
            PROVE  m \in Waiting(g)
        <5>1. PICK i \in 1 .. Len(jobs'[w]) : jobs'[w][i].fd = g /\ m = jobs'[w][i].buf
          BY <3>1
        <5>2. QED
          BY <1>5, <3>1, <5>1
      <4>2. ASSUME NEW m \in Waiting(g)
            PROVE  m \in Waiting(g)'
        <5>1. PICK i \in 1 .. Len(q) : q[i].fd = g /\ m = q[i].buf
          BY <3>1
        <5>2. QED
          BY <1>6, <3>1, <3>2, <5>1
      <4>3. QED
        BY <4>1, <4>2
    <3>4. QED
      BY <2>2, <3>3
  <2>5. QED
    BY <2>3, <2>4
<1>12. /\ [g \in Fds |-> Waiting(g)]' = [[g \in Fds |-> Waiting(g)] EXCEPT ![fd] = @ \ {n}]
       /\ [g \in Fds |-> Active(g)]' = [[g \in Fds |-> Active(g)] EXCEPT ![fd] = {n}]
  BY <1>2, <1>9, <1>10, <1>11
<1>13. QED
  BY <1>1, <1>2, <1>8, <1>10, <1>12 DEF PerSocket!Begin

(* _process_data returns: the buffer its worker was processing finishes.   *)
LEMMA ProcessFinishes ==
  ASSUME OrderInv, NEW w \in Workers, ProcessData(w)
  PROVE  \E fd \in Fds : PerSocket!Finish(fd)
<1>0. PICK fd : fd = cur[w].fd
  OBVIOUS
<1>1. /\ TypeOK /\ wpc[w] = "work" /\ wpc' = [wpc EXCEPT ![w] = "wait"]
      /\ jobs' = jobs /\ cur' = cur /\ received' = received
  BY DEF ProcessData, bossVars, OrderInv
<1>2. wpc'[w] # "work" /\ \A v \in Workers \ {w} : wpc'[v] = wpc[v]
  BY <1>1 DEF TypeOK
<1>3. fd \in Fds /\ fd % ThreadNum = w
  BY <1>0, <1>1 DEF OrderInv, SerialInv, HashInv, Job
<1>4. \A g \in Fds : Waiting(g)' = Waiting(g)
  BY <1>1 DEF Waiting
<1>5. Active(fd) # {}
  BY <1>0, <1>1, <1>3, ActiveOf
<1>6. Active(fd)' = {}
  <2>1. \A v \in Workers : ~(wpc'[v] = "work" /\ cur[v].fd = fd)
    BY <1>2, <1>3 DEF OrderInv, HashInv
  <2>2. QED
    BY <1>1, <2>1 DEF Active
<1>7. ASSUME NEW g \in Fds, g # fd
      PROVE  Active(g)' = Active(g)
  <2>1. {v \in Workers : wpc'[v] = "work" /\ cur[v].fd = g} = {v \in Workers : wpc[v] = "work" /\ cur[v].fd = g}
    BY <1>0, <1>2, <1>7
  <2>2. QED
    BY <1>1, <2>1 DEF Active
<1>8. /\ [g \in Fds |-> Waiting(g)]' = [g \in Fds |-> Waiting(g)]
      /\ [g \in Fds |-> Active(g)]' = [[g \in Fds |-> Active(g)] EXCEPT ![fd] = {}]
  BY <1>3, <1>4, <1>6, <1>7
<1>9. QED
  BY <1>1, <1>3, <1>5, <1>8 DEF PerSocket!Finish

(* The semaphores and the shutdown are invisible to the sockets.           *)
LEMMA OthersStutter ==
  ASSUME TypeOK, jobs' = jobs, cur' = cur, received' = received,
         \A v \in Workers : wpc'[v] = "work" <=> wpc[v] = "work"
  PROVE  UNCHANGED PerSocket!vars
<1>1. \A g \in Fds : Waiting(g)' = Waiting(g)
  BY DEF Waiting
<1>2. ASSUME NEW g \in Fds
      PROVE  Active(g)' = Active(g)
  <2>1. {v \in Workers : wpc'[v] = "work" /\ cur[v].fd = g} = {v \in Workers : wpc[v] = "work" /\ cur[v].fd = g}
    OBVIOUS
  <2>2. QED
    BY <2>1 DEF Active
<1>3. /\ [g \in Fds |-> Waiting(g)]' = [g \in Fds |-> Waiting(g)]
      /\ [g \in Fds |-> Active(g)]' = [g \in Fds |-> Active(g)]
  BY <1>1, <1>2
<1>4. QED
  BY <1>3 DEF PerSocket!vars

(* Every step of the boss and of a worker is a step of SocketJobs, or none.*)
LEMMA RefineStep == OrderInv /\ [Next]_vars => [PerSocket!Next]_(PerSocket!vars)
<1> SUFFICES ASSUME OrderInv, [Next]_vars PROVE PerSocket!Next \/ UNCHANGED PerSocket!vars
  OBVIOUS
<1>0. TypeOK
  BY DEF OrderInv
<1>1. ASSUME NEW fd \in Fds, PushJob(fd) PROVE PerSocket!Next
  BY <1>1, PushArrives DEF PerSocket!Next
<1>2. ASSUME NEW w \in Workers, PopJob(w) PROVE PerSocket!Next
  BY <1>2, PopBegins DEF PerSocket!Next
<1>3. ASSUME NEW w \in Workers, ProcessData(w) PROVE PerSocket!Next
  BY <1>3, ProcessFinishes DEF PerSocket!Next
<1>4. ASSUME NEW w \in Workers, SemWait(w) \/ TestExit(w) PROVE UNCHANGED PerSocket!vars
  <2>1. /\ jobs' = jobs /\ cur' = cur /\ received' = received
        /\ \A v \in Workers : wpc'[v] = "work" <=> wpc[v] = "work"
    BY <1>0, <1>4 DEF SemWait, TestExit, bossVars, TypeOK
  <2>2. QED
    BY <1>0, <2>1, OthersStutter
<1>5. CASE PostJob \/ RequestExit \/ LoopEnds \/ SetExitFlag \/ PostExit \/ Join \/ Ended \/ UNCHANGED vars
  <2>1. jobs' = jobs /\ cur' = cur /\ received' = received /\ wpc' = wpc
    BY <1>5 DEF PostJob, RequestExit, LoopEnds, SetExitFlag, PostExit, Join, Ended, vars
  <2>2. QED
    BY <1>0, <2>1, OthersStutter
<1>6. QED
  BY <1>1, <1>2, <1>3, <1>4, <1>5 DEF Next, Boss, Worker

(* The hand-over implements SocketJobs, for every number of threads: the   *)
(* data of a socket is processed in the order it was received, one buffer  *)
(* at a time, nothing skipped.                                             *)
THEOREM RefinesSocketJobs == Spec => PerSocketOrder
<1>1. Init => OrderInv
  <2>1. Init => HashInv /\ SerialInv
    BY DEF Init, HashInv, SerialInv
  <2>2. QED
    BY <2>1, WakeInit DEF OrderInv, WakeInv
<1>2. Init => PerSocket!Init
  <2> SUFFICES ASSUME Init PROVE PerSocket!Init
    OBVIOUS
  <2>1. ASSUME NEW fd \in Fds PROVE Waiting(fd) = {} /\ Active(fd) = {}
    <3>1. fd % ThreadNum \in Workers
      BY ThreadNumAssumption, FdsAssumption DEF Workers
    <3>2. jobs[fd % ThreadNum] = <<>> /\ \A v \in Workers : wpc[v] # "work"
      BY <3>1 DEF Init
    <3>3. 1 .. Len(jobs[fd % ThreadNum]) = {}
      BY <3>2
    <3>4. QED
      BY <3>2, <3>3 DEF Waiting, Active
  <2>2. QED
    BY <2>1 DEF Init, PerSocket!Init
<1>3. OrderInv /\ [Next]_vars => OrderInv'
  BY TypeStep, WakeStep, HashStep, SerialStep DEF OrderInv
<1>4. QED
  BY <1>1, <1>2, <1>3, RefineStep, PTL DEF Spec, PerSocketOrder, PerSocket!Spec
=============================================================================
