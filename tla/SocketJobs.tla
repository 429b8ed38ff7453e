------------------------------ MODULE SocketJobs ------------------------------
(***************************************************************************)
(* What the boss/worker hand-over promises for each socket, whatever the   *)
(* number of threads: the data received on a socket is processed in the    *)
(* order it was received, one buffer at a time, nothing skipped.  A buffer *)
(* is its serial number, so the first one received is the least.           *)
(***************************************************************************)
EXTENDS Naturals

CONSTANTS Fds, MaxJobs

VARIABLES
  waiting,   (* per socket, the set of buffers received and not taken up  *)
  active,    (* per socket, the set of buffers being processed             *)
  arrived    (* the number of buffers received so far                      *)

vars == <<waiting, active, arrived>>

Init ==
  /\ waiting = [fd \in Fds |-> {}]
  /\ active = [fd \in Fds |-> {}]
  /\ arrived = 0

Arrive(fd) ==
  /\ arrived < MaxJobs
  /\ arrived' = arrived + 1
  /\ waiting' = [waiting EXCEPT ![fd] = @ \cup {arrived + 1}]
  /\ UNCHANGED active

Begin(fd) ==
  /\ active[fd] = {}
  /\ \E n \in waiting[fd] :
       /\ \A m \in waiting[fd] : n <= m
       /\ active' = [active EXCEPT ![fd] = {n}]
       /\ waiting' = [waiting EXCEPT ![fd] = @ \ {n}]
  /\ UNCHANGED arrived

Finish(fd) ==
  /\ active[fd] # {}
  /\ active' = [active EXCEPT ![fd] = {}]
  /\ UNCHANGED <<waiting, arrived>>

Next == \E fd \in Fds : Arrive(fd) \/ Begin(fd) \/ Finish(fd)

Spec == Init /\ [][Next]_vars
=============================================================================
