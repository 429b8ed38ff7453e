---------------------------- MODULE OutQueueProofs ----------------------------
(***************************************************************************)
(* Proofs about OutQueue for every finite set of worker threads, every     *)
(* number of buffers and every size of the socket pair.                    *)
(***************************************************************************)
EXTENDS OutQueue, FiniteSetTheorems, TLAPS

(* Every step keeps the variables in their types.                          *)
LEMMA TypeStep == TypeOK /\ [Next]_vars => TypeOK'
<1> SUFFICES ASSUME TypeOK, [Next]_vars PROVE TypeOK'
  OBVIOUS
<1> USE MaxSendsAssumption, CapacityAssumption DEF IntSize
<1>1. ASSUME NEW s \in Senders, DataSend(s) PROVE TypeOK'
  BY <1>1 DEF DataSend, Push, TypeOK
<1>2. ASSUME NEW s \in Senders, MsgSend(s) PROVE TypeOK'
  BY <1>2 DEF MsgSend, TypeOK
<1>3. ASSUME NEW s \in Senders, MsgSendFails(s) PROVE TypeOK'
  BY <1>3 DEF MsgSendFails, TypeOK
<1>4. CASE ReadPad
  BY <1>4 DEF ReadPad, TypeOK
<1>5. CASE ReadFlag
  <2>1. bufs # <<>> => Tail(bufs) \in Seq(1 .. MaxSends)
    BY DEF TypeOK
  <2>2. bufs' \in Seq(1 .. MaxSends)
    BY <1>5, <2>1 DEF ReadFlag, Pop, TypeOK
  <2>3. QED
    BY <1>5, <2>2 DEF ReadFlag, Pop, TypeOK
<1>6. CASE LoopEnds
  BY <1>6 DEF LoopEnds, TypeOK
<1>7. CASE UNCHANGED vars
  BY <1>7 DEF vars, TypeOK
<1>8. ASSUME NEW s \in Senders, MsgCall(s) PROVE TypeOK'
  BY <1>8 DEF MsgCall, TypeOK
<1>9. QED
  BY <1>1, <1>2, <1>3, <1>4, <1>5, <1>6, <1>7, <1>8 DEF Next

(* Type correctness of the queue and its socket pair.                      *)
THEOREM TypeCorrect == Spec => []TypeOK
<1>1. Init => TypeOK
  <2> SUFFICES ASSUME Init PROVE TypeOK
    OBVIOUS
  <2>1. bufs \in Seq(1 .. MaxSends)
    BY DEF Init
  <2>2. pc \in [Senders -> {"idle", "send", "wait"}]
    BY DEF Init
  <2>3. flags \in Nat /\ pad \in 0 .. IntSize - 1 /\ lost \in Nat /\ sent \in 0 .. MaxSends
    BY MaxSendsAssumption DEF Init, IntSize
  <2>4. dead \in BOOLEAN /\ loop \in BOOLEAN
    BY DEF Init
  <2>5. QED
    BY <2>1, <2>2, <2>3, <2>4 DEF TypeOK
<1>2. QED
  BY <1>1, TypeStep, PTL DEF Spec

-----------------------------------------------------------------------------
(* The workers with a flag still to write are finitely many.               *)
LEMMA PendingFinite == IsFiniteSet(Pending) /\ Cardinality(Pending) \in Nat
<1>1. Pending \subseteq Senders
  BY DEF Pending
<1>2. QED
  BY <1>1, SendersAssumption, FS_Subset, FS_CardinalityType

(* One worker starts a data_send: one more flag is owed.                   *)
LEMMA PendingGrows ==
  ASSUME TypeOK, NEW s \in Senders, pc[s] = "idle",
         pc' = [pc EXCEPT ![s] = "send"]
  PROVE  Cardinality(Pending') = Cardinality(Pending) + 1
<1>1. Pending' = Pending \cup {s} /\ s \notin Pending
  BY DEF Pending, TypeOK
<1>2. QED
  BY <1>1, PendingFinite, FS_AddElement

(* One worker is through with msg_send: one flag less is owed.             *)
LEMMA PendingShrinks ==
  ASSUME TypeOK, NEW s \in Senders, pc[s] # "idle",
         pc' = [pc EXCEPT ![s] = "idle"]
  PROVE  Cardinality(Pending') = Cardinality(Pending) - 1
<1>1. Pending' = Pending \ {s} /\ s \in Pending
  BY DEF Pending, TypeOK
<1>2. QED
  BY <1>1, PendingFinite, FS_RemoveElement

(* A worker inside send() still owes its flag.                             *)
LEMMA PendingStays ==
  ASSUME TypeOK, NEW s \in Senders, pc[s] = "send",
         pc' = [pc EXCEPT ![s] = "wait"]
  PROVE  Pending' = Pending
BY DEF Pending, TypeOK

(* The balance gives every flag its buffer.                                *)
LEMMA BalanceGivesBuffer == TypeOK /\ FlagsMatchBuffers => FlagFindsBuffer
<1> SUFFICES ASSUME TypeOK, FlagsMatchBuffers, flags > 0 PROVE bufs # <<>>
  BY DEF FlagFindsBuffer
<1>1. Len(bufs) > 0
  BY PendingFinite DEF FlagsMatchBuffers, TypeOK
<1>2. QED
  BY <1>1

(* Every step keeps one flag, owed, written or lost, per queued buffer.    *)
LEMMA BalanceStep ==
  TypeOK /\ FlagsMatchBuffers /\ [Next]_vars => FlagsMatchBuffers'
<1> SUFFICES ASSUME TypeOK, FlagsMatchBuffers, [Next]_vars
             PROVE  FlagsMatchBuffers'
  OBVIOUS
<1> DEFINE n == Cardinality(Pending)
<1>0. /\ n \in Nat /\ Len(bufs) \in Nat /\ flags \in Nat /\ lost \in Nat
      /\ bufs \in Seq(1 .. MaxSends)
      /\ Len(bufs) = flags + n + lost
  BY PendingFinite DEF TypeOK, FlagsMatchBuffers
<1>1. ASSUME NEW s \in Senders, DataSend(s) PROVE FlagsMatchBuffers'
  <2>1. Cardinality(Pending') = n + 1
    BY <1>1, PendingGrows DEF DataSend, Push
  <2>2. Len(bufs') = Len(bufs) + 1 /\ flags' = flags /\ lost' = lost
    <3>1. sent + 1 \in 1 .. MaxSends
      BY <1>1, MaxSendsAssumption DEF DataSend, Push, TypeOK
    <3>2. bufs' = Append(bufs, sent + 1) /\ flags' = flags /\ lost' = lost
      BY <1>1 DEF DataSend, Push
    <3>3. Len(Append(bufs, sent + 1)) = Len(bufs) + 1
      BY <1>0, <3>1
    <3>4. QED
      BY <3>2, <3>3
  <2>3. QED
    BY <1>0, <2>1, <2>2 DEF FlagsMatchBuffers
<1>2. ASSUME NEW s \in Senders, MsgSend(s) PROVE FlagsMatchBuffers'
  <2>1. Cardinality(Pending') = n - 1
    BY <1>2, PendingShrinks DEF MsgSend
  <2>2. bufs' = bufs /\ flags' = flags + 1 /\ lost' = lost
    BY <1>2 DEF MsgSend
  <2>3. QED
    BY <1>0, <2>1, <2>2 DEF FlagsMatchBuffers
<1>3. ASSUME NEW s \in Senders, MsgSendFails(s) PROVE FlagsMatchBuffers'
  <2>1. Cardinality(Pending') = n - 1
    BY <1>3, PendingShrinks DEF MsgSendFails
  <2>2. bufs' = bufs /\ flags' = flags /\ lost' = lost + 1
    BY <1>3 DEF MsgSendFails
  <2>3. QED
    BY <1>0, <2>1, <2>2 DEF FlagsMatchBuffers
<1>4. CASE ReadFlag
  <2>1. bufs # <<>>
    BY <1>4, BalanceGivesBuffer DEF ReadFlag, Pop, FlagFindsBuffer
  <2>2. Len(bufs') = Len(bufs) - 1 /\ flags' = flags - 1 /\ lost' = lost
    BY <1>0, <1>4, <2>1 DEF ReadFlag, Pop
  <2>3. Cardinality(Pending') = n
    BY <1>4 DEF ReadFlag, Pop, Pending
  <2>4. QED
    BY <1>0, <2>2, <2>3 DEF FlagsMatchBuffers
<1>5. CASE ReadPad \/ LoopEnds \/ UNCHANGED vars
  BY <1>5 DEF ReadPad, LoopEnds, vars, FlagsMatchBuffers, Pending
<1>6. ASSUME NEW s \in Senders, MsgCall(s) PROVE FlagsMatchBuffers'
  <2>1. bufs' = bufs /\ flags' = flags
    BY <1>6 DEF MsgCall
  <2>2. CASE dead
    <3>1. Cardinality(Pending') = n - 1 /\ lost' = lost + 1
      BY <1>6, <2>2, PendingShrinks DEF MsgCall
    <3>2. QED
      BY <1>0, <2>1, <3>1 DEF FlagsMatchBuffers
  <2>3. CASE ~dead
    <3>1. Pending' = Pending /\ lost' = lost
      BY <1>6, <2>3, PendingStays DEF MsgCall
    <3>2. QED
      BY <1>0, <2>1, <3>1 DEF FlagsMatchBuffers
  <2>4. QED
    BY <2>2, <2>3
<1>7. QED
  BY <1>1, <1>2, <1>3, <1>4, <1>5, <1>6 DEF Next

(* However many workers send at once: buffers and flags stay in step, and  *)
(* queue_receive never finds the queue empty.                              *)
THEOREM FlagsCorrect == Spec => [](FlagsMatchBuffers /\ FlagFindsBuffer)
<1>1. Init => FlagsMatchBuffers
  <2> SUFFICES ASSUME Init PROVE FlagsMatchBuffers
    OBVIOUS
  <2>1. Pending = {}
    BY DEF Init, Pending
  <2>2. QED
    BY <2>1, FS_EmptySet DEF Init, FlagsMatchBuffers
<1>2. QED
  BY <1>1, TypeCorrect, BalanceStep, BalanceGivesBuffer, PTL DEF Spec
=============================================================================
