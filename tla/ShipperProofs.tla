---------------------------- MODULE ShipperProofs ----------------------------
(***************************************************************************)
(* Theorems about Shipper, for every queue depth, number of retries,       *)
(* requests and batches, and every interleaving of the two threads.        *)
(***************************************************************************)
EXTENDS Shipper, SequenceFacts, FiniteSetTheorems

-----------------------------------------------------------------------------
(* The inductive invariant.                                                *)

\* Where the shipper thread is, coarsely.
Sending  == {"encode", "head", "check", "post", "sleep", "outcome"}
Settling == {"release", "notice"}
Alive    == ShipperPcs \ {"none", "exited", "panicked"}
Serving  == {"idle", "request", "rshutdown"}
Leaving  == {"sending_drain", "joining", "joined", "down"}

\* The life of the channel's two ends and of the thread follows the request
\* thread's: who holds what in which phase.
LifeInv ==
    /\ receiver = "none" <=> php_pc = "unloaded"
    /\ receiver = "shipper" <=> shipper_pc \in Alive
    /\ receiver = "dropped" <=> spawn_failed \/ shipper_pc \in {"exited", "panicked"}
    /\ spawned <=> shipper_pc # "none"
    /\ spawn_failed => ~spawned
    /\ php_pc \in {"request", "rshutdown"} => request # 0
    /\ request # 0 => spawned \/ spawn_failed
    /\ sender <=> php_pc \in Serving /\ ~spawn_failed
    /\ handle <=> spawned /\ php_pc \notin {"joined", "down"}
    /\ php_pc \in {"joined", "down"} => shipper_pc \in {"none", "exited", "panicked"}
    /\ shipper_pc \in {"timed_out", "exited"} => php_pc \in Leaving
    /\ spawn_failed => "spawn" \in Faults
    /\ shipper_pc = "panicked" => "panic" \in Faults

\* A deadline is known to the thread only after it was published.
DeadlineInv ==
    /\ drain_deadline => php_pc \in Leaving
    /\ php_pc \in {"sending_drain", "joining"} => drain_deadline
    /\ deadline_passed \/ local_deadline \/ seen_deadline => drain_deadline
    /\ shipper_pc \in {"drain", "timed_out"} => local_deadline

\* The thread's registers.
ThreadInv ==
    /\ batch # 0 <=> shipper_pc \in Sending \cup Settling
    /\ outcome # "none" <=> shipper_pc \in {"outcome", "release", "notice"}
    /\ shipper_pc = "sleep" => attempt < RetryCount
    /\ refused # 0 => php_pc \in {"request", "rshutdown"} /\ refused = Len(flushed)
    /\ request = 0 => flushed = <<>>

\* The channel holds exactly the queued batches, in order, and Drain only
\* after MSHUTDOWN has published its deadline; none is left when a wait times
\* out, and nothing at all when there is no receiver.
QueueInv ==
    /\ \A k \in DOMAIN queue : queue[k] = DRAIN => drain_deadline
    /\ \A k \in DOMAIN queue : queue[k] # DRAIN => fate[queue[k]] = "queued"
    /\ \A i \in Numbers : fate[i] = "queued" => \E k \in DOMAIN queue : queue[k] = i
    /\ \A k, l \in DOMAIN queue :
            k < l /\ queue[k] # DRAIN /\ queue[l] # DRAIN => queue[k] < queue[l]
    /\ shipper_pc = "timed_out" => \A k \in DOMAIN queue : queue[k] = DRAIN
    /\ receiver = "dropped" => queue = <<>>

\* What became of a batch says who holds it.
FateInv ==
    /\ \A i \in Numbers : fate[i] = "refusing" <=> i = refused
    /\ \A i \in Numbers : fate[i] = "in_flight" <=> i = batch /\ shipper_pc \in Sending
    /\ shipper_pc \in Settling =>
            fate[batch] = IF outcome = "dropped" THEN "given_up" ELSE "delivered"
    /\ \A i \in Numbers : fate[i] = "no_sender" => spawn_failed
    /\ \A i \in Numbers : fate[i] \in {"disconnected", "lost_in_panic"} => shipper_pc = "panicked"
    /\ \A i \in Numbers : fate[i] # "abandoned"
    /\ abandoned = 0

\* Batches are consumed in the order they were flushed.
Consumed == {"in_flight", "delivered", "given_up"}
OrderInv ==
    /\ \A i, j \in Numbers : fate[i] \in Consumed /\ fate[j] = "queued" => i < j
    /\ \A i \in Numbers : fate[i] \in Consumed /\ batch # 0 => i <= batch

\* After the POST that the deadline caught, the thread has seen the deadline
\* before it can come to the next one.
LateInv ==
    /\ late_posts <= 1
    /\ late_posts = 1 => deadline_passed /\ shipper_pc # "post"
    /\ late_posts = 1 /\ shipper_pc = "check" => seen_deadline

\* The drop counter of a trace holds the records of its dropped batches, and
\* an encoded batch carries what the counter held for the batches before it.
DroppedOf(r) == {i \in Numbers : flushed[i].trace = r /\ fate[i] \in {"refused", "given_up"}}
Stamped == {j \in Numbers : \/ fate[j] = "delivered"
                            \/ j = batch /\ shipper_pc \in {"head", "check", "post", "sleep"}
                            \/ j = batch /\ shipper_pc = "outcome" /\ outcome = "sent"}
CountInv ==
    /\ \A r \in Requests : drop_counter[r] = RecordsIn(DroppedOf(r))
    /\ \A j \in Stamped :
            stamp[j] >= RecordsIn({i \in DroppedOf(flushed[j].trace) : i < j})

IInv ==
    /\ TypeOK
    /\ LifeInv /\ DeadlineInv /\ ThreadInv /\ QueueInv /\ FateInv /\ OrderInv
    /\ LateInv /\ NoticesExact
    /\ CountInv /\ BudgetExact


-----------------------------------------------------------------------------
(* The shape of the steps that several proofs need.                        *)

Batches == [trace : Requests, records : RecordCounts]

\* A batch enters the history at its end.
LEMMA RecordShape ==
    ASSUME HistoryTypeOK, request \in Requests,
           NEW n \in RecordCounts, NEW what \in Fates, Record(n, what)
    PROVE  /\ HistoryTypeOK'
           /\ Len(flushed') = Len(flushed) + 1
           /\ flushed'[Len(flushed) + 1] = [trace |-> request, records |-> n]
           /\ fate'[Len(flushed) + 1] = what /\ stamp'[Len(flushed) + 1] = 0
           /\ \A i \in 1..Len(flushed) : /\ flushed'[i] = flushed[i]
                                         /\ fate'[i] = fate[i] /\ stamp'[i] = stamp[i]
<1> DEFINE b == [trace |-> request, records |-> n]
<1>1. b \in Batches
  BY DEF Batches
<1>2. flushed \in Seq(Batches) /\ fate \in Seq(Fates) /\ stamp \in Seq(Nat)
  BY DEF HistoryTypeOK, Batches
<1>3. flushed' = Append(flushed, b) /\ fate' = Append(fate, what) /\ stamp' = Append(stamp, 0)
  BY DEF Record
<1> HIDE DEF b
<1>4. /\ flushed' \in Seq(Batches) /\ Len(flushed') = Len(flushed) + 1
      /\ flushed'[Len(flushed) + 1] = b
      /\ \A i \in 1..Len(flushed) : flushed'[i] = flushed[i]
  BY <1>1, <1>2, <1>3, AppendProperties
<1>5. /\ fate' \in Seq(Fates) /\ Len(fate') = Len(flushed) + 1
      /\ fate'[Len(flushed) + 1] = what
      /\ \A i \in 1..Len(flushed) : fate'[i] = fate[i]
  BY <1>2, <1>3, AppendProperties DEF HistoryTypeOK
<1>6. /\ stamp' \in Seq(Nat) /\ Len(stamp') = Len(flushed) + 1
      /\ stamp'[Len(flushed) + 1] = 0
      /\ \A i \in 1..Len(flushed) : stamp'[i] = stamp[i]
  BY <1>2, <1>3, AppendProperties DEF HistoryTypeOK
<1> QED BY <1>4, <1>5, <1>6 DEF HistoryTypeOK, Batches, b

\* Numbers is an interval.
LEMMA NumbersAre ==
    ASSUME HistoryTypeOK
    PROVE  Numbers = 1..Len(flushed) /\ DOMAIN fate = 1..Len(flushed) /\ Len(flushed) \in Nat
BY LenProperties DEF HistoryTypeOK, Numbers

\* What the history says of a batch.
LEMMA BatchTyped ==
    ASSUME HistoryTypeOK, NEW i \in Numbers
    PROVE  /\ flushed[i].trace \in Requests /\ flushed[i].records \in Nat
           /\ fate[i] \in Fates /\ stamp[i] \in Nat
<1>1. flushed[i] \in Batches
  BY NumbersAre, ElementOfSeq DEF HistoryTypeOK, Batches
<1>2. fate[i] \in Fates /\ stamp[i] \in Nat
  BY NumbersAre, ElementOfSeq DEF HistoryTypeOK
<1> QED BY <1>1, <1>2, ConfigAssumption DEF Batches, ConfigAssumption

\* Overwriting the fate of one batch.
LEMMA FateExcept ==
    ASSUME HistoryTypeOK, UNCHANGED <<flushed, stamp>>, NEW k \in Numbers, NEW what \in Fates,
           fate' = [fate EXCEPT ![k] = what]
    PROVE  /\ HistoryTypeOK'
           /\ fate'[k] = what /\ \A i \in Numbers : i # k => fate'[i] = fate[i]
<1>1. fate' \in Seq(Fates) /\ Len(fate') = Len(fate)
  BY ExceptProperties DEF HistoryTypeOK
<1>2. fate'[k] = what /\ \A i \in Numbers : i # k => fate'[i] = fate[i]
  BY NumbersAre
<1> QED BY <1>1, <1>2 DEF HistoryTypeOK

\* Taking the head of the channel.
LEMMA TailShape ==
    ASSUME NEW S, NEW q \in Seq(S), q # <<>>
    PROVE  /\ Head(q) \in S /\ Head(q) = q[1] /\ 1 \in DOMAIN q
           /\ Tail(q) \in Seq(S) /\ Len(Tail(q)) = Len(q) - 1
           /\ DOMAIN Tail(q) = 1..(Len(q) - 1)
           /\ \A k \in DOMAIN Tail(q) : k + 1 \in DOMAIN q /\ Tail(q)[k] = q[k + 1]
           /\ \A k \in DOMAIN q : k # 1 => k - 1 \in DOMAIN Tail(q)
<1>1. /\ Head(q) \in S /\ Head(q) = q[1] /\ Tail(q) \in Seq(S) /\ Len(Tail(q)) = Len(q) - 1
      /\ \A k \in 1..Len(Tail(q)) : Tail(q)[k] = q[k + 1]
  BY HeadTailProperties
<1>2. Len(q) \in Nat /\ Len(q) > 0 /\ DOMAIN q = 1..Len(q)
  BY EmptySeq, LenProperties
<1>3. DOMAIN Tail(q) = 1..(Len(q) - 1)
  BY <1>1, LenProperties
<1> QED BY <1>1, <1>2, <1>3

\* Each action keeps the flags Boolean.
LEMMA FlagsStep ==
    ASSUME FlagsTypeOK, [Next]_vars
    PROVE  FlagsTypeOK'
<1> USE DEF FlagsTypeOK
<1>1. CASE InstallChannel
  BY <1>1
     DEF InstallChannel, lifecycle_vars, deadline_vars, thread_vars
<1>2. CASE RInitNoSpawn
  BY <1>2
     DEF RInitNoSpawn, StartRequest, lifecycle_vars, deadline_vars, thread_vars
<1>3. CASE RInitSpawns
  BY <1>3
     DEF RInitSpawns, StartRequest, lifecycle_vars, deadline_vars, thread_vars
<1>4. CASE RInitSpawnFails
  BY <1>4
     DEF RInitSpawnFails, StartRequest, lifecycle_vars, deadline_vars, thread_vars
<1>5. CASE Flush
  BY <1>5
     DEF Flush, TrySendBatch, Record, lifecycle_vars, deadline_vars, thread_vars
<1>6. CASE DiscardRefused
  BY <1>6
     DEF DiscardRefused, CountDropped, lifecycle_vars, deadline_vars, thread_vars
<1>7. CASE RShutdownRelease
  BY <1>7
     DEF RShutdownRelease, TrySendBatch, Record, lifecycle_vars, deadline_vars, thread_vars
<1>8. CASE RShutdownNotices
  BY <1>8
     DEF RShutdownNotices, EmitNotices, lifecycle_vars, deadline_vars, thread_vars
<1>9. CASE MShutdown
  BY <1>9
     DEF MShutdown, lifecycle_vars, deadline_vars, thread_vars
<1>10. CASE DeadlinePasses
  BY <1>10
     DEF DeadlinePasses, lifecycle_vars, deadline_vars, thread_vars
<1>11. CASE SendDrain
  BY <1>11
     DEF SendDrain, lifecycle_vars, deadline_vars, thread_vars
<1>12. CASE Join
  BY <1>12
     DEF Join, lifecycle_vars, deadline_vars, thread_vars
<1>13. CASE MShutdownNotices
  BY <1>13
     DEF MShutdownNotices, EmitNotices, lifecycle_vars, deadline_vars, thread_vars
<1>14. CASE LoopHead
  BY <1>14
     DEF LoopHead, lifecycle_vars, deadline_vars, thread_vars
<1>15. CASE ReceiveBatch
  BY <1>15
     DEF ReceiveBatch, lifecycle_vars, deadline_vars, thread_vars
<1>16. CASE ReceiveDrain
  BY <1>16
     DEF ReceiveDrain, lifecycle_vars, deadline_vars, thread_vars
<1>17. CASE ChannelClosed
  BY <1>17
     DEF ChannelClosed, Exits, lifecycle_vars, deadline_vars, thread_vars
<1>18. CASE RecvTimesOut
  BY <1>18
     DEF RecvTimesOut, lifecycle_vars, deadline_vars, thread_vars
<1>19. CASE SweepResidual
  BY <1>19
     DEF SweepResidual, Exits, lifecycle_vars, deadline_vars, thread_vars
<1>20. CASE Encode
  BY <1>20
     DEF Encode, ConsumeStep, Drops, lifecycle_vars, deadline_vars, thread_vars
<1>21. CASE SnapshotDeadline
  BY <1>21
     DEF SnapshotDeadline, ConsumeStep, lifecycle_vars, deadline_vars, thread_vars
<1>22. CASE CheckDeadline
  BY <1>22
     DEF CheckDeadline, ConsumeStep, Drops, lifecycle_vars, deadline_vars, thread_vars
<1>23. CASE Post
  BY <1>23
     DEF Post, ConsumeStep, Drops, lifecycle_vars, deadline_vars, thread_vars
<1>24. CASE Wake
  BY <1>24
     DEF Wake, ConsumeStep, lifecycle_vars, deadline_vars, thread_vars
<1>25. CASE BumpDropCounterOnDrop
  BY <1>25
     DEF BumpDropCounterOnDrop, ConsumeStep, CountDropped, lifecycle_vars, deadline_vars,
         thread_vars
<1>26. CASE Release
  BY <1>26
     DEF Release, ConsumeStep, lifecycle_vars, deadline_vars, thread_vars
<1>27. CASE PushNotice
  BY <1>27
     DEF PushNotice, ConsumeStep, lifecycle_vars, deadline_vars, thread_vars
<1>28. CASE Panic
  BY <1>28
     DEF Panic, lifecycle_vars, deadline_vars, thread_vars
<1>29. CASE UNCHANGED vars
  BY <1>29 DEF vars, lifecycle_vars, deadline_vars, thread_vars
<1> QED
  BY <1>1, <1>2, <1>3, <1>4, <1>5, <1>6, <1>7, <1>8, <1>9, <1>10, <1>11, <1>12, <1>13, <1>14,
     <1>15, <1>16, <1>17, <1>18, <1>19, <1>20, <1>21, <1>22, <1>23, <1>24, <1>25, <1>26, <1>27,
     <1>28, <1>29
     DEF Next, Requesting, RInit, ShuttingDown, Receiving, Consuming, Terminated

\* Each action keeps the program counters and registers in range.
LEMMA ControlStep ==
    ASSUME FlagsTypeOK, ControlTypeOK, HistoryTypeOK, ChannelTypeOK, ThreadInv, QueueInv, [Next]_vars
    PROVE  ControlTypeOK'
<1> USE DEF ControlTypeOK, PhpPcs, ShipperPcs, Receivers, Outcomes
<1>1. CASE InstallChannel
  BY <1>1
     DEF InstallChannel, lifecycle_vars, thread_vars, server_vars
<1>2. CASE RInitNoSpawn
  BY <1>2, ConfigAssumption
     DEF RInitNoSpawn, StartRequest, lifecycle_vars, thread_vars, server_vars
<1>3. CASE RInitSpawns
  BY <1>3, ConfigAssumption
     DEF RInitSpawns, StartRequest, lifecycle_vars, thread_vars, server_vars
<1>4. CASE RInitSpawnFails
  BY <1>4, ConfigAssumption
     DEF RInitSpawnFails, StartRequest, lifecycle_vars, thread_vars, server_vars
<1>5. CASE Flush
  BY <1>5
     DEF Flush, TrySendBatch, Record, lifecycle_vars, thread_vars, server_vars
<1>6. CASE DiscardRefused
  BY <1>6
     DEF DiscardRefused, CountDropped, lifecycle_vars, thread_vars, server_vars
<1>7. CASE RShutdownRelease
  BY <1>7, ZenonT(60)
     DEF RShutdownRelease, TrySendBatch, Record, lifecycle_vars, thread_vars, server_vars
<1>8. CASE RShutdownNotices
  BY <1>8
     DEF RShutdownNotices, EmitNotices, lifecycle_vars, thread_vars, server_vars
<1>9. CASE MShutdown
  BY <1>9
     DEF MShutdown, lifecycle_vars, thread_vars, server_vars
<1>10. CASE DeadlinePasses
  BY <1>10
     DEF DeadlinePasses, lifecycle_vars, thread_vars, server_vars
<1>11. CASE SendDrain
  BY <1>11
     DEF SendDrain, lifecycle_vars, thread_vars, server_vars
<1>12. CASE Join
  BY <1>12
     DEF Join, lifecycle_vars, thread_vars, server_vars
<1>13. CASE MShutdownNotices
  BY <1>13
     DEF MShutdownNotices, EmitNotices, lifecycle_vars, thread_vars, server_vars
<1>14. CASE LoopHead
  BY <1>14
     DEF LoopHead, lifecycle_vars, thread_vars, server_vars
<1>15. CASE ReceiveBatch
  BY <1>15
     DEF ReceiveBatch, lifecycle_vars, thread_vars, server_vars
<1>16. CASE ReceiveDrain
  BY <1>16
     DEF ReceiveDrain, lifecycle_vars, thread_vars, server_vars
<1>17. CASE ChannelClosed
  BY <1>17
     DEF ChannelClosed, Exits, lifecycle_vars, thread_vars, server_vars
<1>18. CASE RecvTimesOut
  BY <1>18
     DEF RecvTimesOut, lifecycle_vars, thread_vars, server_vars
<1>19. CASE SweepResidual
  <2>1. ToSet(queue) \ {DRAIN} = {}
    BY <1>19 DEF SweepResidual, QueueInv, ToSet
  <2>2. abandoned' = 0
    BY <1>19, <2>1, FS_EmptySet DEF SweepResidual
  <2> QED BY <1>19, <2>2 DEF SweepResidual, Exits
<1>20. CASE Encode
  BY <1>20, ConfigAssumption
     DEF Encode, ConsumeStep, Drops, lifecycle_vars, thread_vars, server_vars
<1>21. CASE SnapshotDeadline
  BY <1>21
     DEF SnapshotDeadline, ConsumeStep, lifecycle_vars, thread_vars, server_vars
<1>22. CASE CheckDeadline
  BY <1>22
     DEF CheckDeadline, ConsumeStep, Drops, lifecycle_vars, thread_vars, server_vars
<1>23. CASE Post
  BY <1>23
     DEF Post, ConsumeStep, Drops, lifecycle_vars, thread_vars, server_vars
<1>24. CASE Wake
  BY <1>24, ConfigAssumption
     DEF Wake, ConsumeStep, lifecycle_vars, thread_vars, server_vars, ThreadInv
<1>25. CASE BumpDropCounterOnDrop
  BY <1>25
     DEF BumpDropCounterOnDrop, ConsumeStep, CountDropped, lifecycle_vars, thread_vars,
         server_vars
<1>26. CASE Release
  BY <1>26
     DEF Release, ConsumeStep, lifecycle_vars, thread_vars, server_vars
<1>27. CASE PushNotice
  BY <1>27, ConfigAssumption
     DEF PushNotice, ConsumeStep, lifecycle_vars, thread_vars, server_vars
<1>28. CASE Panic
  BY <1>28
     DEF Panic, lifecycle_vars, thread_vars, server_vars
<1>29. CASE UNCHANGED vars
  BY <1>29 DEF vars, lifecycle_vars, thread_vars, server_vars
<1> QED
  BY <1>1, <1>2, <1>3, <1>4, <1>5, <1>6, <1>7, <1>8, <1>9, <1>10, <1>11, <1>12, <1>13, <1>14,
     <1>15, <1>16, <1>17, <1>18, <1>19, <1>20, <1>21, <1>22, <1>23, <1>24, <1>25, <1>26, <1>27,
     <1>28, <1>29
     DEF Next, Requesting, RInit, ShuttingDown, Receiving, Consuming, Terminated

\* A flush keeps the history well typed.
LEMMA FlushHistory ==
    ASSUME ControlTypeOK, HistoryTypeOK, LifeInv, Flush \/ RShutdownRelease
    PROVE  HistoryTypeOK'
<1>1. request \in Requests
  BY DEF Flush, RShutdownRelease, LifeInv, ControlTypeOK, Requests
<1>2. \/ \E n \in RecordCounts, what \in Fates : Record(n, what)
      \/ UNCHANGED <<flushed, fate, stamp>>
  BY DEF Flush, RShutdownRelease, TrySendBatch, Fates, channel_vars, server_vars
<1> QED BY <1>1, <1>2, RecordShape DEF HistoryTypeOK

\* Each action keeps the history well typed.
LEMMA HistoryStep ==
    ASSUME ControlTypeOK, HistoryTypeOK, ChannelTypeOK, CountTypeOK, LifeInv, ThreadInv, QueueInv, [Next]_vars
    PROVE  HistoryTypeOK'
<1>1. CASE InstallChannel
  BY <1>1
     DEF InstallChannel, lifecycle_vars, channel_vars, count_vars, thread_vars, server_vars,
         HistoryTypeOK
<1>2. CASE RInitNoSpawn
  BY <1>2
     DEF RInitNoSpawn, StartRequest, lifecycle_vars, channel_vars, count_vars, thread_vars,
         server_vars, HistoryTypeOK
<1>3. CASE RInitSpawns
  BY <1>3
     DEF RInitSpawns, StartRequest, lifecycle_vars, channel_vars, count_vars, thread_vars,
         server_vars, HistoryTypeOK
<1>4. CASE RInitSpawnFails
  BY <1>4
     DEF RInitSpawnFails, StartRequest, lifecycle_vars, channel_vars, count_vars, thread_vars,
         server_vars, HistoryTypeOK
<1>5. CASE Flush
  BY <1>5, FlushHistory
<1>6. CASE DiscardRefused
  BY <1>6, FateExcept DEF DiscardRefused, ChannelTypeOK, Fates
<1>7. CASE RShutdownRelease
  BY <1>7, FlushHistory
<1>8. CASE RShutdownNotices
  BY <1>8
     DEF RShutdownNotices, EmitNotices, lifecycle_vars, channel_vars, count_vars, thread_vars,
         server_vars, HistoryTypeOK
<1>9. CASE MShutdown
  BY <1>9
     DEF MShutdown, lifecycle_vars, channel_vars, count_vars, thread_vars, server_vars,
         HistoryTypeOK
<1>10. CASE DeadlinePasses
  BY <1>10
     DEF DeadlinePasses, lifecycle_vars, channel_vars, count_vars, thread_vars, server_vars,
         HistoryTypeOK
<1>11. CASE SendDrain
  BY <1>11
     DEF SendDrain, lifecycle_vars, channel_vars, count_vars, thread_vars, server_vars,
         HistoryTypeOK
<1>12. CASE Join
  BY <1>12
     DEF Join, lifecycle_vars, channel_vars, count_vars, thread_vars, server_vars,
         HistoryTypeOK
<1>13. CASE MShutdownNotices
  BY <1>13
     DEF MShutdownNotices, EmitNotices, lifecycle_vars, channel_vars, count_vars, thread_vars,
         server_vars, HistoryTypeOK
<1>14. CASE LoopHead
  BY <1>14
     DEF LoopHead, lifecycle_vars, channel_vars, count_vars, thread_vars, server_vars,
         HistoryTypeOK
<1>15. CASE ReceiveBatch
  <2>1. Head(queue) \in Numbers
    BY <1>15, TailShape DEF ReceiveBatch, ChannelTypeOK
  <2> QED BY <1>15, <2>1, FateExcept DEF ReceiveBatch, Fates
<1>16. CASE ReceiveDrain
  BY <1>16
     DEF ReceiveDrain, lifecycle_vars, channel_vars, count_vars, thread_vars, server_vars,
         HistoryTypeOK
<1>17. CASE ChannelClosed
  BY <1>17
     DEF ChannelClosed, Exits, lifecycle_vars, channel_vars, count_vars, thread_vars,
         server_vars, HistoryTypeOK
<1>18. CASE RecvTimesOut
  BY <1>18
     DEF RecvTimesOut, lifecycle_vars, channel_vars, count_vars, thread_vars, server_vars,
         HistoryTypeOK
<1>19. CASE SweepResidual
  <2>1. ToSet(queue) \ {DRAIN} = {}
    BY <1>19 DEF SweepResidual, QueueInv, ToSet
  <2>2. fate' = [i \in DOMAIN fate |-> fate[i]] /\ UNCHANGED <<flushed, stamp>>
    BY <1>19, <2>1 DEF SweepResidual, Exits
  <2> QED BY <2>2, NumbersAre DEF HistoryTypeOK
<1>20. CASE Encode
  <2>1. batch \in Numbers
    BY <1>20 DEF Encode, ConsumeStep, ThreadInv, Sending, ChannelTypeOK
  <2>2. flushed[batch].trace \in Requests
    BY <2>1, BatchTyped
  <2>3. drop_counter[flushed[batch].trace] \in Nat
    BY <2>2 DEF CountTypeOK
  <2>4. UNCHANGED <<flushed, fate>>
    BY <1>20 DEF Encode, ConsumeStep, channel_vars
  <2>5. \/ stamp' = [stamp EXCEPT ![batch] = drop_counter[flushed[batch].trace]]
        \/ stamp' = stamp
    BY <1>20 DEF Encode
  <2> QED BY <2>3, <2>4, <2>5, ExceptProperties DEF HistoryTypeOK
<1>21. CASE SnapshotDeadline
  BY <1>21
     DEF SnapshotDeadline, ConsumeStep, lifecycle_vars, channel_vars, count_vars, thread_vars,
         server_vars, HistoryTypeOK
<1>22. CASE CheckDeadline
  BY <1>22
     DEF CheckDeadline, ConsumeStep, Drops, lifecycle_vars, channel_vars, count_vars,
         thread_vars, server_vars, HistoryTypeOK
<1>23. CASE Post
  BY <1>23
     DEF Post, ConsumeStep, Drops, lifecycle_vars, channel_vars, count_vars, thread_vars,
         server_vars, HistoryTypeOK
<1>24. CASE Wake
  BY <1>24
     DEF Wake, ConsumeStep, lifecycle_vars, channel_vars, count_vars, thread_vars, server_vars,
         HistoryTypeOK
<1>25. CASE BumpDropCounterOnDrop
  <2>1. batch \in Numbers
    BY <1>25 DEF BumpDropCounterOnDrop, ConsumeStep, ThreadInv, Sending, ChannelTypeOK
  <2> QED BY <1>25, <2>1, FateExcept DEF BumpDropCounterOnDrop, ConsumeStep, channel_vars,
             Fates
<1>26. CASE Release
  BY <1>26
     DEF Release, ConsumeStep, lifecycle_vars, channel_vars, count_vars, thread_vars,
         server_vars, HistoryTypeOK
<1>27. CASE PushNotice
  BY <1>27
     DEF PushNotice, ConsumeStep, lifecycle_vars, channel_vars, count_vars, thread_vars,
         server_vars, HistoryTypeOK
<1>28. CASE Panic
  <2> DEFINE lost == [i \in DOMAIN fate |->
                        IF fate[i] \in {"queued", "in_flight"} THEN "lost_in_panic" ELSE fate[i]]
  <2>1. lost \in [1..Len(flushed) -> Fates]
    BY NumbersAre, ElementOfSeq DEF HistoryTypeOK, Fates
  <2>2. lost \in Seq(Fates) /\ Len(lost) = Len(flushed)
    BY <2>1, NumbersAre, FunctionIsSeq
  <2> HIDE DEF lost
  <2>3. fate' = lost /\ UNCHANGED <<flushed, stamp>>
    BY <1>28 DEF Panic, lost
  <2> QED BY <2>2, <2>3 DEF HistoryTypeOK
<1>29. CASE UNCHANGED vars
  BY <1>29 DEF vars, lifecycle_vars, channel_vars, count_vars, thread_vars, server_vars,
     HistoryTypeOK
<1> QED
  BY <1>1, <1>2, <1>3, <1>4, <1>5, <1>6, <1>7, <1>8, <1>9, <1>10, <1>11, <1>12, <1>13, <1>14,
     <1>15, <1>16, <1>17, <1>18, <1>19, <1>20, <1>21, <1>22, <1>23, <1>24, <1>25, <1>26, <1>27,
     <1>28, <1>29
     DEF Next, Requesting, RInit, ShuttingDown, Receiving, Consuming, Terminated

\* A larger set of values admits the same sequences.
LEMMA SeqOfMore ==
    ASSUME NEW S, NEW T, S \subseteq T, NEW q \in Seq(S)
    PROVE  q \in Seq(T)
<1>1. Len(q) \in Nat /\ q \in [1..Len(q) -> T]
  BY LenProperties, ElementOfSeq, IsASeq
<1> QED BY <1>1, SeqDef

\* A batch enters the history at the next number.
LEMMA FlushGrows ==
    ASSUME ControlTypeOK, HistoryTypeOK, LifeInv, Flush \/ RShutdownRelease
    PROVE  /\ request \in Requests
           /\ \/ UNCHANGED <<channel_vars, bytes_in_memory, server_vars>>
              \/ \E n \in RecordCounts : /\ TrySendBatch(n)
                                         /\ Numbers' = Numbers \cup {Len(flushed) + 1}
                                         /\ Len(flushed') = Len(flushed) + 1
<1>1. request \in Requests
  BY DEF Flush, RShutdownRelease, LifeInv, ControlTypeOK, Requests
<1>2. ASSUME NEW n \in RecordCounts, TrySendBatch(n)
      PROVE  Numbers' = Numbers \cup {Len(flushed) + 1} /\ Len(flushed') = Len(flushed) + 1
  <2>1. \E what \in Fates : Record(n, what)
    BY <1>2 DEF TrySendBatch, Fates
  <2>2. HistoryTypeOK' /\ Len(flushed') = Len(flushed) + 1
    BY <1>1, <2>1, RecordShape
  <2>3. Numbers' = 1..Len(flushed')
    BY <2>2, LenProperties DEF HistoryTypeOK, Numbers
  <2> QED BY <2>2, <2>3, NumbersAre
<1> QED BY <1>1, <1>2 DEF Flush, RShutdownRelease

\* A flush keeps the channel within its bound.
LEMMA FlushChannel ==
    ASSUME ControlTypeOK, HistoryTypeOK, ChannelTypeOK, LifeInv, Flush \/ RShutdownRelease
    PROVE  ChannelTypeOK'
<1>1. UNCHANGED <<batch, notices, emitted>>
  BY DEF Flush, RShutdownRelease, thread_vars, notice_vars
<1>2. CASE UNCHANGED <<channel_vars, bytes_in_memory, server_vars>>
  BY <1>1, <1>2 DEF ChannelTypeOK, channel_vars, Numbers
<1>3. ASSUME NEW n \in RecordCounts, TrySendBatch(n), Len(flushed') = Len(flushed) + 1,
             Numbers' = Numbers \cup {Len(flushed) + 1}
      PROVE  ChannelTypeOK'
  <2>1. batch' \in Numbers' \cup {0} /\ refused \in Numbers' \cup {0}
    BY <1>1, <1>3 DEF ChannelTypeOK
  <2>2. notices' \in Seq(Numbers') /\ emitted' \in Seq(Numbers')
    BY <1>1, <1>3, SeqOfMore DEF ChannelTypeOK
  <2>3. queue \in Seq(Numbers' \cup {DRAIN})
    BY <1>3, SeqOfMore DEF ChannelTypeOK
  <2>4. queue' \in Seq(Numbers' \cup {DRAIN}) /\ Len(queue') <= QueueDepth
    <3>1. CASE queue' = Append(queue, Len(flushed) + 1) /\ HasRoom
      BY <1>3, <2>3, <3>1, AppendProperties, LenProperties, ConfigAssumption
         DEF HasRoom, ConfigAssumption
    <3>2. CASE queue' = queue
      BY <2>3, <3>2 DEF ChannelTypeOK
    <3> QED BY <1>3, <3>1, <3>2 DEF TrySendBatch
  <2>5. refused' \in Numbers' \cup {0}
    BY <1>3, <2>1 DEF TrySendBatch
  <2> QED BY <2>1, <2>2, <2>4, <2>5 DEF ChannelTypeOK
<1> QED BY <1>2, <1>3, FlushGrows

\* Each action keeps the channel, and who holds a batch, well typed.
LEMMA ChannelStep ==
    ASSUME ControlTypeOK, HistoryTypeOK, ChannelTypeOK, LifeInv, ThreadInv, QueueInv, [Next]_vars
    PROVE  ChannelTypeOK'
<1> USE DEF Numbers, ChannelTypeOK
<1>1. CASE InstallChannel
  BY <1>1
     DEF InstallChannel, lifecycle_vars, channel_vars, thread_vars, notice_vars
<1>2. CASE RInitNoSpawn
  BY <1>2
     DEF RInitNoSpawn, StartRequest, lifecycle_vars, channel_vars, thread_vars, notice_vars
<1>3. CASE RInitSpawns
  BY <1>3
     DEF RInitSpawns, StartRequest, lifecycle_vars, channel_vars, thread_vars, notice_vars
<1>4. CASE RInitSpawnFails
  BY <1>4
     DEF RInitSpawnFails, StartRequest, lifecycle_vars, channel_vars, thread_vars, notice_vars
<1>5. CASE Flush
  BY <1>5, FlushChannel DEF Numbers, ChannelTypeOK
<1>6. CASE DiscardRefused
  BY <1>6
     DEF DiscardRefused, CountDropped, lifecycle_vars, channel_vars, thread_vars, notice_vars
<1>7. CASE RShutdownRelease
  BY <1>7, FlushChannel DEF Numbers, ChannelTypeOK
<1>8. CASE RShutdownNotices
  BY <1>8, EmptySeq, ConcatProperties DEF RShutdownNotices, EmitNotices, thread_vars,
     channel_vars
<1>9. CASE MShutdown
  BY <1>9
     DEF MShutdown, lifecycle_vars, channel_vars, thread_vars, notice_vars
<1>10. CASE DeadlinePasses
  BY <1>10
     DEF DeadlinePasses, lifecycle_vars, channel_vars, thread_vars, notice_vars
<1>11. CASE SendDrain
  <2>1. queue' \in Seq(Numbers \cup {DRAIN}) /\ Len(queue') <= QueueDepth
    <3>1. CASE queue' = Append(queue, DRAIN) /\ HasRoom
      BY <3>1, AppendProperties, LenProperties, ConfigAssumption DEF HasRoom, ConfigAssumption
    <3>2. CASE queue' = queue
      BY <3>2
    <3> QED BY <1>11, <3>1, <3>2 DEF SendDrain
  <2> QED BY <1>11, <2>1 DEF SendDrain, thread_vars, notice_vars
<1>12. CASE Join
  BY <1>12
     DEF Join, lifecycle_vars, channel_vars, thread_vars, notice_vars
<1>13. CASE MShutdownNotices
  BY <1>13, EmptySeq, ConcatProperties DEF MShutdownNotices, EmitNotices, thread_vars,
     channel_vars
<1>14. CASE LoopHead
  BY <1>14
     DEF LoopHead, lifecycle_vars, channel_vars, thread_vars, notice_vars
<1>15. CASE ReceiveBatch
  BY <1>15, TailShape, LenProperties, ConfigAssumption DEF ReceiveBatch, notice_vars,
     ConfigAssumption
<1>16. CASE ReceiveDrain
  BY <1>16, TailShape, LenProperties, ConfigAssumption DEF ReceiveDrain, notice_vars,
     ConfigAssumption
<1>17. CASE ChannelClosed
  BY <1>17
     DEF ChannelClosed, Exits, lifecycle_vars, channel_vars, thread_vars, notice_vars
<1>18. CASE RecvTimesOut
  BY <1>18
     DEF RecvTimesOut, lifecycle_vars, channel_vars, thread_vars, notice_vars
<1>19. CASE SweepResidual
  BY <1>19, EmptySeq, ConfigAssumption DEF SweepResidual, Exits, notice_vars, ConfigAssumption
<1>20. CASE Encode
  BY <1>20
     DEF Encode, ConsumeStep, Drops, lifecycle_vars, channel_vars, thread_vars, notice_vars
<1>21. CASE SnapshotDeadline
  BY <1>21
     DEF SnapshotDeadline, ConsumeStep, lifecycle_vars, channel_vars, thread_vars, notice_vars
<1>22. CASE CheckDeadline
  BY <1>22
     DEF CheckDeadline, ConsumeStep, Drops, lifecycle_vars, channel_vars, thread_vars,
         notice_vars
<1>23. CASE Post
  BY <1>23
     DEF Post, ConsumeStep, Drops, lifecycle_vars, channel_vars, thread_vars, notice_vars
<1>24. CASE Wake
  BY <1>24
     DEF Wake, ConsumeStep, lifecycle_vars, channel_vars, thread_vars, notice_vars
<1>25. CASE BumpDropCounterOnDrop
  BY <1>25
     DEF BumpDropCounterOnDrop, ConsumeStep, CountDropped, lifecycle_vars, channel_vars,
         thread_vars, notice_vars
<1>26. CASE Release
  BY <1>26
     DEF Release, ConsumeStep, lifecycle_vars, channel_vars, thread_vars, notice_vars
<1>27. CASE PushNotice
  <2>1. batch \in Numbers
    BY <1>27 DEF PushNotice, ConsumeStep, ThreadInv, Settling
  <2>2. notices' \in Seq(Numbers)
    BY <1>27, <2>1, AppendProperties DEF PushNotice
  <2> QED BY <1>27, <2>2 DEF PushNotice, ConsumeStep, channel_vars
<1>28. CASE Panic
  BY <1>28, EmptySeq, ConfigAssumption DEF Panic, notice_vars, ConfigAssumption
<1>29. CASE UNCHANGED vars
  BY <1>29 DEF vars, lifecycle_vars, channel_vars, thread_vars, notice_vars
<1> QED
  BY <1>1, <1>2, <1>3, <1>4, <1>5, <1>6, <1>7, <1>8, <1>9, <1>10, <1>11, <1>12, <1>13, <1>14,
     <1>15, <1>16, <1>17, <1>18, <1>19, <1>20, <1>21, <1>22, <1>23, <1>24, <1>25, <1>26, <1>27,
     <1>28, <1>29
     DEF Next, Requesting, RInit, ShuttingDown, Receiving, Consuming, Terminated

\* Each action keeps the registers consistent with where the thread is.
LEMMA ThreadStep ==
    ASSUME FlagsTypeOK, ControlTypeOK, HistoryTypeOK, ChannelTypeOK, LifeInv, ThreadInv, QueueInv, [Next]_vars
    PROVE  ThreadInv'
<1> USE DEF LifeInv, ThreadInv, Sending, Settling, ControlTypeOK, Outcomes
<1>1. CASE InstallChannel
  BY <1>1
     DEF InstallChannel, lifecycle_vars, deadline_vars, channel_vars, thread_vars
<1>2. CASE RInitNoSpawn
  BY <1>2
     DEF RInitNoSpawn, StartRequest, lifecycle_vars, deadline_vars, channel_vars, thread_vars
<1>3. CASE RInitSpawns
  BY <1>3
     DEF RInitSpawns, StartRequest, lifecycle_vars, deadline_vars, channel_vars, thread_vars
<1>4. CASE RInitSpawnFails
  BY <1>4
     DEF RInitSpawnFails, StartRequest, lifecycle_vars, deadline_vars, channel_vars,
         thread_vars
<1>5. CASE Flush
  BY <1>5, FlushGrows, NumbersAre
     DEF Flush, TrySendBatch, Record, lifecycle_vars, deadline_vars, channel_vars, thread_vars,
         Requests
<1>6. CASE DiscardRefused
  BY <1>6
     DEF DiscardRefused, CountDropped, lifecycle_vars, deadline_vars, channel_vars, thread_vars
<1>7. CASE RShutdownRelease
  BY <1>7, FlushGrows, NumbersAre
     DEF RShutdownRelease, TrySendBatch, Record, lifecycle_vars, deadline_vars, channel_vars,
         thread_vars, Requests
<1>8. CASE RShutdownNotices
  BY <1>8
     DEF RShutdownNotices, EmitNotices, lifecycle_vars, deadline_vars, channel_vars,
         thread_vars
<1>9. CASE MShutdown
  BY <1>9
     DEF MShutdown, lifecycle_vars, deadline_vars, channel_vars, thread_vars
<1>10. CASE DeadlinePasses
  BY <1>10
     DEF DeadlinePasses, lifecycle_vars, deadline_vars, channel_vars, thread_vars
<1>11. CASE SendDrain
  BY <1>11
     DEF SendDrain, lifecycle_vars, deadline_vars, channel_vars, thread_vars
<1>12. CASE Join
  BY <1>12
     DEF Join, lifecycle_vars, deadline_vars, channel_vars, thread_vars
<1>13. CASE MShutdownNotices
  BY <1>13
     DEF MShutdownNotices, EmitNotices, lifecycle_vars, deadline_vars, channel_vars,
         thread_vars
<1>14. CASE LoopHead
  BY <1>14
     DEF LoopHead, lifecycle_vars, deadline_vars, channel_vars, thread_vars
<1>15. CASE ReceiveBatch
  <2>1. batch' # 0
    BY <1>15, TailShape DEF ReceiveBatch, DRAIN
  <2> QED BY <1>15, <2>1 DEF ReceiveBatch, lifecycle_vars, channel_vars
<1>16. CASE ReceiveDrain
  BY <1>16
     DEF ReceiveDrain, lifecycle_vars, deadline_vars, channel_vars, thread_vars, QueueInv
<1>17. CASE ChannelClosed
  BY <1>17
     DEF ChannelClosed, Exits, lifecycle_vars, deadline_vars, channel_vars, thread_vars
<1>18. CASE RecvTimesOut
  BY <1>18
     DEF RecvTimesOut, lifecycle_vars, deadline_vars, channel_vars, thread_vars
<1>19. CASE SweepResidual
  BY <1>19
     DEF SweepResidual, Exits, lifecycle_vars, deadline_vars, channel_vars, thread_vars
<1>20. CASE Encode
  BY <1>20
     DEF Encode, ConsumeStep, Drops, lifecycle_vars, deadline_vars, channel_vars, thread_vars
<1>21. CASE SnapshotDeadline
  BY <1>21
     DEF SnapshotDeadline, ConsumeStep, lifecycle_vars, deadline_vars, channel_vars,
         thread_vars
<1>22. CASE CheckDeadline
  BY <1>22
     DEF CheckDeadline, ConsumeStep, Drops, lifecycle_vars, deadline_vars, channel_vars,
         thread_vars
<1>23. CASE Post
  BY <1>23
     DEF Post, ConsumeStep, Drops, lifecycle_vars, deadline_vars, channel_vars, thread_vars
<1>24. CASE Wake
  BY <1>24
     DEF Wake, ConsumeStep, lifecycle_vars, deadline_vars, channel_vars, thread_vars
<1>25. CASE BumpDropCounterOnDrop
  BY <1>25
     DEF BumpDropCounterOnDrop, ConsumeStep, CountDropped, lifecycle_vars, deadline_vars,
         channel_vars, thread_vars
<1>26. CASE Release
  BY <1>26
     DEF Release, ConsumeStep, lifecycle_vars, deadline_vars, channel_vars, thread_vars
<1>27. CASE PushNotice
  BY <1>27
     DEF PushNotice, ConsumeStep, lifecycle_vars, deadline_vars, channel_vars, thread_vars
<1>28. CASE Panic
  BY <1>28
     DEF Panic, lifecycle_vars, deadline_vars, channel_vars, thread_vars
<1>29. CASE UNCHANGED vars
  BY <1>29 DEF vars, lifecycle_vars, deadline_vars, channel_vars, thread_vars
<1> QED
  BY <1>1, <1>2, <1>3, <1>4, <1>5, <1>6, <1>7, <1>8, <1>9, <1>10, <1>11, <1>12, <1>13, <1>14,
     <1>15, <1>16, <1>17, <1>18, <1>19, <1>20, <1>21, <1>22, <1>23, <1>24, <1>25, <1>26, <1>27,
     <1>28, <1>29
     DEF Next, Requesting, RInit, ShuttingDown, Receiving, Consuming, Terminated

\* Each action keeps the channel's ends and the thread in step with the request thread.
LEMMA LifeStep ==
    ASSUME FlagsTypeOK, ControlTypeOK, LifeInv, DeadlineInv, [Next]_vars
    PROVE  LifeInv'
<1> USE DEF LifeInv, Alive, Serving, Leaving, FlagsTypeOK, ControlTypeOK, DeadlineInv, ShipperPcs, PhpPcs, SendersAlive
<1>1. CASE InstallChannel
  BY <1>1
     DEF InstallChannel, lifecycle_vars, deadline_vars, channel_vars, thread_vars
<1>2. CASE RInitNoSpawn
  BY <1>2
     DEF RInitNoSpawn, StartRequest, lifecycle_vars, deadline_vars, channel_vars, thread_vars
<1>3. CASE RInitSpawns
  BY <1>3
     DEF RInitSpawns, StartRequest, lifecycle_vars, deadline_vars, channel_vars, thread_vars
<1>4. CASE RInitSpawnFails
  BY <1>4
     DEF RInitSpawnFails, StartRequest, lifecycle_vars, deadline_vars, channel_vars,
         thread_vars
<1>5. CASE Flush
  BY <1>5
     DEF Flush, TrySendBatch, Record, lifecycle_vars, deadline_vars, channel_vars, thread_vars
<1>6. CASE DiscardRefused
  BY <1>6
     DEF DiscardRefused, CountDropped, lifecycle_vars, deadline_vars, channel_vars, thread_vars
<1>7. CASE RShutdownRelease
  BY <1>7
     DEF RShutdownRelease, TrySendBatch, Record, lifecycle_vars, deadline_vars, channel_vars,
         thread_vars
<1>8. CASE RShutdownNotices
  BY <1>8
     DEF RShutdownNotices, EmitNotices, lifecycle_vars, deadline_vars, channel_vars,
         thread_vars
<1>9. CASE MShutdown
  BY <1>9
     DEF MShutdown, lifecycle_vars, deadline_vars, channel_vars, thread_vars
<1>10. CASE DeadlinePasses
  BY <1>10
     DEF DeadlinePasses, lifecycle_vars, deadline_vars, channel_vars, thread_vars
<1>11. CASE SendDrain
  BY <1>11
     DEF SendDrain, lifecycle_vars, deadline_vars, channel_vars, thread_vars
<1>12. CASE Join
  BY <1>12
     DEF Join, lifecycle_vars, deadline_vars, channel_vars, thread_vars
<1>13. CASE MShutdownNotices
  BY <1>13
     DEF MShutdownNotices, EmitNotices, lifecycle_vars, deadline_vars, channel_vars,
         thread_vars
<1>14. CASE LoopHead
  BY <1>14
     DEF LoopHead, lifecycle_vars, deadline_vars, channel_vars, thread_vars
<1>15. CASE ReceiveBatch
  BY <1>15
     DEF ReceiveBatch, lifecycle_vars, deadline_vars, channel_vars, thread_vars
<1>16. CASE ReceiveDrain
  BY <1>16
     DEF ReceiveDrain, lifecycle_vars, deadline_vars, channel_vars, thread_vars
<1>17. CASE ChannelClosed
  BY <1>17
     DEF ChannelClosed, Exits, lifecycle_vars, deadline_vars, channel_vars, thread_vars
<1>18. CASE RecvTimesOut
  BY <1>18
     DEF RecvTimesOut, lifecycle_vars, deadline_vars, channel_vars, thread_vars
<1>19. CASE SweepResidual
  BY <1>19
     DEF SweepResidual, Exits, lifecycle_vars, deadline_vars, channel_vars, thread_vars
<1>20. CASE Encode
  BY <1>20
     DEF Encode, ConsumeStep, Drops, lifecycle_vars, deadline_vars, channel_vars, thread_vars
<1>21. CASE SnapshotDeadline
  BY <1>21
     DEF SnapshotDeadline, ConsumeStep, lifecycle_vars, deadline_vars, channel_vars,
         thread_vars
<1>22. CASE CheckDeadline
  BY <1>22
     DEF CheckDeadline, ConsumeStep, Drops, lifecycle_vars, deadline_vars, channel_vars,
         thread_vars
<1>23. CASE Post
  BY <1>23
     DEF Post, ConsumeStep, Drops, lifecycle_vars, deadline_vars, channel_vars, thread_vars
<1>24. CASE Wake
  BY <1>24
     DEF Wake, ConsumeStep, lifecycle_vars, deadline_vars, channel_vars, thread_vars
<1>25. CASE BumpDropCounterOnDrop
  BY <1>25
     DEF BumpDropCounterOnDrop, ConsumeStep, CountDropped, lifecycle_vars, deadline_vars,
         channel_vars, thread_vars
<1>26. CASE Release
  BY <1>26
     DEF Release, ConsumeStep, lifecycle_vars, deadline_vars, channel_vars, thread_vars
<1>27. CASE PushNotice
  BY <1>27
     DEF PushNotice, ConsumeStep, lifecycle_vars, deadline_vars, channel_vars, thread_vars
<1>28. CASE Panic
  BY <1>28
     DEF Panic, lifecycle_vars, deadline_vars, channel_vars, thread_vars
<1>29. CASE UNCHANGED vars
  BY <1>29 DEF vars, lifecycle_vars, deadline_vars, channel_vars, thread_vars
<1> QED
  BY <1>1, <1>2, <1>3, <1>4, <1>5, <1>6, <1>7, <1>8, <1>9, <1>10, <1>11, <1>12, <1>13, <1>14,
     <1>15, <1>16, <1>17, <1>18, <1>19, <1>20, <1>21, <1>22, <1>23, <1>24, <1>25, <1>26, <1>27,
     <1>28, <1>29
     DEF Next, Requesting, RInit, ShuttingDown, Receiving, Consuming, Terminated

\* Each action keeps a deadline from being known before it is published.
LEMMA DeadlineStep ==
    ASSUME FlagsTypeOK, ControlTypeOK, LifeInv, DeadlineInv, ThreadInv, QueueInv, [Next]_vars
    PROVE  DeadlineInv'
<1> USE DEF LifeInv, DeadlineInv, Alive, Serving, Leaving, FlagsTypeOK, ControlTypeOK
<1>1. CASE InstallChannel
  BY <1>1
     DEF InstallChannel, lifecycle_vars, deadline_vars, thread_vars
<1>2. CASE RInitNoSpawn
  BY <1>2
     DEF RInitNoSpawn, StartRequest, lifecycle_vars, deadline_vars, thread_vars
<1>3. CASE RInitSpawns
  BY <1>3
     DEF RInitSpawns, StartRequest, lifecycle_vars, deadline_vars, thread_vars
<1>4. CASE RInitSpawnFails
  BY <1>4
     DEF RInitSpawnFails, StartRequest, lifecycle_vars, deadline_vars, thread_vars
<1>5. CASE Flush
  BY <1>5
     DEF Flush, TrySendBatch, Record, lifecycle_vars, deadline_vars, thread_vars
<1>6. CASE DiscardRefused
  BY <1>6
     DEF DiscardRefused, CountDropped, lifecycle_vars, deadline_vars, thread_vars
<1>7. CASE RShutdownRelease
  BY <1>7
     DEF RShutdownRelease, TrySendBatch, Record, lifecycle_vars, deadline_vars, thread_vars
<1>8. CASE RShutdownNotices
  BY <1>8
     DEF RShutdownNotices, EmitNotices, lifecycle_vars, deadline_vars, thread_vars
<1>9. CASE MShutdown
  BY <1>9
     DEF MShutdown, lifecycle_vars, deadline_vars, thread_vars
<1>10. CASE DeadlinePasses
  BY <1>10
     DEF DeadlinePasses, lifecycle_vars, deadline_vars, thread_vars
<1>11. CASE SendDrain
  BY <1>11
     DEF SendDrain, lifecycle_vars, deadline_vars, thread_vars
<1>12. CASE Join
  BY <1>12
     DEF Join, lifecycle_vars, deadline_vars, thread_vars
<1>13. CASE MShutdownNotices
  BY <1>13
     DEF MShutdownNotices, EmitNotices, lifecycle_vars, deadline_vars, thread_vars
<1>14. CASE LoopHead
  BY <1>14
     DEF LoopHead, lifecycle_vars, deadline_vars, thread_vars
<1>15. CASE ReceiveBatch
  BY <1>15
     DEF ReceiveBatch, lifecycle_vars, deadline_vars, thread_vars
<1>16. CASE ReceiveDrain
  BY <1>16
     DEF ReceiveDrain, lifecycle_vars, deadline_vars, thread_vars, QueueInv
<1>17. CASE ChannelClosed
  BY <1>17
     DEF ChannelClosed, Exits, lifecycle_vars, deadline_vars, thread_vars
<1>18. CASE RecvTimesOut
  BY <1>18
     DEF RecvTimesOut, lifecycle_vars, deadline_vars, thread_vars
<1>19. CASE SweepResidual
  BY <1>19
     DEF SweepResidual, Exits, lifecycle_vars, deadline_vars, thread_vars
<1>20. CASE Encode
  BY <1>20
     DEF Encode, ConsumeStep, Drops, lifecycle_vars, deadline_vars, thread_vars
<1>21. CASE SnapshotDeadline
  BY <1>21
     DEF SnapshotDeadline, ConsumeStep, lifecycle_vars, deadline_vars, thread_vars
<1>22. CASE CheckDeadline
  BY <1>22
     DEF CheckDeadline, ConsumeStep, Drops, lifecycle_vars, deadline_vars, thread_vars
<1>23. CASE Post
  BY <1>23
     DEF Post, ConsumeStep, Drops, lifecycle_vars, deadline_vars, thread_vars
<1>24. CASE Wake
  BY <1>24
     DEF Wake, ConsumeStep, lifecycle_vars, deadline_vars, thread_vars
<1>25. CASE BumpDropCounterOnDrop
  BY <1>25
     DEF BumpDropCounterOnDrop, ConsumeStep, CountDropped, lifecycle_vars, deadline_vars,
         thread_vars
<1>26. CASE Release
  BY <1>26
     DEF Release, ConsumeStep, lifecycle_vars, deadline_vars, thread_vars
<1>27. CASE PushNotice
  BY <1>27
     DEF PushNotice, ConsumeStep, lifecycle_vars, deadline_vars, thread_vars
<1>28. CASE Panic
  BY <1>28
     DEF Panic, lifecycle_vars, deadline_vars, thread_vars
<1>29. CASE UNCHANGED vars
  BY <1>29 DEF vars, lifecycle_vars, deadline_vars, thread_vars
<1> QED
  BY <1>1, <1>2, <1>3, <1>4, <1>5, <1>6, <1>7, <1>8, <1>9, <1>10, <1>11, <1>12, <1>13, <1>14,
     <1>15, <1>16, <1>17, <1>18, <1>19, <1>20, <1>21, <1>22, <1>23, <1>24, <1>25, <1>26, <1>27,
     <1>28, <1>29
     DEF Next, Requesting, RInit, ShuttingDown, Receiving, Consuming, Terminated

\* What a flush does to the channel and the history.
LEMMA FlushCases ==
    ASSUME ControlTypeOK, HistoryTypeOK, LifeInv, Flush \/ RShutdownRelease
    PROVE  \/ UNCHANGED <<channel_vars, bytes_in_memory, server_vars>>
           \/ \E n \in RecordCounts, what \in {"queued", "refusing", "disconnected", "no_sender"} :
                /\ Record(n, what) /\ request \in Requests
                /\ Len(flushed') = Len(flushed) + 1 /\ Numbers' = Numbers \cup {Len(flushed) + 1}
                /\ fate'[Len(flushed) + 1] = what /\ stamp'[Len(flushed) + 1] = 0
                /\ flushed'[Len(flushed) + 1] = [trace |-> request, records |-> n]
                /\ \A i \in Numbers : /\ fate'[i] = fate[i] /\ stamp'[i] = stamp[i]
                                      /\ flushed'[i] = flushed[i]
                /\ IF what = "queued" THEN queue' = Append(queue, Len(flushed) + 1) ELSE queue' = queue
                /\ IF what = "refusing" THEN refused' = Len(flushed) + 1 ELSE refused' = refused
                /\ IF what \in {"queued", "refusing"}
                   THEN bytes_in_memory' = bytes_in_memory + n
                   ELSE bytes_in_memory' = bytes_in_memory
                /\ IF what \in {"queued", "refusing"}
                   THEN sender /\ receiver # "dropped"
                   ELSE IF what = "no_sender" THEN ~sender ELSE receiver = "dropped" /\ sender
<1>1. CASE UNCHANGED <<channel_vars, bytes_in_memory, server_vars>>
  BY <1>1
<1>2. ASSUME NEW n \in RecordCounts, TrySendBatch(n), request \in Requests,
             Numbers' = Numbers \cup {Len(flushed) + 1}, Len(flushed') = Len(flushed) + 1
      PROVE  \E what \in {"queued", "refusing", "disconnected", "no_sender"} :
                /\ Record(n, what)
                /\ IF what = "queued" THEN queue' = Append(queue, Len(flushed) + 1) ELSE queue' = queue
                /\ IF what = "refusing" THEN refused' = Len(flushed) + 1 ELSE refused' = refused
                /\ IF what \in {"queued", "refusing"}
                   THEN bytes_in_memory' = bytes_in_memory + n
                   ELSE bytes_in_memory' = bytes_in_memory
                /\ IF what \in {"queued", "refusing"}
                   THEN sender /\ receiver # "dropped"
                   ELSE IF what = "no_sender" THEN ~sender ELSE receiver = "dropped" /\ sender
  <2>1. CASE sender /\ receiver # "dropped" /\ HasRoom
    BY <1>2, <2>1 DEF TrySendBatch
  <2>2. CASE sender /\ receiver # "dropped" /\ ~HasRoom
    BY <1>2, <2>2 DEF TrySendBatch
  <2>3. CASE ~sender
    BY <1>2, <2>3 DEF TrySendBatch
  <2>4. CASE sender /\ receiver = "dropped"
    BY <1>2, <2>4 DEF TrySendBatch
  <2> QED BY <2>1, <2>2, <2>3, <2>4
<1>3. ASSUME NEW n \in RecordCounts, request \in Requests,
             NEW what \in {"queued", "refusing", "disconnected", "no_sender"}, Record(n, what)
      PROVE  /\ fate'[Len(flushed) + 1] = what /\ stamp'[Len(flushed) + 1] = 0
             /\ flushed'[Len(flushed) + 1] = [trace |-> request, records |-> n]
             /\ \A i \in Numbers : fate'[i] = fate[i] /\ stamp'[i] = stamp[i] /\ flushed'[i] = flushed[i]
  <2>1. what \in Fates
    BY DEF Fates
  <2> QED BY <1>3, <2>1, RecordShape, NumbersAre
<1> QED BY <1>1, <1>2, <1>3, FlushGrows

\* A flush appends to the channel what it appends to the history as queued.
LEMMA FlushQueue ==
    ASSUME ControlTypeOK, HistoryTypeOK, ChannelTypeOK, LifeInv, DeadlineInv, QueueInv,
           Flush \/ RShutdownRelease
    PROVE  QueueInv'
<1>1. UNCHANGED <<drain_deadline, shipper_pc, receiver>>
  BY DEF Flush, RShutdownRelease, deadline_vars, thread_vars, lifecycle_vars
<1>2. CASE UNCHANGED <<channel_vars, bytes_in_memory, server_vars>>
  BY <1>1, <1>2 DEF QueueInv, channel_vars, server_vars, Numbers
<1>3. ASSUME NEW n \in RecordCounts, NEW what \in {"queued", "refusing", "disconnected", "no_sender"},
             Numbers' = Numbers \cup {Len(flushed) + 1},
             fate'[Len(flushed) + 1] = what, \A i \in Numbers : fate'[i] = fate[i],
             IF what = "queued" THEN queue' = Append(queue, Len(flushed) + 1) ELSE queue' = queue,
             what = "queued" => receiver # "dropped"
      PROVE  QueueInv'
  <2>1. Numbers = 1..Len(flushed) /\ Len(flushed) \in Nat
    BY NumbersAre
  <2>2. \A k \in DOMAIN queue : queue[k] \in Numbers \cup {DRAIN}
    BY ElementOfSeq, LenProperties DEF ChannelTypeOK
  <2>3. CASE queue' = queue /\ what # "queued"
    <3>1. \A k \in DOMAIN queue : queue[k] # DRAIN => fate'[queue[k]] = fate[queue[k]]
      BY <1>3, <2>2
    <3> QED BY <1>1, <1>3, <2>1, <2>3, <3>1 DEF QueueInv
  <2>4. CASE queue' = Append(queue, Len(flushed) + 1) /\ what = "queued"
    <3> DEFINE m == Len(queue) + 1
    <3>1. /\ Len(queue) \in Nat /\ DOMAIN queue = 1..Len(queue)
          /\ DOMAIN queue' = DOMAIN queue \cup {m}
          /\ queue'[m] = Len(flushed) + 1
          /\ \A k \in DOMAIN queue : queue'[k] = queue[k]
      <4>1. /\ Len(queue) \in Nat /\ DOMAIN queue = 1..Len(queue)
            /\ queue' \in Seq(Nat) /\ Len(queue') = m
            /\ queue'[m] = Len(flushed) + 1
            /\ \A k \in 1..Len(queue) : queue'[k] = queue[k]
        <5>1. queue \in Seq(Nat)
          BY <2>1, SeqOfMore DEF ChannelTypeOK, DRAIN
        <5> QED BY <2>1, <2>4, <5>1, AppendProperties, LenProperties
      <4> QED BY <4>1, LenProperties
    <3>2. Len(flushed) + 1 # DRAIN /\ receiver # "dropped" /\ receiver' # "dropped"
      BY <1>1, <1>3, <2>1, <2>4 DEF DRAIN
    <3>3. shipper_pc' # "timed_out"
      BY <1>1 DEF LifeInv, Leaving, Flush, RShutdownRelease
    <3>4. \A k \in DOMAIN queue' : queue'[k] = DRAIN => drain_deadline'
      BY <1>1, <3>1, <3>2 DEF QueueInv
    <3>5. \A k \in DOMAIN queue' : queue'[k] # DRAIN => fate'[queue'[k]] = "queued"
      BY <1>3, <2>2, <2>4, <3>1 DEF QueueInv
    <3>6. \A i \in Numbers' : fate'[i] = "queued" => \E k \in DOMAIN queue' : queue'[k] = i
      BY <1>3, <3>1 DEF QueueInv
    <3>7. \A k, l \in DOMAIN queue' :
            k < l /\ queue'[k] # DRAIN /\ queue'[l] # DRAIN => queue'[k] < queue'[l]
      <4> SUFFICES ASSUME NEW k \in DOMAIN queue', NEW l \in DOMAIN queue',
                          k < l, queue'[k] # DRAIN, queue'[l] # DRAIN
                   PROVE  queue'[k] < queue'[l]
        OBVIOUS
      <4>1. k \in DOMAIN queue /\ queue'[k] = queue[k] /\ queue[k] \in Numbers
        BY <2>2, <3>1
      <4>2. CASE l = m
        BY <2>1, <3>1, <4>1, <4>2
      <4>3. CASE l \in DOMAIN queue
        BY <3>1, <4>1, <4>3 DEF QueueInv
      <4> QED BY <3>1, <4>2, <4>3
    <3> QED BY <3>2, <3>3, <3>4, <3>5, <3>6, <3>7 DEF QueueInv
  <2> QED BY <1>3, <2>3, <2>4
<1> QED BY <1>2, <1>3, FlushCases

\* Before the first request the channel holds nothing.
LEMMA NothingYet ==
    ASSUME HistoryTypeOK, ChannelTypeOK, LifeInv, DeadlineInv, ThreadInv, QueueInv,
           ~spawned, ~spawn_failed, php_pc = "idle"
    PROVE  queue = <<>>
<1>1. Numbers = {}
  BY NumbersAre, EmptySeq DEF LifeInv, ThreadInv
<1>2. \A k \in DOMAIN queue : queue[k] = DRAIN
  BY <1>1, ElementOfSeq, LenProperties DEF ChannelTypeOK
<1>3. ~drain_deadline
  BY DEF DeadlineInv, Leaving
<1>4. DOMAIN queue = {}
  BY <1>2, <1>3 DEF QueueInv
<1> QED BY <1>4, EmptySeq, LenProperties DEF ChannelTypeOK

\* The channel keeps its last messages when its first is taken.
LEMMA TakenQueue ==
    ASSUME ChannelTypeOK, QueueInv, queue # <<>>, queue' = Tail(queue), UNCHANGED flushed,
           UNCHANGED receiver, receiver # "dropped", shipper_pc' # "timed_out",
           drain_deadline => drain_deadline', 
           \A i \in Numbers : i # Head(queue) => fate'[i] = fate[i],
           Head(queue) # DRAIN => fate'[Head(queue)] # "queued",
           HistoryTypeOK
    PROVE  QueueInv'
<1>1. /\ Head(queue) = queue[1] /\ 1 \in DOMAIN queue
      /\ DOMAIN queue' = 1..(Len(queue) - 1)
      /\ \A k \in DOMAIN queue' : k + 1 \in DOMAIN queue /\ queue'[k] = queue[k + 1]
      /\ \A k \in DOMAIN queue : k # 1 => k - 1 \in DOMAIN queue'
  BY TailShape DEF ChannelTypeOK
<1>2. /\ \A k \in DOMAIN queue : queue[k] \in Numbers \cup {DRAIN}
      /\ DOMAIN queue = 1..Len(queue) /\ Len(queue) \in Nat
  BY ElementOfSeq, LenProperties DEF ChannelTypeOK
<1>3. Numbers \subseteq Nat \ {DRAIN} /\ Numbers' = Numbers
  BY NumbersAre DEF Numbers, DRAIN
<1>4. \A k \in DOMAIN queue' : queue'[k] # DRAIN => queue'[k] \in Numbers /\ queue'[k] # Head(queue)
  <2> SUFFICES ASSUME NEW k \in DOMAIN queue', queue'[k] # DRAIN
               PROVE  queue'[k] \in Numbers /\ queue'[k] # Head(queue)
    OBVIOUS
  <2>1. k \in Nat /\ k >= 1 /\ k + 1 \in DOMAIN queue /\ queue'[k] = queue[k + 1]
    BY <1>1, <1>2
  <2>2. queue[k + 1] \in Numbers
    BY <1>2, <2>1
  <2>3. CASE queue[1] = DRAIN
    BY <1>1, <1>3, <2>1, <2>2, <2>3
  <2>4. CASE queue[1] # DRAIN
    <3>1. queue[1] \in Numbers /\ 1 < k + 1
      BY <1>1, <1>2, <2>1, <2>4
    <3>2. queue[1] < queue[k + 1]
      BY <1>1, <2>1, <2>4, <3>1 DEF QueueInv
    <3>3. queue[1] \in Nat /\ queue[k + 1] \in Nat /\ queue[k + 1] # DRAIN
      BY <1>3, <2>2, <3>1
    <3>4. queue[k + 1] # queue[1]
      BY <3>2, <3>3
    <3> QED BY <1>1, <2>1, <2>2, <3>4
  <2> QED BY <2>3, <2>4
<1>5. \A k \in DOMAIN queue' : queue'[k] = DRAIN => drain_deadline'
  BY <1>1 DEF QueueInv
<1>6. \A k \in DOMAIN queue' : queue'[k] # DRAIN => fate'[queue'[k]] = "queued"
  BY <1>1, <1>4 DEF QueueInv
<1>7. \A i \in Numbers' : fate'[i] = "queued" => \E k \in DOMAIN queue' : queue'[k] = i
  <2> SUFFICES ASSUME NEW i \in Numbers, fate'[i] = "queued"
               PROVE  \E k \in DOMAIN queue' : queue'[k] = i
    BY <1>3
  <2>1. i # Head(queue)
    BY <1>3
  <2>2. PICK k \in DOMAIN queue : queue[k] = i
    BY <2>1 DEF QueueInv
  <2>3. k # 1 /\ k \in Nat
    BY <1>1, <1>2, <2>1, <2>2
  <2>4. k - 1 \in DOMAIN queue' /\ queue'[k - 1] = queue[k - 1 + 1] /\ k - 1 + 1 = k
    BY <1>1, <2>2, <2>3
  <2> QED BY <2>2, <2>4
<1>8. \A k, l \in DOMAIN queue' :
        k < l /\ queue'[k] # DRAIN /\ queue'[l] # DRAIN => queue'[k] < queue'[l]
  <2> SUFFICES ASSUME NEW k \in DOMAIN queue', NEW l \in DOMAIN queue',
                      k < l, queue'[k] # DRAIN, queue'[l] # DRAIN
               PROVE  queue'[k] < queue'[l]
    OBVIOUS
  <2>1. /\ k + 1 \in DOMAIN queue /\ l + 1 \in DOMAIN queue /\ k + 1 < l + 1
        /\ queue'[k] = queue[k + 1] /\ queue'[l] = queue[l + 1]
    BY <1>1, <1>2
  <2> QED BY <2>1 DEF QueueInv
<1> QED BY <1>5, <1>6, <1>7, <1>8 DEF QueueInv

\* A batch that is not queued changes its fate.
LEMMA SettledQueue ==
    ASSUME HistoryTypeOK, ChannelTypeOK, QueueInv, UNCHANGED <<flushed, stamp, queue>>,
           UNCHANGED <<receiver, drain_deadline>>, shipper_pc' = "timed_out" => shipper_pc = "timed_out",
           NEW k \in Numbers, fate[k] # "queued", NEW what \in Fates \ {"queued"},
           fate' = [fate EXCEPT ![k] = what]
    PROVE  QueueInv'
<1>1. fate'[k] = what /\ \A i \in Numbers : i # k => fate'[i] = fate[i]
  BY FateExcept
<1>2. \A j \in DOMAIN queue : queue[j] \in Numbers \cup {DRAIN}
  BY ElementOfSeq, LenProperties DEF ChannelTypeOK
<1> QED BY <1>1, <1>2 DEF QueueInv, Numbers

\* Each action keeps the channel equal to the queued batches, in order.
LEMMA QueueStep ==
    ASSUME FlagsTypeOK, ControlTypeOK, HistoryTypeOK, ChannelTypeOK,
           LifeInv, DeadlineInv, ThreadInv, QueueInv, FateInv, [Next]_vars
    PROVE  QueueInv'
<1> USE DEF QueueInv, Numbers
<1>1. CASE InstallChannel
  BY <1>1
     DEF InstallChannel, lifecycle_vars, deadline_vars, channel_vars, thread_vars, server_vars
<1>2. CASE RInitNoSpawn
  BY <1>2
     DEF RInitNoSpawn, StartRequest, lifecycle_vars, deadline_vars, channel_vars, thread_vars,
         server_vars
<1>3. CASE RInitSpawns
  BY <1>3
     DEF RInitSpawns, StartRequest, lifecycle_vars, deadline_vars, channel_vars, thread_vars,
         server_vars
<1>4. CASE RInitSpawnFails
  BY <1>4, NothingYet
     DEF RInitSpawnFails, StartRequest, lifecycle_vars, deadline_vars, channel_vars,
         thread_vars, server_vars
<1>5. CASE Flush
  BY <1>5, FlushQueue DEF QueueInv, Numbers
<1>6. CASE DiscardRefused
  <2>1. refused \in Numbers /\ fate[refused] = "refusing" /\ "refused" \in Fates
    BY <1>6 DEF DiscardRefused, FateInv, ChannelTypeOK, Fates
  <2> QED BY <1>6, <2>1, SettledQueue DEF DiscardRefused, lifecycle_vars, deadline_vars,
             thread_vars
<1>7. CASE RShutdownRelease
  BY <1>7, FlushQueue DEF QueueInv, Numbers
<1>8. CASE RShutdownNotices
  BY <1>8
     DEF RShutdownNotices, EmitNotices, lifecycle_vars, deadline_vars, channel_vars,
         thread_vars, server_vars
<1>9. CASE MShutdown
  BY <1>9
     DEF MShutdown, lifecycle_vars, deadline_vars, channel_vars, thread_vars, server_vars
<1>10. CASE DeadlinePasses
  BY <1>10
     DEF DeadlinePasses, lifecycle_vars, deadline_vars, channel_vars, thread_vars, server_vars
<1>11. CASE SendDrain
  <2>1. CASE queue' = queue
    BY <1>11, <2>1 DEF SendDrain, lifecycle_vars, deadline_vars, thread_vars, server_vars
  <2>2. CASE queue' = Append(queue, DRAIN) /\ receiver # "dropped"
    <3>1. /\ Len(queue) \in Nat /\ DOMAIN queue = 1..Len(queue)
          /\ queue' \in Seq(Numbers \cup {DRAIN}) /\ Len(queue') = Len(queue) + 1
          /\ queue'[Len(queue) + 1] = DRAIN
          /\ \A k \in 1..Len(queue) : queue'[k] = queue[k]
      BY <2>2, AppendProperties, LenProperties DEF ChannelTypeOK
    <3>2. DOMAIN queue' = DOMAIN queue \cup {Len(queue) + 1}
      BY <3>1, LenProperties
    <3>3. drain_deadline
      BY <1>11 DEF SendDrain, DeadlineInv
    <3> HIDE DEF Numbers
    <3>4. UNCHANGED <<receiver, drain_deadline, shipper_pc, fate, Numbers>>
      BY <1>11 DEF SendDrain, lifecycle_vars, deadline_vars, thread_vars, server_vars, Numbers
    <3> QED BY <2>2, <3>1, <3>2, <3>3, <3>4
  <2> QED BY <1>11, <2>1, <2>2 DEF SendDrain
<1>12. CASE Join
  BY <1>12
     DEF Join, lifecycle_vars, deadline_vars, channel_vars, thread_vars, server_vars
<1>13. CASE MShutdownNotices
  BY <1>13
     DEF MShutdownNotices, EmitNotices, lifecycle_vars, deadline_vars, channel_vars,
         thread_vars, server_vars
<1>14. CASE LoopHead
  BY <1>14
     DEF LoopHead, lifecycle_vars, deadline_vars, channel_vars, thread_vars, server_vars
<1>15. CASE ReceiveBatch
  <2>1. Head(queue) \in Numbers
    BY <1>15, TailShape DEF ReceiveBatch, ChannelTypeOK
  <2>2. fate'[Head(queue)] = "in_flight" /\ \A i \in Numbers : i # Head(queue) => fate'[i] = fate[i]
    BY <1>15, <2>1, FateExcept DEF ReceiveBatch, Fates
  <2>3. receiver # "dropped" /\ UNCHANGED <<receiver, flushed, drain_deadline>> /\ shipper_pc' # "timed_out"
    BY <1>15 DEF ReceiveBatch, LifeInv, Alive, ShipperPcs, lifecycle_vars, deadline_vars
  <2> QED BY <1>15, <2>2, <2>3, TakenQueue DEF ReceiveBatch
<1>16. CASE ReceiveDrain
  <2>1. receiver # "dropped" /\ UNCHANGED <<receiver, flushed, fate, drain_deadline>> /\ shipper_pc' # "timed_out"
    BY <1>16 DEF ReceiveDrain, LifeInv, Alive, ShipperPcs, lifecycle_vars, deadline_vars,
       server_vars
  <2> QED BY <1>16, <2>1, TakenQueue DEF ReceiveDrain
<1>17. CASE ChannelClosed
  BY <1>17
     DEF ChannelClosed, Exits, lifecycle_vars, deadline_vars, channel_vars, thread_vars,
         server_vars
<1>18. CASE RecvTimesOut
  BY <1>18
     DEF RecvTimesOut, lifecycle_vars, deadline_vars, channel_vars, thread_vars, server_vars
<1>19. CASE SweepResidual
  <2>1. ToSet(queue) \ {DRAIN} = {}
    BY <1>19 DEF SweepResidual, ToSet
  <2>2. fate' = [i \in DOMAIN fate |-> fate[i]] /\ queue' = <<>> /\ UNCHANGED flushed /\ shipper_pc' = "exited"
    BY <1>19, <2>1 DEF SweepResidual, Exits
  <2>3. \A i \in Numbers : fate[i] # "queued"
    BY <1>19, NumbersAre DEF SweepResidual, DRAIN
  <2> QED BY <2>2, <2>3, EmptySeq, NumbersAre
<1>20. CASE Encode
  BY <1>20
     DEF Encode, ConsumeStep, Drops, lifecycle_vars, deadline_vars, channel_vars, thread_vars,
         server_vars
<1>21. CASE SnapshotDeadline
  BY <1>21
     DEF SnapshotDeadline, ConsumeStep, lifecycle_vars, deadline_vars, channel_vars,
         thread_vars, server_vars
<1>22. CASE CheckDeadline
  BY <1>22
     DEF CheckDeadline, ConsumeStep, Drops, lifecycle_vars, deadline_vars, channel_vars,
         thread_vars, server_vars
<1>23. CASE Post
  BY <1>23
     DEF Post, ConsumeStep, Drops, lifecycle_vars, deadline_vars, channel_vars, thread_vars,
         server_vars
<1>24. CASE Wake
  BY <1>24
     DEF Wake, ConsumeStep, lifecycle_vars, deadline_vars, channel_vars, thread_vars,
         server_vars
<1>25. CASE BumpDropCounterOnDrop
  <2>1. batch \in Numbers /\ fate[batch] = "in_flight"
    BY <1>25 DEF BumpDropCounterOnDrop, ConsumeStep, FateInv, ThreadInv, ChannelTypeOK, Sending
  <2>2. \E what \in {"given_up", "delivered"} : fate' = [fate EXCEPT ![batch] = what]
    BY <1>25 DEF BumpDropCounterOnDrop
  <2> QED BY <1>25, <2>1, <2>2, SettledQueue
          DEF BumpDropCounterOnDrop, ConsumeStep, lifecycle_vars, deadline_vars, channel_vars,
              Fates
<1>26. CASE Release
  BY <1>26
     DEF Release, ConsumeStep, lifecycle_vars, deadline_vars, channel_vars, thread_vars,
         server_vars
<1>27. CASE PushNotice
  BY <1>27
     DEF PushNotice, ConsumeStep, lifecycle_vars, deadline_vars, channel_vars, thread_vars,
         server_vars
<1>28. CASE Panic
  <2>1. queue' = <<>> /\ UNCHANGED flushed /\ shipper_pc' = "panicked"
    BY <1>28 DEF Panic
  <2>2. \A i \in Numbers : fate'[i] # "queued"
    BY <1>28, NumbersAre DEF Panic
  <2> QED BY <2>1, <2>2, EmptySeq
<1>29. CASE UNCHANGED vars
  BY <1>29 DEF vars, lifecycle_vars, deadline_vars, channel_vars, thread_vars, server_vars
<1> QED
  BY <1>1, <1>2, <1>3, <1>4, <1>5, <1>6, <1>7, <1>8, <1>9, <1>10, <1>11, <1>12, <1>13, <1>14,
     <1>15, <1>16, <1>17, <1>18, <1>19, <1>20, <1>21, <1>22, <1>23, <1>24, <1>25, <1>26, <1>27,
     <1>28, <1>29
     DEF Next, Requesting, RInit, ShuttingDown, Receiving, Consuming, Terminated

\* The sweep of no batch abandons none.
LEMMA CardinalityOfNone == Cardinality({}) = 0
BY FS_EmptySet

\* A flush gives the new batch a fate its holder agrees with.
LEMMA FlushFate ==
    ASSUME ControlTypeOK, HistoryTypeOK, ChannelTypeOK, LifeInv, ThreadInv, FateInv,
           Flush \/ RShutdownRelease
    PROVE  FateInv'
<1>1. UNCHANGED <<shipper_pc, batch, outcome, spawn_failed, abandoned>>
  BY DEF Flush, RShutdownRelease, thread_vars, lifecycle_vars
<1>2. CASE UNCHANGED <<channel_vars, bytes_in_memory, server_vars>>
  BY <1>1, <1>2 DEF FateInv, channel_vars, server_vars, Numbers
<1>3. ASSUME NEW what \in {"queued", "refusing", "disconnected", "no_sender"},
             Numbers' = Numbers \cup {Len(flushed) + 1},
             fate'[Len(flushed) + 1] = what, \A i \in Numbers : fate'[i] = fate[i],
             IF what = "refusing" THEN refused' = Len(flushed) + 1 ELSE refused' = refused,
             what = "no_sender" => ~sender, what = "disconnected" => receiver = "dropped" /\ sender
      PROVE  FateInv'
  <2> DEFINE m == Len(flushed) + 1
  <2>1. Numbers = 1..Len(flushed) /\ Len(flushed) \in Nat /\ m \notin Numbers /\ m # 0
    BY NumbersAre
  <2> HIDE DEF m
  <2>2. refused = 0 /\ 0 \notin Numbers
    BY <2>1 DEF Flush, RShutdownRelease
  <2>3. batch \in Numbers \cup {0}
    BY DEF ChannelTypeOK
  <2>4. Numbers' = Numbers \cup {m} /\ fate'[m] = what
    BY <1>3 DEF m
  <2>5. \A i \in Numbers' : fate'[i] = "refusing" <=> i = refused'
    BY <1>3, <2>1, <2>2, <2>4 DEF FateInv, m
  <2>6. \A i \in Numbers' : fate'[i] = "in_flight" <=> i = batch' /\ shipper_pc' \in Sending
    BY <1>1, <1>3, <2>1, <2>2, <2>3, <2>4 DEF FateInv
  <2>7. shipper_pc' \in Settling =>
            fate'[batch'] = IF outcome' = "dropped" THEN "given_up" ELSE "delivered"
    BY <1>1, <1>3, <2>3 DEF FateInv, ThreadInv
  <2>8. what = "no_sender" => spawn_failed
    BY <1>3 DEF Flush, RShutdownRelease, LifeInv, Serving
  <2>9. what = "disconnected" => shipper_pc = "panicked"
    BY <1>3 DEF Flush, RShutdownRelease, LifeInv, Serving, Leaving
  <2> QED BY <1>1, <1>3, <2>4, <2>5, <2>6, <2>7, <2>8, <2>9 DEF FateInv
<1> QED BY <1>2, <1>3, FlushCases

\* Each action keeps the fates in agreement with who holds the batches.
LEMMA FateStep ==
    ASSUME FlagsTypeOK, ControlTypeOK, HistoryTypeOK, ChannelTypeOK,
           LifeInv, DeadlineInv, ThreadInv, QueueInv, FateInv, [Next]_vars
    PROVE  FateInv'
<1> USE DEF FateInv, ThreadInv, Numbers, Sending, Settling
<1>1. CASE InstallChannel
  BY <1>1
     DEF InstallChannel, lifecycle_vars, channel_vars, thread_vars, server_vars, LifeInv
<1>2. CASE RInitNoSpawn
  BY <1>2
     DEF RInitNoSpawn, StartRequest, lifecycle_vars, channel_vars, thread_vars, server_vars,
         LifeInv
<1>3. CASE RInitSpawns
  BY <1>3
     DEF RInitSpawns, StartRequest, lifecycle_vars, channel_vars, thread_vars, server_vars,
         LifeInv
<1>4. CASE RInitSpawnFails
  BY <1>4
     DEF RInitSpawnFails, StartRequest, lifecycle_vars, channel_vars, thread_vars, server_vars,
         LifeInv
<1>5. CASE Flush
  BY <1>5, FlushFate DEF FateInv, Numbers, Sending, Settling, ThreadInv
<1>6. CASE DiscardRefused
  <2>1. refused \in Numbers /\ refused # 0 /\ fate[refused] = "refusing"
    BY <1>6 DEF DiscardRefused, ChannelTypeOK
  <2>2. fate'[refused] = "refused" /\ \A i \in Numbers : i # refused => fate'[i] = fate[i]
    BY <1>6, <2>1, FateExcept DEF DiscardRefused, Fates
  <2>3. 0 \notin Numbers
    BY NumbersAre
  <2>4. (batch \in Numbers /\ batch # refused) \/ shipper_pc \notin Settling
    BY <2>1 DEF ChannelTypeOK
  <2>5. UNCHANGED <<flushed, shipper_pc, batch, outcome, spawn_failed, abandoned>> /\ refused' = 0
    BY <1>6 DEF DiscardRefused, lifecycle_vars, thread_vars
  <2> QED BY <2>1, <2>2, <2>3, <2>4, <2>5
<1>7. CASE RShutdownRelease
  BY <1>7, FlushFate DEF FateInv, Numbers, Sending, Settling, ThreadInv
<1>8. CASE RShutdownNotices
  BY <1>8
     DEF RShutdownNotices, EmitNotices, lifecycle_vars, channel_vars, thread_vars, server_vars
<1>9. CASE MShutdown
  BY <1>9
     DEF MShutdown, lifecycle_vars, channel_vars, thread_vars, server_vars
<1>10. CASE DeadlinePasses
  BY <1>10
     DEF DeadlinePasses, lifecycle_vars, channel_vars, thread_vars, server_vars
<1>11. CASE SendDrain
  BY <1>11
     DEF SendDrain, lifecycle_vars, channel_vars, thread_vars, server_vars
<1>12. CASE Join
  BY <1>12
     DEF Join, lifecycle_vars, channel_vars, thread_vars, server_vars
<1>13. CASE MShutdownNotices
  BY <1>13
     DEF MShutdownNotices, EmitNotices, lifecycle_vars, channel_vars, thread_vars, server_vars
<1>14. CASE LoopHead
  BY <1>14
     DEF LoopHead, lifecycle_vars, channel_vars, thread_vars, server_vars
<1>15. CASE ReceiveBatch
  <2>1. Head(queue) \in Numbers /\ 1 \in DOMAIN queue /\ Head(queue) = queue[1]
    BY <1>15, TailShape DEF ReceiveBatch, ChannelTypeOK
  <2>2. fate'[Head(queue)] = "in_flight" /\ \A i \in Numbers : i # Head(queue) => fate'[i] = fate[i]
    BY <1>15, <2>1, FateExcept DEF ReceiveBatch, Fates
  <2>3. /\ UNCHANGED <<flushed, refused, outcome, spawn_failed, abandoned>>
        /\ batch' = Head(queue) /\ shipper_pc' = "encode" /\ shipper_pc \notin Sending \cup Settling
        /\ shipper_pc # "panicked"
    BY <1>15 DEF ReceiveBatch, lifecycle_vars
  <2>4. fate[Head(queue)] = "queued"
    BY <1>15, <2>1 DEF ReceiveBatch, QueueInv
  <2> QED BY <2>1, <2>2, <2>3, <2>4
<1>16. CASE ReceiveDrain
  BY <1>16
     DEF ReceiveDrain, lifecycle_vars, channel_vars, thread_vars, server_vars
<1>17. CASE ChannelClosed
  BY <1>17
     DEF ChannelClosed, Exits, lifecycle_vars, channel_vars, thread_vars, server_vars
<1>18. CASE RecvTimesOut
  BY <1>18
     DEF RecvTimesOut, lifecycle_vars, channel_vars, thread_vars, server_vars
<1>19. CASE SweepResidual
  <2>1. ToSet(queue) \ {DRAIN} = {}
    BY <1>19 DEF SweepResidual, ToSet, QueueInv
  <2>2. fate' = [i \in DOMAIN fate |-> fate[i]] /\ abandoned' = 0
    BY <1>19, <2>1, CardinalityOfNone DEF SweepResidual
  <2>3. /\ UNCHANGED <<flushed, refused, outcome, batch, spawn_failed>>
        /\ shipper_pc = "timed_out" /\ shipper_pc' = "exited"
    BY <1>19 DEF SweepResidual, Exits
  <2>4. \A i \in Numbers : fate'[i] = fate[i]
    BY <2>2, NumbersAre
  <2> QED BY <2>2, <2>3, <2>4
<1>20. CASE Encode
  BY <1>20
     DEF Encode, ConsumeStep, Drops, lifecycle_vars, channel_vars, thread_vars, server_vars
<1>21. CASE SnapshotDeadline
  BY <1>21
     DEF SnapshotDeadline, ConsumeStep, lifecycle_vars, channel_vars, thread_vars, server_vars
<1>22. CASE CheckDeadline
  BY <1>22
     DEF CheckDeadline, ConsumeStep, Drops, lifecycle_vars, channel_vars, thread_vars,
         server_vars
<1>23. CASE Post
  BY <1>23
     DEF Post, ConsumeStep, Drops, lifecycle_vars, channel_vars, thread_vars, server_vars
<1>24. CASE Wake
  BY <1>24
     DEF Wake, ConsumeStep, lifecycle_vars, channel_vars, thread_vars, server_vars
<1>25. CASE BumpDropCounterOnDrop
  <2>1. batch \in Numbers /\ fate[batch] = "in_flight"
    BY <1>25 DEF BumpDropCounterOnDrop, ConsumeStep, ChannelTypeOK
  <2>2. fate' = [fate EXCEPT ![batch] = IF outcome = "dropped" THEN "given_up" ELSE "delivered"]
    BY <1>25 DEF BumpDropCounterOnDrop
  <2>3. /\ fate'[batch] = (IF outcome = "dropped" THEN "given_up" ELSE "delivered")
        /\ \A i \in Numbers : i # batch => fate'[i] = fate[i]
    BY <1>25, <2>1, <2>2, FateExcept
       DEF BumpDropCounterOnDrop, ConsumeStep, channel_vars, Fates
  <2>4. /\ UNCHANGED <<flushed, refused, outcome, batch, spawn_failed, abandoned>>
        /\ shipper_pc = "outcome" /\ shipper_pc' = "release"
    BY <1>25 DEF BumpDropCounterOnDrop, ConsumeStep, lifecycle_vars, channel_vars
  <2> QED BY <2>1, <2>3, <2>4
<1>26. CASE Release
  BY <1>26
     DEF Release, ConsumeStep, lifecycle_vars, channel_vars, thread_vars, server_vars
<1>27. CASE PushNotice
  BY <1>27
     DEF PushNotice, ConsumeStep, lifecycle_vars, channel_vars, thread_vars, server_vars
<1>28. CASE Panic
  <2>1. /\ shipper_pc \in {"encode", "post"} /\ shipper_pc' = "panicked" /\ batch' = 0
        /\ UNCHANGED <<flushed, refused, outcome, spawn_failed, abandoned>>
    BY <1>28 DEF Panic
  <2>2. \A i \in Numbers : fate'[i] = IF fate[i] \in {"queued", "in_flight"} THEN "lost_in_panic" ELSE fate[i]
    BY <1>28, NumbersAre DEF Panic
  <2> QED BY <2>1, <2>2
<1>29. CASE UNCHANGED vars
  BY <1>29 DEF vars, lifecycle_vars, channel_vars, thread_vars, server_vars
<1> QED
  BY <1>1, <1>2, <1>3, <1>4, <1>5, <1>6, <1>7, <1>8, <1>9, <1>10, <1>11, <1>12, <1>13, <1>14,
     <1>15, <1>16, <1>17, <1>18, <1>19, <1>20, <1>21, <1>22, <1>23, <1>24, <1>25, <1>26, <1>27,
     <1>28, <1>29
     DEF Next, Requesting, RInit, ShuttingDown, Receiving, Consuming, Terminated

\* A flush comes after every batch consumed so far.
LEMMA FlushOrder ==
    ASSUME ControlTypeOK, HistoryTypeOK, LifeInv, OrderInv, Flush \/ RShutdownRelease
    PROVE  OrderInv'
<1>1. UNCHANGED batch
  BY DEF Flush, RShutdownRelease, thread_vars
<1>2. CASE UNCHANGED <<channel_vars, bytes_in_memory, server_vars>>
  BY <1>1, <1>2 DEF OrderInv, channel_vars, server_vars, Numbers
<1>3. ASSUME NEW what \in {"queued", "refusing", "disconnected", "no_sender"},
             Numbers' = Numbers \cup {Len(flushed) + 1},
             fate'[Len(flushed) + 1] = what, \A i \in Numbers : fate'[i] = fate[i]
      PROVE  OrderInv'
  <2>1. Numbers = 1..Len(flushed) /\ Len(flushed) \in Nat
    BY NumbersAre
  <2>2. \A i \in Numbers' : fate'[i] \in Consumed => i \in Numbers /\ fate[i] \in Consumed
    BY <1>3 DEF Consumed
  <2>3. \A j \in Numbers' : fate'[j] = "queued" => j = Len(flushed) + 1 \/ (j \in Numbers /\ fate[j] = "queued")
    BY <1>3
  <2>4. \A i, j \in Numbers' : fate'[i] \in Consumed /\ fate'[j] = "queued" => i < j
    BY <2>1, <2>2, <2>3 DEF OrderInv
  <2>5. \A i \in Numbers' : fate'[i] \in Consumed /\ batch' # 0 => i <= batch'
    BY <1>1, <2>2 DEF OrderInv
  <2> QED BY <2>4, <2>5 DEF OrderInv
<1> QED BY <1>2, <1>3, FlushCases

\* Each action keeps consumption in flush order.
LEMMA OrderStep ==
    ASSUME FlagsTypeOK, ControlTypeOK, HistoryTypeOK, ChannelTypeOK,
           LifeInv, DeadlineInv, ThreadInv, QueueInv, FateInv, OrderInv, [Next]_vars
    PROVE  OrderInv'
<1> USE DEF OrderInv, Numbers, Consumed
<1>1. CASE InstallChannel
  BY <1>1
     DEF InstallChannel, channel_vars, thread_vars, server_vars
<1>2. CASE RInitNoSpawn
  BY <1>2
     DEF RInitNoSpawn, StartRequest, channel_vars, thread_vars, server_vars
<1>3. CASE RInitSpawns
  BY <1>3
     DEF RInitSpawns, StartRequest, channel_vars, thread_vars, server_vars
<1>4. CASE RInitSpawnFails
  BY <1>4
     DEF RInitSpawnFails, StartRequest, channel_vars, thread_vars, server_vars
<1>5. CASE Flush
  BY <1>5, FlushOrder DEF OrderInv, Numbers, Consumed
<1>6. CASE DiscardRefused
  <2>1. refused \in Numbers /\ refused # 0
    BY <1>6 DEF DiscardRefused, ChannelTypeOK
  <2>2. fate'[refused] = "refused" /\ \A i \in Numbers : i # refused => fate'[i] = fate[i]
    BY <1>6, <2>1, FateExcept DEF DiscardRefused, Fates
  <2> QED BY <1>6, <2>1, <2>2 DEF DiscardRefused, thread_vars
<1>7. CASE RShutdownRelease
  BY <1>7, FlushOrder DEF OrderInv, Numbers, Consumed
<1>8. CASE RShutdownNotices
  BY <1>8
     DEF RShutdownNotices, EmitNotices, channel_vars, thread_vars, server_vars
<1>9. CASE MShutdown
  BY <1>9
     DEF MShutdown, channel_vars, thread_vars, server_vars
<1>10. CASE DeadlinePasses
  BY <1>10
     DEF DeadlinePasses, channel_vars, thread_vars, server_vars
<1>11. CASE SendDrain
  BY <1>11
     DEF SendDrain, channel_vars, thread_vars, server_vars
<1>12. CASE Join
  BY <1>12
     DEF Join, channel_vars, thread_vars, server_vars
<1>13. CASE MShutdownNotices
  BY <1>13
     DEF MShutdownNotices, EmitNotices, channel_vars, thread_vars, server_vars
<1>14. CASE LoopHead
  BY <1>14
     DEF LoopHead, channel_vars, thread_vars, server_vars
<1>15. CASE ReceiveBatch
  <2>1. Head(queue) \in Numbers /\ 1 \in DOMAIN queue /\ Head(queue) = queue[1]
    BY <1>15, TailShape DEF ReceiveBatch, ChannelTypeOK
  <2>2. fate'[Head(queue)] = "in_flight" /\ \A i \in Numbers : i # Head(queue) => fate'[i] = fate[i]
    BY <1>15, <2>1, FateExcept DEF ReceiveBatch, Fates
  <2>3. UNCHANGED flushed /\ batch' = Head(queue) /\ queue[1] # DRAIN
    BY <1>15, <2>1 DEF ReceiveBatch
  <2>4. fate[queue[1]] = "queued"
    BY <2>1, <2>3 DEF QueueInv
  <2>5. \A j \in Numbers : fate[j] = "queued" => j = queue[1] \/ queue[1] < j
    <3> SUFFICES ASSUME NEW j \in Numbers, fate[j] = "queued", j # queue[1] PROVE queue[1] < j
      OBVIOUS
    <3>1. PICK k \in DOMAIN queue : queue[k] = j
      BY DEF QueueInv
    <3>2. k \in Nat /\ k >= 1 /\ k # 1
      BY <3>1, LenProperties DEF ChannelTypeOK
    <3>3. j # DRAIN
      BY NumbersAre DEF DRAIN
    <3> QED BY <2>1, <2>3, <3>1, <3>2, <3>3 DEF QueueInv
  <2>6. \A i \in Numbers : fate[i] \in Consumed => i < queue[1]
    BY <2>1, <2>4
  <2>7. \A i \in Numbers : i \in Nat
    BY NumbersAre
  <2> QED BY <2>1, <2>2, <2>3, <2>5, <2>6, <2>7
<1>16. CASE ReceiveDrain
  BY <1>16
     DEF ReceiveDrain, channel_vars, thread_vars, server_vars
<1>17. CASE ChannelClosed
  BY <1>17
     DEF ChannelClosed, Exits, channel_vars, thread_vars, server_vars
<1>18. CASE RecvTimesOut
  BY <1>18
     DEF RecvTimesOut, channel_vars, thread_vars, server_vars
<1>19. CASE SweepResidual
  <2>1. ToSet(queue) \ {DRAIN} = {}
    BY <1>19 DEF SweepResidual, ToSet, QueueInv
  <2>2. fate' = [i \in DOMAIN fate |-> fate[i]] /\ UNCHANGED <<batch, flushed>>
    BY <1>19, <2>1 DEF SweepResidual, Exits
  <2>3. \A i \in Numbers : fate'[i] = fate[i]
    BY <2>2, NumbersAre
  <2> QED BY <2>2, <2>3
<1>20. CASE Encode
  BY <1>20
     DEF Encode, ConsumeStep, Drops, channel_vars, thread_vars, server_vars
<1>21. CASE SnapshotDeadline
  BY <1>21
     DEF SnapshotDeadline, ConsumeStep, channel_vars, thread_vars, server_vars
<1>22. CASE CheckDeadline
  BY <1>22
     DEF CheckDeadline, ConsumeStep, Drops, channel_vars, thread_vars, server_vars
<1>23. CASE Post
  BY <1>23
     DEF Post, ConsumeStep, Drops, channel_vars, thread_vars, server_vars
<1>24. CASE Wake
  BY <1>24
     DEF Wake, ConsumeStep, channel_vars, thread_vars, server_vars
<1>25. CASE BumpDropCounterOnDrop
  <2>1. batch \in Numbers /\ fate[batch] = "in_flight"
    BY <1>25 DEF BumpDropCounterOnDrop, ConsumeStep, ChannelTypeOK, FateInv, ThreadInv, Sending
  <2>2. fate' = [fate EXCEPT ![batch] = IF outcome = "dropped" THEN "given_up" ELSE "delivered"]
    BY <1>25 DEF BumpDropCounterOnDrop
  <2>3. /\ fate'[batch] = (IF outcome = "dropped" THEN "given_up" ELSE "delivered")
        /\ \A i \in Numbers : i # batch => fate'[i] = fate[i]
    BY <1>25, <2>1, <2>2, FateExcept
       DEF BumpDropCounterOnDrop, ConsumeStep, channel_vars, Fates
  <2>4. UNCHANGED <<flushed, batch>>
    BY <1>25 DEF BumpDropCounterOnDrop, ConsumeStep, channel_vars
  <2> QED BY <2>1, <2>3, <2>4
<1>26. CASE Release
  BY <1>26
     DEF Release, ConsumeStep, channel_vars, thread_vars, server_vars
<1>27. CASE PushNotice
  BY <1>27
     DEF PushNotice, ConsumeStep, channel_vars, thread_vars, server_vars
<1>28. CASE Panic
  <2>1. batch' = 0 /\ UNCHANGED flushed
    BY <1>28 DEF Panic
  <2>2. \A i \in Numbers : fate'[i] = IF fate[i] \in {"queued", "in_flight"} THEN "lost_in_panic" ELSE fate[i]
    BY <1>28, NumbersAre DEF Panic
  <2> QED BY <2>1, <2>2
<1>29. CASE UNCHANGED vars
  BY <1>29 DEF vars, channel_vars, thread_vars, server_vars
<1> QED
  BY <1>1, <1>2, <1>3, <1>4, <1>5, <1>6, <1>7, <1>8, <1>9, <1>10, <1>11, <1>12, <1>13, <1>14,
     <1>15, <1>16, <1>17, <1>18, <1>19, <1>20, <1>21, <1>22, <1>23, <1>24, <1>25, <1>26, <1>27,
     <1>28, <1>29
     DEF Next, Requesting, RInit, ShuttingDown, Receiving, Consuming, Terminated

\* Each action keeps the thread from a second POST after the deadline.
LEMMA LateStep ==
    ASSUME FlagsTypeOK, ControlTypeOK, LifeInv, DeadlineInv, LateInv, [Next]_vars
    PROVE  LateInv'
<1> USE DEF LateInv, FlagsTypeOK, ControlTypeOK, DeadlineInv
<1>1. CASE InstallChannel
  BY <1>1
     DEF InstallChannel, deadline_vars, thread_vars, server_vars
<1>2. CASE RInitNoSpawn
  BY <1>2
     DEF RInitNoSpawn, StartRequest, deadline_vars, thread_vars, server_vars
<1>3. CASE RInitSpawns
  BY <1>3
     DEF RInitSpawns, StartRequest, deadline_vars, thread_vars, server_vars
<1>4. CASE RInitSpawnFails
  BY <1>4
     DEF RInitSpawnFails, StartRequest, deadline_vars, thread_vars, server_vars
<1>5. CASE Flush
  BY <1>5
     DEF Flush, TrySendBatch, Record, deadline_vars, thread_vars, server_vars
<1>6. CASE DiscardRefused
  BY <1>6
     DEF DiscardRefused, CountDropped, deadline_vars, thread_vars, server_vars
<1>7. CASE RShutdownRelease
  BY <1>7
     DEF RShutdownRelease, TrySendBatch, Record, deadline_vars, thread_vars, server_vars
<1>8. CASE RShutdownNotices
  BY <1>8
     DEF RShutdownNotices, EmitNotices, deadline_vars, thread_vars, server_vars
<1>9. CASE MShutdown
  BY <1>9
     DEF MShutdown, deadline_vars, thread_vars, server_vars
<1>10. CASE DeadlinePasses
  BY <1>10
     DEF DeadlinePasses, deadline_vars, thread_vars, server_vars
<1>11. CASE SendDrain
  BY <1>11
     DEF SendDrain, deadline_vars, thread_vars, server_vars
<1>12. CASE Join
  BY <1>12
     DEF Join, deadline_vars, thread_vars, server_vars
<1>13. CASE MShutdownNotices
  BY <1>13
     DEF MShutdownNotices, EmitNotices, deadline_vars, thread_vars, server_vars
<1>14. CASE LoopHead
  BY <1>14
     DEF LoopHead, deadline_vars, thread_vars, server_vars
<1>15. CASE ReceiveBatch
  BY <1>15
     DEF ReceiveBatch, deadline_vars, thread_vars, server_vars
<1>16. CASE ReceiveDrain
  BY <1>16
     DEF ReceiveDrain, deadline_vars, thread_vars, server_vars
<1>17. CASE ChannelClosed
  BY <1>17
     DEF ChannelClosed, Exits, deadline_vars, thread_vars, server_vars
<1>18. CASE RecvTimesOut
  BY <1>18
     DEF RecvTimesOut, deadline_vars, thread_vars, server_vars
<1>19. CASE SweepResidual
  BY <1>19
     DEF SweepResidual, Exits, deadline_vars, thread_vars, server_vars
<1>20. CASE Encode
  BY <1>20
     DEF Encode, ConsumeStep, Drops, deadline_vars, thread_vars, server_vars
<1>21. CASE SnapshotDeadline
  BY <1>21
     DEF SnapshotDeadline, ConsumeStep, deadline_vars, thread_vars, server_vars
<1>22. CASE CheckDeadline
  BY <1>22
     DEF CheckDeadline, ConsumeStep, Drops, deadline_vars, thread_vars, server_vars
<1>23. CASE Post
  BY <1>23
     DEF Post, ConsumeStep, Drops, deadline_vars, thread_vars, server_vars
<1>24. CASE Wake
  BY <1>24
     DEF Wake, ConsumeStep, deadline_vars, thread_vars, server_vars
<1>25. CASE BumpDropCounterOnDrop
  BY <1>25
     DEF BumpDropCounterOnDrop, ConsumeStep, CountDropped, deadline_vars, thread_vars,
         server_vars
<1>26. CASE Release
  BY <1>26
     DEF Release, ConsumeStep, deadline_vars, thread_vars, server_vars
<1>27. CASE PushNotice
  BY <1>27
     DEF PushNotice, ConsumeStep, deadline_vars, thread_vars, server_vars
<1>28. CASE Panic
  BY <1>28
     DEF Panic, deadline_vars, thread_vars, server_vars
<1>29. CASE UNCHANGED vars
  BY <1>29 DEF vars, deadline_vars, thread_vars, server_vars
<1> QED
  BY <1>1, <1>2, <1>3, <1>4, <1>5, <1>6, <1>7, <1>8, <1>9, <1>10, <1>11, <1>12, <1>13, <1>14,
     <1>15, <1>16, <1>17, <1>18, <1>19, <1>20, <1>21, <1>22, <1>23, <1>24, <1>25, <1>26, <1>27,
     <1>28, <1>29
     DEF Next, Requesting, RInit, ShuttingDown, Receiving, Consuming, Terminated

\* The notices say the same when they, what was given up and what is still
\* untold stay the same.
LEMMA SameNotices ==
    ASSUME NoticesExact, UNCHANGED <<notices, emitted>>,
           UNCHANGED flushed, \A i \in Numbers : fate'[i] = "given_up" <=> fate[i] = "given_up",
           \/ shipper_pc \notin {"release", "notice"} /\ shipper_pc' \notin {"release", "notice"}
           \/ shipper_pc \in {"release", "notice"} /\ shipper_pc' \in {"release", "notice"} /\ UNCHANGED batch,
           php_pc' = "down" => php_pc = "down"
    PROVE  NoticesExact'
<1>1. WithFate({"given_up"})' = WithFate({"given_up"})
  BY DEF WithFate, Numbers
<1> QED BY <1>1 DEF NoticesExact

\* A flush tells nothing.
LEMMA FlushNotices ==
    ASSUME ControlTypeOK, HistoryTypeOK, ChannelTypeOK, LifeInv, NoticesExact, Flush \/ RShutdownRelease
    PROVE  NoticesExact'
<1>1. UNCHANGED <<shipper_pc, batch, notices, emitted>> /\ php_pc' # "down"
  BY DEF Flush, RShutdownRelease, thread_vars, notice_vars
<1>2. WithFate({"given_up"})' = WithFate({"given_up"})
  <2>1. CASE UNCHANGED <<channel_vars, bytes_in_memory, server_vars>>
    BY <2>1 DEF channel_vars, server_vars, Numbers, WithFate
  <2>2. ASSUME NEW what \in {"queued", "refusing", "disconnected", "no_sender"},
               Numbers' = Numbers \cup {Len(flushed) + 1},
               fate'[Len(flushed) + 1] = what, \A i \in Numbers : fate'[i] = fate[i]
        PROVE  WithFate({"given_up"})' = WithFate({"given_up"})
    BY <2>2 DEF WithFate
  <2> QED BY <2>1, <2>2, FlushCases
<1> QED BY <1>1, <1>2 DEF NoticesExact

\* Emitting the queued notices tells nothing new and forgets nothing.
LEMMA EmitTells ==
    ASSUME HistoryTypeOK, ChannelTypeOK, NoticesExact, EmitNotices, UNCHANGED <<flushed, fate, shipper_pc, batch>>
    PROVE  NoticesExact'
<1>1. emitted' \o notices' = emitted \o notices /\ notices' = <<>>
  BY ConcatProperties, ConcatEmptySeq, EmptySeq DEF EmitNotices, ChannelTypeOK
<1>2. WithFate({"given_up"})' = WithFate({"given_up"})
  BY DEF WithFate, Numbers
<1> QED BY <1>1, <1>2 DEF NoticesExact

\* Each action keeps the notices those of the batches given up on.
LEMMA NoticeStep ==
    ASSUME FlagsTypeOK, ControlTypeOK, HistoryTypeOK, ChannelTypeOK,
           LifeInv, DeadlineInv, ThreadInv, QueueInv, FateInv, OrderInv, NoticesExact, [Next]_vars
    PROVE  NoticesExact'
<1> USE DEF ThreadInv, FateInv, Numbers
<1>1. CASE InstallChannel
  BY <1>1, SameNotices
     DEF InstallChannel, channel_vars, thread_vars, notice_vars, server_vars
<1>2. CASE RInitNoSpawn
  BY <1>2, SameNotices
     DEF RInitNoSpawn, StartRequest, channel_vars, thread_vars, notice_vars, server_vars
<1>3. CASE RInitSpawns
  BY <1>3, SameNotices
     DEF RInitSpawns, StartRequest, channel_vars, thread_vars, notice_vars, server_vars,
         LifeInv
<1>4. CASE RInitSpawnFails
  BY <1>4, SameNotices
     DEF RInitSpawnFails, StartRequest, channel_vars, thread_vars, notice_vars, server_vars
<1>5. CASE Flush
  BY <1>5, FlushNotices DEF Numbers, FateInv, ThreadInv
<1>6. CASE DiscardRefused
  <2>1. refused \in Numbers /\ refused # 0 /\ fate[refused] = "refusing"
    BY <1>6 DEF DiscardRefused, ChannelTypeOK
  <2>2. fate'[refused] = "refused" /\ \A i \in Numbers : i # refused => fate'[i] = fate[i]
    BY <1>6, <2>1, FateExcept DEF DiscardRefused, Fates
  <2> QED BY <1>6, <2>1, <2>2, SameNotices DEF DiscardRefused, thread_vars, notice_vars
<1>7. CASE RShutdownRelease
  BY <1>7, FlushNotices DEF Numbers, FateInv, ThreadInv
<1>8. CASE RShutdownNotices
  BY <1>8, EmitTells DEF RShutdownNotices, channel_vars, thread_vars, server_vars
<1>9. CASE MShutdown
  BY <1>9, SameNotices
     DEF MShutdown, channel_vars, thread_vars, notice_vars, server_vars
<1>10. CASE DeadlinePasses
  BY <1>10, SameNotices
     DEF DeadlinePasses, channel_vars, thread_vars, notice_vars, server_vars
<1>11. CASE SendDrain
  BY <1>11, SameNotices
     DEF SendDrain, channel_vars, thread_vars, notice_vars, server_vars
<1>12. CASE Join
  BY <1>12, SameNotices
     DEF Join, channel_vars, thread_vars, notice_vars, server_vars
<1>13. CASE MShutdownNotices
  BY <1>13, EmitTells DEF MShutdownNotices, channel_vars, thread_vars, server_vars
<1>14. CASE LoopHead
  BY <1>14, SameNotices
     DEF LoopHead, channel_vars, thread_vars, notice_vars, server_vars
<1>15. CASE ReceiveBatch
  <2>1. Head(queue) \in Numbers /\ 1 \in DOMAIN queue /\ Head(queue) = queue[1]
    BY <1>15, TailShape DEF ReceiveBatch, ChannelTypeOK
  <2>2. fate'[Head(queue)] = "in_flight" /\ \A i \in Numbers : i # Head(queue) => fate'[i] = fate[i]
    BY <1>15, <2>1, FateExcept DEF ReceiveBatch, Fates
  <2>3. fate[queue[1]] = "queued"
    BY <1>15, <2>1 DEF ReceiveBatch, QueueInv
  <2> QED BY <1>15, <2>1, <2>2, <2>3, SameNotices DEF ReceiveBatch, notice_vars
<1>16. CASE ReceiveDrain
  BY <1>16, SameNotices
     DEF ReceiveDrain, channel_vars, thread_vars, notice_vars, server_vars
<1>17. CASE ChannelClosed
  BY <1>17, SameNotices
     DEF ChannelClosed, Exits, channel_vars, thread_vars, notice_vars, server_vars
<1>18. CASE RecvTimesOut
  BY <1>18, SameNotices
     DEF RecvTimesOut, channel_vars, thread_vars, notice_vars, server_vars
<1>19. CASE SweepResidual
  <2>1. ToSet(queue) \ {DRAIN} = {}
    BY <1>19 DEF SweepResidual, ToSet, QueueInv
  <2>2. fate' = [i \in DOMAIN fate |-> fate[i]] /\ UNCHANGED <<batch, flushed>>
    BY <1>19, <2>1 DEF SweepResidual, Exits
  <2>3. \A i \in Numbers : fate'[i] = fate[i]
    BY <2>2, NumbersAre
  <2> QED BY <1>19, <2>2, <2>3, SameNotices DEF SweepResidual, Exits, notice_vars
<1>20. CASE Encode
  BY <1>20, SameNotices
     DEF Encode, ConsumeStep, Drops, channel_vars, thread_vars, notice_vars, server_vars
<1>21. CASE SnapshotDeadline
  BY <1>21, SameNotices
     DEF SnapshotDeadline, ConsumeStep, channel_vars, thread_vars, notice_vars, server_vars
<1>22. CASE CheckDeadline
  BY <1>22, SameNotices
     DEF CheckDeadline, ConsumeStep, Drops, channel_vars, thread_vars, notice_vars, server_vars
<1>23. CASE Post
  BY <1>23, SameNotices
     DEF Post, ConsumeStep, Drops, channel_vars, thread_vars, notice_vars, server_vars
<1>24. CASE Wake
  BY <1>24, SameNotices
     DEF Wake, ConsumeStep, channel_vars, thread_vars, notice_vars, server_vars
<1>25. CASE BumpDropCounterOnDrop
  <2>1. batch \in Numbers /\ fate[batch] = "in_flight"
    BY <1>25 DEF BumpDropCounterOnDrop, ConsumeStep, ChannelTypeOK, FateInv, ThreadInv, Sending
  <2>2. fate' = [fate EXCEPT ![batch] = IF outcome = "dropped" THEN "given_up" ELSE "delivered"]
    BY <1>25 DEF BumpDropCounterOnDrop
  <2>3. /\ fate'[batch] = (IF outcome = "dropped" THEN "given_up" ELSE "delivered")
        /\ \A i \in Numbers : i # batch => fate'[i] = fate[i]
    BY <1>25, <2>1, <2>2, FateExcept
       DEF BumpDropCounterOnDrop, ConsumeStep, channel_vars, Fates
  <2>4. UNCHANGED <<flushed, batch, notices, emitted, php_pc>> /\ shipper_pc = "outcome" /\ shipper_pc' = "release"
    BY <1>25 DEF BumpDropCounterOnDrop, ConsumeStep, channel_vars, notice_vars
  <2>5. (WithFate({"given_up"}) \ {batch})' = WithFate({"given_up"})
    BY <2>1, <2>3, <2>4 DEF WithFate
  <2> QED BY <2>4, <2>5 DEF NoticesExact
<1>26. CASE Release
  BY <1>26, SameNotices
     DEF Release, ConsumeStep, channel_vars, thread_vars, notice_vars, server_vars
<1>27. CASE PushNotice
  <2>1. /\ batch \in Numbers /\ batch # 0 /\ UNCHANGED <<flushed, fate, emitted, php_pc>>
        /\ shipper_pc = "notice" /\ shipper_pc' \notin {"release", "notice"}
    BY <1>27 DEF PushNotice, ConsumeStep, ChannelTypeOK, Settling, channel_vars, server_vars
  <2>2. WithFate({"given_up"})' = WithFate({"given_up"})
    BY <2>1 DEF WithFate
  <2>3. CASE outcome # "dropped"
    <3>1. notices' = notices /\ batch \notin WithFate({"given_up"})
      BY <1>27, <2>1, <2>3 DEF PushNotice, WithFate, Settling
    <3> QED BY <2>1, <2>2, <3>1 DEF NoticesExact
  <2>4. CASE outcome = "dropped"
    <3> DEFINE told == emitted \o notices
    <3> DEFINE more == Append(told, batch)
    <3>1. /\ told \in Seq(Numbers) /\ emitted \in Seq(Numbers) /\ notices \in Seq(Numbers)
          /\ notices' = Append(notices, batch)
      BY <1>27, <2>4, ConcatProperties DEF PushNotice, ChannelTypeOK
    <3>2. (emitted \o notices)' = more
      BY <2>1, <3>1 
    <3>10. more = Append(told, batch)
      OBVIOUS
    <3> HIDE DEF told, more, Numbers
    <3>3. /\ DOMAIN told = 1..Len(told) /\ Len(told) \in Nat
          /\ DOMAIN more = DOMAIN told \cup {Len(told) + 1}
          /\ more[Len(told) + 1] = batch /\ \A k \in DOMAIN told : more[k] = told[k]
      <4>1. /\ Len(told) \in Nat /\ DOMAIN told = 1..Len(told)
            /\ more \in Seq(Numbers) /\ Len(more) = Len(told) + 1
            /\ more[Len(told) + 1] = batch /\ \A k \in 1..Len(told) : more[k] = told[k]
        BY <2>1, <3>1, <3>10, AppendProperties, LenProperties
      <4> QED BY <4>1, LenProperties
    <3>4. /\ ToSet(told) = WithFate({"given_up"}) \ {batch}
          /\ \A k, l \in DOMAIN told : k < l => told[k] < told[l]
          /\ php_pc = "down" => notices = <<>>
      BY <2>1 DEF NoticesExact, told
    <3>5. batch \in WithFate({"given_up"})
      BY <2>1, <2>4 DEF WithFate, Settling
    <3>6. ToSet(more) = WithFate({"given_up"})
      BY <3>3, <3>4, <3>5 DEF ToSet
    <3>7. \A k \in DOMAIN told : told[k] < batch
      <4> TAKE k \in DOMAIN told
      <4>1. told[k] \in WithFate({"given_up"}) /\ told[k] # batch
        BY <3>4 DEF ToSet
      <4>2. told[k] \in Numbers /\ told[k] <= batch /\ told[k] \in Nat /\ batch \in Nat
        BY <2>1, <4>1, NumbersAre DEF WithFate, OrderInv, Consumed
      <4> QED BY <4>1, <4>2
    <3>8. \A k, l \in DOMAIN more : k < l => more[k] < more[l]
      BY <3>3, <3>4, <3>7
    <3>9. php_pc' # "down"
      BY <2>1 DEF LifeInv
    <3> QED BY <2>1, <2>2, <3>2, <3>6, <3>8, <3>9 DEF NoticesExact
  <2> QED BY <2>3, <2>4
<1>28. CASE Panic
  <2>1. batch' = 0 /\ UNCHANGED flushed
    BY <1>28 DEF Panic
  <2>2. \A i \in Numbers : fate'[i] = IF fate[i] \in {"queued", "in_flight"} THEN "lost_in_panic" ELSE fate[i]
    BY <1>28, NumbersAre DEF Panic
  <2> QED BY <1>28, <2>1, <2>2, SameNotices DEF Panic, notice_vars
<1>29. CASE UNCHANGED vars
  BY <1>29 DEF vars, channel_vars, thread_vars, notice_vars, server_vars, NoticesExact,
     WithFate
<1> QED
  BY <1>1, <1>2, <1>3, <1>4, <1>5, <1>6, <1>7, <1>8, <1>9, <1>10, <1>11, <1>12, <1>13, <1>14,
     <1>15, <1>16, <1>17, <1>18, <1>19, <1>20, <1>21, <1>22, <1>23, <1>24, <1>25, <1>26, <1>27,
     <1>28, <1>29
     DEF Next, Requesting, RInit, ShuttingDown, Receiving, Consuming, Terminated

-----------------------------------------------------------------------------
(* Records over sets of batches.                                           *)

\* RecordsIn, of a history.
RecordsOf(history) == [i \in DOMAIN history |-> history[i].records]
SumOver(history, batches) == TotalIn(RecordsOf(history), batches)

\* A batch's size counts and its trace has a counter.
LEMMA BatchIsCounted == \A b \in Batches : b.records \in Nat /\ b.trace \in Requests
<1> TAKE b \in Batches
<1>1. b.records \in RecordCounts /\ b.trace \in Requests
  BY DEF Batches
<1> QED BY <1>1, ConfigAssumption DEF ConfigAssumption

\* The weights: one per batch.
LEMMA RecordsOfIs ==
    ASSUME NEW h \in Seq(Batches)
    PROVE  /\ RecordsOf(h) \in Seq(Nat) /\ Len(RecordsOf(h)) = Len(h) /\ Len(h) \in Nat
           /\ \A i \in 1..Len(h) : RecordsOf(h)[i] = h[i].records /\ h[i].records \in Nat
<1>1. Len(h) \in Nat /\ DOMAIN h = 1..Len(h)
  BY LenProperties
<1>2. \A i \in 1..Len(h) : h[i].records \in Nat
  BY ElementOfSeq, BatchIsCounted
<1>3. RecordsOf(h) \in [1..Len(h) -> Nat]
  BY <1>1, <1>2 DEF RecordsOf
<1> QED BY <1>1, <1>2, <1>3, FunctionIsSeq DEF RecordsOf

\* Such a sum is a natural number.
LEMMA SumTyped ==
    ASSUME NEW h \in Seq(Batches), NEW A
    PROVE  SumOver(h, A) \in Nat
BY RecordsOfIs, TotalInIsNat DEF SumOver

\* Only the batches of the history count.
LEMMA SumSame ==
    ASSUME NEW h \in Seq(Batches), NEW A, NEW B, \A i \in 1..Len(h) : i \in A <=> i \in B
    PROVE  SumOver(h, A) = SumOver(h, B)
BY RecordsOfIs, TotalInSame DEF SumOver

\* A set with no batch of the history has no records.
LEMMA SumNone ==
    ASSUME NEW h \in Seq(Batches), NEW A, \A i \in 1..Len(h) : i \notin A
    PROVE  SumOver(h, A) = 0
BY RecordsOfIs, TotalInNone DEF SumOver

\* One batch more.
LEMMA SumGain ==
    ASSUME NEW h \in Seq(Batches), NEW A, NEW B, NEW k \in 1..Len(h), k \notin A, k \in B,
           \A i \in 1..Len(h) : i # k => (i \in A <=> i \in B)
    PROVE  SumOver(h, B) = SumOver(h, A) + h[k].records
<1>1. SumOver(h, B) = SumOver(h, A) + RecordsOf(h)[k]
  BY RecordsOfIs, TotalInGain DEF SumOver
<1> QED BY <1>1, RecordsOfIs

\* More batches, no fewer records.
LEMMA SumMonotone ==
    ASSUME NEW h \in Seq(Batches), NEW A, NEW B, A \subseteq B
    PROVE  SumOver(h, A) <= SumOver(h, B)
BY RecordsOfIs, TotalInMonotone DEF SumOver

\* The history grows by one batch.
LEMMA SumAppend ==
    ASSUME NEW h \in Seq(Batches), NEW b \in Batches, NEW A, NEW B,
           \A i \in 1..Len(h) : i \in A <=> i \in B
    PROVE  SumOver(Append(h, b), B)
                = SumOver(h, A) + (IF Len(h) + 1 \in B THEN b.records ELSE 0)
<1> DEFINE g == Append(h, b)
<1>1. /\ g \in Seq(Batches) /\ Len(g) = Len(h) + 1 /\ g[Len(h) + 1] = b
      /\ \A i \in 1..Len(h) : g[i] = h[i]
      /\ Len(h) \in Nat /\ b.records \in Nat
  BY AppendProperties, LenProperties, BatchIsCounted
<1> HIDE DEF g
<1>2. RecordsOf(g) = Append(RecordsOf(h), b.records)
  <2> DEFINE v == Append(RecordsOf(h), b.records)
  <2>1. /\ v \in Seq(Nat) /\ Len(v) = Len(h) + 1 /\ v[Len(h) + 1] = b.records
        /\ \A i \in 1..Len(h) : v[i] = RecordsOf(h)[i]
    BY <1>1, RecordsOfIs, AppendProperties
  <2> HIDE DEF v
  <2>2. \A i \in 1..(Len(h) + 1) : RecordsOf(g)[i] = v[i]
    <3> TAKE i \in 1..(Len(h) + 1)
    <3>1. RecordsOf(g)[i] = g[i].records
      BY <1>1, RecordsOfIs
    <3>2. i \in 1..Len(h) \/ i = Len(h) + 1
      BY <1>1
    <3> QED BY <1>1, <2>1, <3>1, <3>2, RecordsOfIs
  <2> QED BY <1>1, <2>1, <2>2, RecordsOfIs, SameSequence DEF v
<1>3. TotalIn(Append(RecordsOf(h), b.records), B)
            = TotalIn(RecordsOf(h), A) + (IF Len(RecordsOf(h)) + 1 \in B THEN b.records ELSE 0)
  BY <1>1, RecordsOfIs, TotalInAppend
<1> QED BY <1>2, <1>3, RecordsOfIs DEF SumOver, g

\* What the ledgers say, of a history.
LEMMA RecordsAre ==
    /\ \A A : RecordsIn(A) = SumOver(flushed, A)
    /\ HistoryTypeOK => flushed \in Seq(Batches) /\ Numbers = 1..Len(flushed)
    /\ HistoryTypeOK' => flushed' \in Seq(Batches) /\ Numbers' = 1..Len(flushed')
BY LenProperties DEF RecordsIn, SumOver, RecordsOf, HistoryTypeOK, Batches, Numbers

-----------------------------------------------------------------------------
(* The budget.                                                             *)

\* The batches whose records the budget is billed for.
Held == WithFate({"queued", "refusing", "in_flight", "lost_in_panic"})
            \cup (IF shipper_pc = "release" THEN {batch} ELSE {})

\* The budget's claim, of the history.
LEMMA BudgetIs ==
    /\ BudgetExact <=> bytes_in_memory = SumOver(flushed, Held)
    /\ BudgetExact' <=> bytes_in_memory' = SumOver(flushed', Held')
BY DEF BudgetExact, RecordsIn, SumOver, RecordsOf, Held

\* A step that bills nothing and gives nothing back.
LEMMA SameBudget ==
    ASSUME HistoryTypeOK, BudgetExact, UNCHANGED <<flushed, bytes_in_memory>>,
           \A i \in Numbers : i \in Held' <=> i \in Held
    PROVE  BudgetExact'
<1>1. SumOver(flushed, Held) = SumOver(flushed', Held')
  BY RecordsAre, SumSame
<1> QED BY <1>1, BudgetIs

\* Giving back one batch's records.
LEMMA LessBudget ==
    ASSUME HistoryTypeOK, BudgetExact, UNCHANGED flushed, NEW k \in Numbers,
           bytes_in_memory' = bytes_in_memory - flushed[k].records,
           k \in Held, k \notin Held',
           \A i \in Numbers : i # k => (i \in Held' <=> i \in Held)
    PROVE  BudgetExact'
<1>1. flushed \in Seq(Batches) /\ Numbers = 1..Len(flushed)
  BY RecordsAre
<1>2. SumOver(flushed, Held) = SumOver(flushed, Held') + flushed[k].records
  BY <1>1, SumGain
<1>3. SumOver(flushed, Held') \in Nat /\ flushed[k].records \in Nat
  BY <1>1, SumTyped, BatchTyped
<1> QED BY <1>2, <1>3, BudgetIs

\* A flush bills a batch exactly when the channel or the refusing arm takes it.
LEMMA FlushBudget ==
    ASSUME ControlTypeOK, HistoryTypeOK, ChannelTypeOK, LifeInv, ThreadInv, BudgetExact,
           Flush \/ RShutdownRelease
    PROVE  BudgetExact'
<1>1. UNCHANGED <<shipper_pc, batch>>
  BY DEF Flush, RShutdownRelease, thread_vars
<1>2. CASE UNCHANGED <<channel_vars, bytes_in_memory, server_vars>>
  BY <1>1, <1>2, SameBudget DEF channel_vars, server_vars, Numbers, Held, WithFate
<1>3. ASSUME NEW n \in RecordCounts, NEW what \in {"queued", "refusing", "disconnected", "no_sender"},
             Record(n, what), request \in Requests,
             Numbers' = Numbers \cup {Len(flushed) + 1},
             fate'[Len(flushed) + 1] = what, \A i \in Numbers : fate'[i] = fate[i],
             IF what \in {"queued", "refusing"}
             THEN bytes_in_memory' = bytes_in_memory + n
             ELSE bytes_in_memory' = bytes_in_memory
      PROVE  BudgetExact'
  <2> DEFINE m == Len(flushed) + 1
  <2> DEFINE b == [trace |-> request, records |-> n]
  <2>1. flushed \in Seq(Batches) /\ Numbers = 1..Len(flushed) /\ Len(flushed) \in Nat
    BY RecordsAre, NumbersAre
  <2>2. b \in Batches /\ flushed' = Append(flushed, b) /\ b.records = n /\ n \in Nat
    BY <1>3, ConfigAssumption DEF Batches, Record, ConfigAssumption
  <2>3. m \notin Numbers /\ batch # m
    BY <2>1 DEF ChannelTypeOK
  <2>4. \A i \in 1..Len(flushed) : i \in Held <=> i \in Held'
    BY <1>1, <1>3, <2>1 DEF Held, WithFate
  <2>5. m \in Held' <=> what \in {"queued", "refusing"}
    BY <1>1, <1>3, <2>3 DEF Held, WithFate
  <2> HIDE DEF b
  <2>6. SumOver(flushed', Held') = SumOver(flushed, Held) + (IF m \in Held' THEN n ELSE 0)
    BY <2>1, <2>2, <2>4, SumAppend
  <2>7. SumOver(flushed, Held) \in Nat
    BY <2>1, SumTyped
  <2>8. CASE what \in {"queued", "refusing"}
    BY <1>3, <2>5, <2>6, <2>8, BudgetIs
  <2>9. CASE what \notin {"queued", "refusing"}
    BY <1>3, <2>5, <2>6, <2>7, <2>9, BudgetIs
  <2> QED BY <2>8, <2>9
<1> QED BY <1>2, <1>3, FlushCases

\* Each action bills and gives back exactly what it should.
LEMMA BudgetStep ==
    ASSUME FlagsTypeOK, ControlTypeOK, HistoryTypeOK, ChannelTypeOK,
           LifeInv, DeadlineInv, ThreadInv, QueueInv, FateInv, BudgetExact, [Next]_vars
    PROVE  BudgetExact'
<1> USE DEF Numbers, Held, WithFate
<1>1. CASE InstallChannel
  BY <1>1, SameBudget
     DEF InstallChannel, channel_vars, count_vars, thread_vars, server_vars
<1>2. CASE RInitNoSpawn
  BY <1>2, SameBudget
     DEF RInitNoSpawn, StartRequest, channel_vars, count_vars, thread_vars, server_vars
<1>3. CASE RInitSpawns
  BY <1>3, SameBudget
     DEF RInitSpawns, StartRequest, channel_vars, count_vars, thread_vars, server_vars, LifeInv
<1>4. CASE RInitSpawnFails
  BY <1>4, SameBudget
     DEF RInitSpawnFails, StartRequest, channel_vars, count_vars, thread_vars, server_vars
<1>5. CASE Flush
  BY <1>5, FlushBudget DEF Numbers, Held, WithFate
<1>6. CASE DiscardRefused
  <2>1. refused \in Numbers /\ refused # 0 /\ fate[refused] = "refusing"
    BY <1>6 DEF DiscardRefused, ChannelTypeOK, FateInv
  <2>2. fate'[refused] = "refused" /\ \A i \in Numbers : i # refused => fate'[i] = fate[i]
    BY <1>6, <2>1, FateExcept DEF DiscardRefused, Fates
  <2>3. shipper_pc = "release" => fate[batch] # "refusing"
    BY <2>1 DEF FateInv, Settling
  <2>4. refused \notin Held' /\ refused \in Held
    BY <1>6, <2>1, <2>2, <2>3 DEF DiscardRefused, thread_vars
  <2>5. \A i \in Numbers : i # refused => (i \in Held' <=> i \in Held)
    BY <1>6, <2>1, <2>2 DEF DiscardRefused, thread_vars
  <2>6. UNCHANGED flushed /\ bytes_in_memory' = bytes_in_memory - flushed[refused].records
    BY <1>6 DEF DiscardRefused
  <2> HIDE DEF Held, Numbers
  <2> QED BY <2>1, <2>4, <2>5, <2>6, LessBudget
<1>7. CASE RShutdownRelease
  BY <1>7, FlushBudget DEF Numbers, Held, WithFate
<1>8. CASE RShutdownNotices
  BY <1>8, SameBudget
     DEF RShutdownNotices, EmitNotices, channel_vars, count_vars, thread_vars, server_vars
<1>9. CASE MShutdown
  BY <1>9, SameBudget
     DEF MShutdown, channel_vars, count_vars, thread_vars, server_vars
<1>10. CASE DeadlinePasses
  BY <1>10, SameBudget
     DEF DeadlinePasses, channel_vars, count_vars, thread_vars, server_vars
<1>11. CASE SendDrain
  BY <1>11, SameBudget
     DEF SendDrain, channel_vars, count_vars, thread_vars, server_vars
<1>12. CASE Join
  BY <1>12, SameBudget
     DEF Join, channel_vars, count_vars, thread_vars, server_vars
<1>13. CASE MShutdownNotices
  BY <1>13, SameBudget
     DEF MShutdownNotices, EmitNotices, channel_vars, count_vars, thread_vars, server_vars
<1>14. CASE LoopHead
  BY <1>14, SameBudget
     DEF LoopHead, channel_vars, count_vars, thread_vars, server_vars
<1>15. CASE ReceiveBatch
  <2>1. Head(queue) \in Numbers /\ 1 \in DOMAIN queue /\ Head(queue) = queue[1]
    BY <1>15, TailShape DEF ReceiveBatch, ChannelTypeOK
  <2>2. fate'[Head(queue)] = "in_flight" /\ \A i \in Numbers : i # Head(queue) => fate'[i] = fate[i]
    BY <1>15, <2>1, FateExcept DEF ReceiveBatch, Fates
  <2>3. fate[queue[1]] = "queued"
    BY <1>15, <2>1 DEF ReceiveBatch, QueueInv
  <2> QED BY <1>15, <2>1, <2>2, <2>3, SameBudget DEF ReceiveBatch, count_vars
<1>16. CASE ReceiveDrain
  BY <1>16, SameBudget
     DEF ReceiveDrain, channel_vars, count_vars, thread_vars, server_vars
<1>17. CASE ChannelClosed
  BY <1>17, SameBudget
     DEF ChannelClosed, Exits, channel_vars, count_vars, thread_vars, server_vars
<1>18. CASE RecvTimesOut
  BY <1>18, SameBudget
     DEF RecvTimesOut, channel_vars, count_vars, thread_vars, server_vars
<1>19. CASE SweepResidual
  <2>1. ToSet(queue) \ {DRAIN} = {}
    BY <1>19 DEF SweepResidual, ToSet, QueueInv
  <2>2. fate' = [i \in DOMAIN fate |-> fate[i]] /\ UNCHANGED <<batch, flushed>>
    BY <1>19, <2>1 DEF SweepResidual, Exits
  <2>3. \A i \in Numbers : fate'[i] = fate[i]
    BY <2>2, NumbersAre
  <2>4. RecordsIn({}) = 0
    BY RecordsAre, SumNone
  <2>5. RecordsIn(ToSet(queue) \ {DRAIN}) = 0
    BY <2>1, <2>4
  <2>6. bytes_in_memory \in Nat
    BY SumTyped, RecordsAre, BudgetIs
  <2>7. UNCHANGED <<bytes_in_memory, flushed, batch>> /\ shipper_pc = "timed_out" /\ shipper_pc' = "exited"
    BY <1>19, <2>2, <2>5, <2>6 DEF SweepResidual, Exits
  <2> QED BY <2>3, <2>7, SameBudget
<1>20. CASE Encode
  BY <1>20, SameBudget
     DEF Encode, ConsumeStep, Drops, channel_vars, count_vars, thread_vars, server_vars
<1>21. CASE SnapshotDeadline
  BY <1>21, SameBudget
     DEF SnapshotDeadline, ConsumeStep, channel_vars, count_vars, thread_vars, server_vars
<1>22. CASE CheckDeadline
  BY <1>22, SameBudget
     DEF CheckDeadline, ConsumeStep, Drops, channel_vars, count_vars, thread_vars, server_vars
<1>23. CASE Post
  BY <1>23, SameBudget
     DEF Post, ConsumeStep, Drops, channel_vars, count_vars, thread_vars, server_vars
<1>24. CASE Wake
  BY <1>24, SameBudget
     DEF Wake, ConsumeStep, channel_vars, count_vars, thread_vars, server_vars
<1>25. CASE BumpDropCounterOnDrop
  <2>1. batch \in Numbers /\ fate[batch] = "in_flight"
    BY <1>25 DEF BumpDropCounterOnDrop, ConsumeStep, ChannelTypeOK, FateInv, ThreadInv, Sending
  <2>2. fate' = [fate EXCEPT ![batch] = IF outcome = "dropped" THEN "given_up" ELSE "delivered"]
    BY <1>25 DEF BumpDropCounterOnDrop
  <2>3. /\ fate'[batch] = (IF outcome = "dropped" THEN "given_up" ELSE "delivered")
        /\ \A i \in Numbers : i # batch => fate'[i] = fate[i]
    BY <1>25, <2>1, <2>2, FateExcept
       DEF BumpDropCounterOnDrop, ConsumeStep, channel_vars, Fates
  <2> QED BY <1>25, <2>1, <2>3, SameBudget DEF BumpDropCounterOnDrop, ConsumeStep, channel_vars
<1>26. CASE Release
  <2>1. batch \in Numbers /\ fate[batch] \in {"given_up", "delivered"}
    BY <1>26 DEF Release, ConsumeStep, ChannelTypeOK, ThreadInv, FateInv, Settling
  <2>2. /\ UNCHANGED <<flushed, fate, batch>> /\ shipper_pc = "release" /\ shipper_pc' = "notice"
        /\ bytes_in_memory' = bytes_in_memory - flushed[batch].records
    BY <1>26 DEF Release, ConsumeStep, channel_vars, server_vars
  <2>3. batch \in Held /\ batch \notin Held' /\ \A i \in Numbers : i # batch => (i \in Held' <=> i \in Held)
    BY <2>1, <2>2
  <2> HIDE DEF Held, Numbers
  <2> QED BY <2>1, <2>2, <2>3, LessBudget
<1>27. CASE PushNotice
  BY <1>27, SameBudget
     DEF PushNotice, ConsumeStep, channel_vars, count_vars, thread_vars, server_vars
<1>28. CASE Panic
  <2>1. batch' = 0 /\ UNCHANGED flushed
    BY <1>28 DEF Panic
  <2>2. \A i \in Numbers : fate'[i] = IF fate[i] \in {"queued", "in_flight"} THEN "lost_in_panic" ELSE fate[i]
    BY <1>28, NumbersAre DEF Panic
  <2> QED BY <1>28, <2>1, <2>2, SameBudget DEF Panic, count_vars
<1>29. CASE UNCHANGED vars
  BY <1>29 DEF vars, channel_vars, count_vars, thread_vars, server_vars, BudgetExact, RecordsIn
<1> QED
  BY <1>1, <1>2, <1>3, <1>4, <1>5, <1>6, <1>7, <1>8, <1>9, <1>10, <1>11, <1>12, <1>13, <1>14,
     <1>15, <1>16, <1>17, <1>18, <1>19, <1>20, <1>21, <1>22, <1>23, <1>24, <1>25, <1>26, <1>27,
     <1>28, <1>29
     DEF Next, Requesting, RInit, ShuttingDown, Receiving, Consuming, Terminated

-----------------------------------------------------------------------------
(* The drop counters.                                                      *)

\* The dropped batches of j's trace before j.
DroppedBefore(j) == {i \in DroppedOf(flushed[j].trace) : i < j}

\* The counters' claim, of the history.
LEMMA CountIs ==
    /\ CountInv <=> /\ \A r \in Requests : drop_counter[r] = SumOver(flushed, DroppedOf(r))
                    /\ \A j \in Stamped : stamp[j] >= SumOver(flushed, DroppedBefore(j))
    /\ CountInv' <=> /\ \A r \in Requests : drop_counter'[r] = SumOver(flushed', DroppedOf(r)')
                     /\ \A j \in Stamped' : stamp'[j] >= SumOver(flushed', DroppedBefore(j)')
BY DEF CountInv, DroppedBefore, RecordsIn, SumOver, RecordsOf

\* A step that drops nothing, and after which no other batch is stamped.
LEMMA SameCount ==
    ASSUME HistoryTypeOK, CountInv, UNCHANGED <<flushed, stamp, drop_counter>>,
           \A i \in Numbers : fate'[i] \in {"refused", "given_up"} <=> fate[i] \in {"refused", "given_up"},
           Stamped' \subseteq Stamped
    PROVE  CountInv'
<1>1. \A r : DroppedOf(r)' = DroppedOf(r)
  BY DEF DroppedOf, Numbers
<1>2. \A j : DroppedBefore(j)' = DroppedBefore(j)
  BY <1>1 DEF DroppedBefore
<1> QED BY <1>1, <1>2, CountIs

\* A step that drops one batch, which no stamped batch comes after.
LEMMA OneMoreDropped ==
    ASSUME HistoryTypeOK, CountInv, drop_counter \in [Requests -> Nat],
           UNCHANGED <<flushed, stamp>>, NEW k \in Numbers,
           CountDropped(k),
           fate[k] \notin {"refused", "given_up"}, fate'[k] \in {"refused", "given_up"},
           \A i \in Numbers : i # k => fate'[i] = fate[i],
           Stamped' \subseteq Stamped, \A j \in Stamped : j <= k
    PROVE  CountInv'
<1>1. flushed \in Seq(Batches) /\ Numbers = 1..Len(flushed) /\ Len(flushed) \in Nat
  BY RecordsAre, NumbersAre
<1> DEFINE t == flushed[k].trace
<1>2. t \in Requests /\ flushed[k].records \in Nat
  BY BatchTyped
<1>3. \A r \in Requests : drop_counter'[r] = SumOver(flushed', DroppedOf(r)')
  <2> TAKE r \in Requests
  <2>1. \A i \in Numbers : i # k => (i \in DroppedOf(r)' <=> i \in DroppedOf(r))
    BY DEF DroppedOf, Numbers
  <2>2. drop_counter[r] = SumOver(flushed, DroppedOf(r)) /\ SumOver(flushed, DroppedOf(r)) \in Nat
    BY <1>1, CountIs, SumTyped
  <2>3. CASE r = t
    <3>1. k \notin DroppedOf(r) /\ k \in DroppedOf(r)'
      BY <2>3 DEF DroppedOf, Numbers
    <3>2. SumOver(flushed, DroppedOf(r)') = SumOver(flushed, DroppedOf(r)) + flushed[k].records
      BY <1>1, <2>1, <3>1, SumGain
    <3> QED BY <1>2, <2>2, <2>3, <3>2 DEF CountDropped
  <2>4. CASE r # t
    <3>1. k \notin DroppedOf(r) /\ k \notin DroppedOf(r)'
      BY <2>4 DEF DroppedOf
    <3>2. SumOver(flushed, DroppedOf(r)') = SumOver(flushed, DroppedOf(r))
      BY <1>1, <2>1, <3>1, SumSame
    <3> QED BY <1>2, <2>2, <2>4, <3>2 DEF CountDropped
  <2> QED BY <2>3, <2>4
<1>4. ASSUME NEW j \in Stamped'
      PROVE  stamp'[j] >= SumOver(flushed', DroppedBefore(j)')
  <2>1. j \in Numbers /\ j <= k /\ j \in Stamped
    BY DEF Stamped
  <2>2. \A i \in 1..Len(flushed) : i \in DroppedBefore(j) <=> i \in DroppedBefore(j)'
    BY <1>1, <2>1 DEF DroppedBefore, DroppedOf, Numbers
  <2>3. SumOver(flushed, DroppedBefore(j)) = SumOver(flushed', DroppedBefore(j)')
    BY <1>1, <2>2, SumSame
  <2> QED BY <2>1, <2>3, CountIs
<1> QED BY <1>3, <1>4, CountIs

\* A flush counts nothing.
LEMMA FlushCount ==
    ASSUME ControlTypeOK, HistoryTypeOK, ChannelTypeOK, LifeInv, ThreadInv, CountInv,
           Flush \/ RShutdownRelease
    PROVE  CountInv'
<1>1. UNCHANGED <<shipper_pc, batch, outcome, drop_counter>>
  BY DEF Flush, RShutdownRelease, thread_vars
<1>2. CASE UNCHANGED <<channel_vars, bytes_in_memory, server_vars>>
  BY <1>1, <1>2, SameCount DEF channel_vars, server_vars, Numbers, Stamped
<1>3. ASSUME NEW n \in RecordCounts, NEW what \in {"queued", "refusing", "disconnected", "no_sender"},
             Record(n, what), request \in Requests,
             Numbers' = Numbers \cup {Len(flushed) + 1},
             fate'[Len(flushed) + 1] = what,
             \A i \in Numbers : fate'[i] = fate[i] /\ stamp'[i] = stamp[i] /\ flushed'[i] = flushed[i]
      PROVE  CountInv'
  <2> DEFINE m == Len(flushed) + 1
  <2> DEFINE b == [trace |-> request, records |-> n]
  <2>1. flushed \in Seq(Batches) /\ Numbers = 1..Len(flushed) /\ Len(flushed) \in Nat
    BY RecordsAre, NumbersAre
  <2>2. b \in Batches /\ flushed' = Append(flushed, b)
    BY <1>3 DEF Batches, Record
  <2>3. m \notin Numbers /\ batch # m
    BY <2>1 DEF ChannelTypeOK
  <2> HIDE DEF b
  <2>4. ASSUME NEW A, m \notin A PROVE SumOver(flushed', A) = SumOver(flushed, A)
    <3>1. SumOver(flushed', A) = SumOver(flushed, A) + 0
      BY <2>1, <2>2, <2>4, SumAppend
    <3> QED BY <2>1, <3>1, SumTyped
  <2>5. \A r : DroppedOf(r)' = DroppedOf(r) /\ m \notin DroppedOf(r)
    BY <1>3, <2>3 DEF DroppedOf
  <2>6. \A j \in Stamped' : j \in Stamped /\ j \in Numbers
    BY <1>1, <1>3, <2>3 DEF Stamped
  <2>7. \A j \in Numbers : DroppedBefore(j)' = DroppedBefore(j) /\ m \notin DroppedBefore(j)
    BY <1>3, <2>5 DEF DroppedBefore
  <2>8. \A r \in Requests : drop_counter'[r] = SumOver(flushed', DroppedOf(r)')
    BY <1>1, <2>4, <2>5, CountIs
  <2>9. \A j \in Stamped' : stamp'[j] >= SumOver(flushed', DroppedBefore(j)')
    BY <1>3, <2>4, <2>6, <2>7, CountIs
  <2> QED BY <2>8, <2>9, CountIs
<1> QED BY <1>2, <1>3, FlushCases

\* Each action counts what it drops, and stamps no less.
LEMMA CountStep ==
    ASSUME FlagsTypeOK, ControlTypeOK, HistoryTypeOK, ChannelTypeOK,
           LifeInv, DeadlineInv, ThreadInv, QueueInv, FateInv,
           OrderInv, CountTypeOK, CountInv, [Next]_vars
    PROVE  CountInv'
<1> USE DEF Numbers, Stamped
<1>1. CASE InstallChannel
  BY <1>1, SameCount
     DEF InstallChannel, channel_vars, count_vars, thread_vars, server_vars
<1>2. CASE RInitNoSpawn
  BY <1>2, SameCount
     DEF RInitNoSpawn, StartRequest, channel_vars, count_vars, thread_vars, server_vars
<1>3. CASE RInitSpawns
  BY <1>3, SameCount
     DEF RInitSpawns, StartRequest, channel_vars, count_vars, thread_vars, server_vars, LifeInv
<1>4. CASE RInitSpawnFails
  BY <1>4, SameCount
     DEF RInitSpawnFails, StartRequest, channel_vars, count_vars, thread_vars, server_vars
<1>5. CASE Flush
  BY <1>5, FlushCount DEF Numbers, Stamped
<1>6. CASE DiscardRefused
  <2>1. refused \in Numbers /\ refused # 0 /\ fate[refused] = "refusing"
    BY <1>6 DEF DiscardRefused, ChannelTypeOK, FateInv
  <2>2. fate'[refused] = "refused" /\ \A i \in Numbers : i # refused => fate'[i] = fate[i]
    BY <1>6, <2>1, FateExcept DEF DiscardRefused, Fates
  <2>3. refused = Len(flushed) /\ Len(flushed) \in Nat /\ Numbers = 1..Len(flushed)
    BY <2>1, NumbersAre DEF ThreadInv
  <2>4. UNCHANGED <<flushed, stamp, batch, shipper_pc, outcome>> /\ CountDropped(refused)
    BY <1>6 DEF DiscardRefused, thread_vars
  <2>5. Stamped' \subseteq Stamped /\ \A j \in Stamped : j <= refused
    BY <2>2, <2>3, <2>4
  <2> HIDE DEF Stamped, Numbers
  <2> QED BY <2>1, <2>2, <2>4, <2>5, OneMoreDropped DEF CountTypeOK
<1>7. CASE RShutdownRelease
  BY <1>7, FlushCount DEF Numbers, Stamped
<1>8. CASE RShutdownNotices
  BY <1>8, SameCount
     DEF RShutdownNotices, EmitNotices, channel_vars, count_vars, thread_vars, server_vars
<1>9. CASE MShutdown
  BY <1>9, SameCount
     DEF MShutdown, channel_vars, count_vars, thread_vars, server_vars
<1>10. CASE DeadlinePasses
  BY <1>10, SameCount
     DEF DeadlinePasses, channel_vars, count_vars, thread_vars, server_vars
<1>11. CASE SendDrain
  BY <1>11, SameCount
     DEF SendDrain, channel_vars, count_vars, thread_vars, server_vars
<1>12. CASE Join
  BY <1>12, SameCount
     DEF Join, channel_vars, count_vars, thread_vars, server_vars
<1>13. CASE MShutdownNotices
  BY <1>13, SameCount
     DEF MShutdownNotices, EmitNotices, channel_vars, count_vars, thread_vars, server_vars
<1>14. CASE LoopHead
  BY <1>14, SameCount
     DEF LoopHead, channel_vars, count_vars, thread_vars, server_vars
<1>15. CASE ReceiveBatch
  <2>1. Head(queue) \in Numbers /\ 1 \in DOMAIN queue /\ Head(queue) = queue[1]
    BY <1>15, TailShape DEF ReceiveBatch, ChannelTypeOK
  <2>2. fate'[Head(queue)] = "in_flight" /\ \A i \in Numbers : i # Head(queue) => fate'[i] = fate[i]
    BY <1>15, <2>1, FateExcept DEF ReceiveBatch, Fates
  <2>3. fate[queue[1]] = "queued"
    BY <1>15, <2>1 DEF ReceiveBatch, QueueInv
  <2> QED BY <1>15, <2>1, <2>2, <2>3, SameCount DEF ReceiveBatch, count_vars
<1>16. CASE ReceiveDrain
  BY <1>16, SameCount
     DEF ReceiveDrain, channel_vars, count_vars, thread_vars, server_vars
<1>17. CASE ChannelClosed
  BY <1>17, SameCount
     DEF ChannelClosed, Exits, channel_vars, count_vars, thread_vars, server_vars
<1>18. CASE RecvTimesOut
  BY <1>18, SameCount
     DEF RecvTimesOut, channel_vars, count_vars, thread_vars, server_vars
<1>19. CASE SweepResidual
  <2>1. ToSet(queue) \ {DRAIN} = {}
    BY <1>19 DEF SweepResidual, ToSet, QueueInv
  <2>2. fate' = [i \in DOMAIN fate |-> fate[i]] /\ UNCHANGED <<batch, flushed>>
    BY <1>19, <2>1 DEF SweepResidual, Exits
  <2>3. \A i \in Numbers : fate'[i] = fate[i]
    BY <2>2, NumbersAre
  <2>4. UNCHANGED <<stamp, drop_counter>> /\ shipper_pc' = "exited"
    BY <1>19 DEF SweepResidual, Exits
  <2> QED BY <2>2, <2>3, <2>4, SameCount
<1>20. CASE Encode
  <2>1. batch \in Numbers /\ batch # 0 /\ shipper_pc = "encode" /\ fate[batch] = "in_flight"
    BY <1>20 DEF Encode, ConsumeStep, ChannelTypeOK, ThreadInv, FateInv, Sending
  <2>2. UNCHANGED <<flushed, fate, batch, drop_counter>>
    BY <1>20 DEF Encode, ConsumeStep, channel_vars, count_vars
  <2>3. CASE Drops /\ UNCHANGED stamp
    BY <2>1, <2>2, <2>3, SameCount DEF Drops
  <2>4. CASE stamp' = [stamp EXCEPT ![batch] = drop_counter[flushed[batch].trace]] /\ shipper_pc' = "head"
    <3> HIDE DEF Numbers
    <3> DEFINE t == flushed[batch].trace
    <3>1. t \in Requests /\ flushed \in Seq(Batches) /\ Numbers = 1..Len(flushed) /\ UNCHANGED Numbers
      BY <2>1, <2>2, BatchTyped, RecordsAre DEF Numbers
    <3>2. DOMAIN stamp = Numbers
      BY NumbersAre, LenProperties DEF HistoryTypeOK
    <3>3. stamp'[batch] = drop_counter[t] /\ \A j \in Numbers : j # batch => stamp'[j] = stamp[j]
      BY <2>1, <2>4, <3>2
    <3>4. \A r : DroppedOf(r)' = DroppedOf(r)
      BY <2>2, <3>1 DEF DroppedOf
    <3>5. \A j : DroppedBefore(j)' = DroppedBefore(j)
      BY <2>2, <3>4 DEF DroppedBefore
    <3>6. \A j \in Stamped' : j = batch \/ (j \in Stamped /\ j \in Numbers)
      BY <2>2, <2>4, <3>1
    <3> HIDE DEF Stamped
    <3>7. ASSUME NEW j \in Stamped' PROVE stamp'[j] >= SumOver(flushed', DroppedBefore(j)')
      <4>1. CASE j # batch
        BY <2>2, <3>3, <3>5, <3>6, <4>1, CountIs
      <4>2. CASE j = batch
        <5>1. DroppedBefore(j) \subseteq DroppedOf(t)
          BY <4>2 DEF DroppedBefore
        <5>2. SumOver(flushed, DroppedBefore(j)) <= SumOver(flushed, DroppedOf(t))
          BY <3>1, <5>1, SumMonotone
        <5>3. drop_counter[t] = SumOver(flushed, DroppedOf(t))
          BY <3>1, CountIs
        <5>4. SumOver(flushed, DroppedBefore(j)) \in Nat /\ SumOver(flushed, DroppedOf(t)) \in Nat
          BY <3>1, SumTyped
        <5> QED BY <2>2, <3>3, <3>5, <4>2, <5>2, <5>3, <5>4
      <4> QED BY <4>1, <4>2
    <3>8. \A r \in Requests : drop_counter'[r] = SumOver(flushed', DroppedOf(r)')
      BY <2>2, <3>4, CountIs
    <3> QED BY <3>7, <3>8, CountIs
  <2> QED BY <1>20, <2>3, <2>4 DEF Encode
<1>21. CASE SnapshotDeadline
  BY <1>21, SameCount
     DEF SnapshotDeadline, ConsumeStep, channel_vars, count_vars, thread_vars, server_vars
<1>22. CASE CheckDeadline
  BY <1>22, SameCount
     DEF CheckDeadline, ConsumeStep, Drops, channel_vars, count_vars, thread_vars, server_vars
<1>23. CASE Post
  BY <1>23, SameCount
     DEF Post, ConsumeStep, Drops, channel_vars, count_vars, thread_vars, server_vars
<1>24. CASE Wake
  BY <1>24, SameCount
     DEF Wake, ConsumeStep, channel_vars, count_vars, thread_vars, server_vars
<1>25. CASE BumpDropCounterOnDrop
  <2>1. batch \in Numbers /\ fate[batch] = "in_flight"
    BY <1>25 DEF BumpDropCounterOnDrop, ConsumeStep, ChannelTypeOK, FateInv, ThreadInv, Sending
  <2>2. fate' = [fate EXCEPT ![batch] = IF outcome = "dropped" THEN "given_up" ELSE "delivered"]
    BY <1>25 DEF BumpDropCounterOnDrop
  <2>3. /\ fate'[batch] = (IF outcome = "dropped" THEN "given_up" ELSE "delivered")
        /\ \A i \in Numbers : i # batch => fate'[i] = fate[i]
    BY <1>25, <2>1, <2>2, FateExcept
       DEF BumpDropCounterOnDrop, ConsumeStep, channel_vars, Fates
  <2>4. /\ UNCHANGED <<flushed, stamp, batch, outcome>> /\ batch # 0
        /\ shipper_pc = "outcome" /\ shipper_pc' = "release" /\ outcome \in {"sent", "dropped"}
    BY <1>25 DEF BumpDropCounterOnDrop, ConsumeStep, channel_vars, ThreadInv, Sending,
       ControlTypeOK, Outcomes
  <2>5. CASE outcome = "sent"
    <3>1. UNCHANGED drop_counter
      BY <1>25, <2>5 DEF BumpDropCounterOnDrop
    <3> QED BY <2>1, <2>3, <2>4, <2>5, <3>1, SameCount
  <2>6. CASE outcome = "dropped"
    <3>1. CountDropped(batch) /\ fate'[batch] = "given_up"
      BY <1>25, <2>3, <2>6 DEF BumpDropCounterOnDrop
    <3>2. Stamped' \subseteq Stamped
      BY <2>1, <2>3, <2>4, <2>6
    <3>3. \A j \in Stamped : j <= batch
      BY <2>4, <2>6 DEF OrderInv, Consumed
    <3> HIDE DEF Stamped, Numbers
    <3> QED BY <2>1, <2>3, <2>4, <3>1, <3>2, <3>3, OneMoreDropped DEF CountTypeOK
  <2> QED BY <2>4, <2>5, <2>6
<1>26. CASE Release
  BY <1>26, SameCount
     DEF Release, ConsumeStep, channel_vars, count_vars, thread_vars, server_vars
<1>27. CASE PushNotice
  BY <1>27, SameCount
     DEF PushNotice, ConsumeStep, channel_vars, count_vars, thread_vars, server_vars, FateInv,
         Settling, ThreadInv
<1>28. CASE Panic
  <2>1. batch' = 0 /\ UNCHANGED flushed
    BY <1>28 DEF Panic
  <2>2. \A i \in Numbers : fate'[i] = IF fate[i] \in {"queued", "in_flight"} THEN "lost_in_panic" ELSE fate[i]
    BY <1>28, NumbersAre DEF Panic
  <2> QED BY <1>28, <2>1, <2>2, SameCount DEF Panic, count_vars
<1>29. CASE UNCHANGED vars
  BY <1>29 DEF vars, channel_vars, count_vars, thread_vars, server_vars, CountInv, RecordsIn,
     DroppedOf
<1> QED
  BY <1>1, <1>2, <1>3, <1>4, <1>5, <1>6, <1>7, <1>8, <1>9, <1>10, <1>11, <1>12, <1>13, <1>14,
     <1>15, <1>16, <1>17, <1>18, <1>19, <1>20, <1>21, <1>22, <1>23, <1>24, <1>25, <1>26, <1>27,
     <1>28, <1>29
     DEF Next, Requesting, RInit, ShuttingDown, Receiving, Consuming, Terminated

\* Counting keeps the counters natural.
LEMMA CountDroppedTyped ==
    ASSUME HistoryTypeOK, CountTypeOK, NEW k \in Numbers, CountDropped(k)
    PROVE  drop_counter' \in [Requests -> Nat]
<1>1. flushed[k].trace \in Requests /\ flushed[k].records \in Nat
  BY BatchTyped
<1> QED BY <1>1 DEF CountDropped, CountTypeOK

\* Each action keeps the counters natural.
LEMMA CounterTypeStep ==
    ASSUME FlagsTypeOK, ControlTypeOK, HistoryTypeOK, ChannelTypeOK,
           LifeInv, DeadlineInv, ThreadInv, QueueInv, FateInv, CountTypeOK, [Next]_vars
    PROVE  (drop_counter \in [Requests -> Nat])'
<1> USE DEF CountTypeOK
<1>1. CASE InstallChannel
  BY <1>1
     DEF InstallChannel, count_vars
<1>2. CASE RInitNoSpawn
  BY <1>2
     DEF RInitNoSpawn, StartRequest, count_vars
<1>3. CASE RInitSpawns
  BY <1>3
     DEF RInitSpawns, StartRequest, count_vars
<1>4. CASE RInitSpawnFails
  BY <1>4
     DEF RInitSpawnFails, StartRequest, count_vars
<1>5. CASE Flush
  BY <1>5
     DEF Flush, TrySendBatch, Record, count_vars
<1>6. CASE DiscardRefused
  BY <1>6, CountDroppedTyped DEF DiscardRefused, ChannelTypeOK
<1>7. CASE RShutdownRelease
  BY <1>7
     DEF RShutdownRelease, TrySendBatch, Record, count_vars
<1>8. CASE RShutdownNotices
  BY <1>8
     DEF RShutdownNotices, EmitNotices, count_vars
<1>9. CASE MShutdown
  BY <1>9
     DEF MShutdown, count_vars
<1>10. CASE DeadlinePasses
  BY <1>10
     DEF DeadlinePasses, count_vars
<1>11. CASE SendDrain
  BY <1>11
     DEF SendDrain, count_vars
<1>12. CASE Join
  BY <1>12
     DEF Join, count_vars
<1>13. CASE MShutdownNotices
  BY <1>13
     DEF MShutdownNotices, EmitNotices, count_vars
<1>14. CASE LoopHead
  BY <1>14
     DEF LoopHead, count_vars
<1>15. CASE ReceiveBatch
  BY <1>15
     DEF ReceiveBatch, count_vars
<1>16. CASE ReceiveDrain
  BY <1>16
     DEF ReceiveDrain, count_vars
<1>17. CASE ChannelClosed
  BY <1>17
     DEF ChannelClosed, Exits, count_vars
<1>18. CASE RecvTimesOut
  BY <1>18
     DEF RecvTimesOut, count_vars
<1>19. CASE SweepResidual
  BY <1>19
     DEF SweepResidual, Exits, count_vars
<1>20. CASE Encode
  BY <1>20
     DEF Encode, ConsumeStep, Drops, count_vars
<1>21. CASE SnapshotDeadline
  BY <1>21
     DEF SnapshotDeadline, ConsumeStep, count_vars
<1>22. CASE CheckDeadline
  BY <1>22
     DEF CheckDeadline, ConsumeStep, Drops, count_vars
<1>23. CASE Post
  BY <1>23
     DEF Post, ConsumeStep, Drops, count_vars
<1>24. CASE Wake
  BY <1>24
     DEF Wake, ConsumeStep, count_vars
<1>25. CASE BumpDropCounterOnDrop
  <2>1. batch \in Numbers
    BY <1>25 DEF BumpDropCounterOnDrop, ConsumeStep, ChannelTypeOK, ThreadInv, Sending
  <2> QED BY <1>25, <2>1, CountDroppedTyped DEF BumpDropCounterOnDrop
<1>26. CASE Release
  BY <1>26
     DEF Release, ConsumeStep, count_vars
<1>27. CASE PushNotice
  BY <1>27
     DEF PushNotice, ConsumeStep, count_vars
<1>28. CASE Panic
  BY <1>28
     DEF Panic, count_vars
<1>29. CASE UNCHANGED vars
  BY <1>29 DEF vars, count_vars
<1> QED
  BY <1>1, <1>2, <1>3, <1>4, <1>5, <1>6, <1>7, <1>8, <1>9, <1>10, <1>11, <1>12, <1>13, <1>14,
     <1>15, <1>16, <1>17, <1>18, <1>19, <1>20, <1>21, <1>22, <1>23, <1>24, <1>25, <1>26, <1>27,
     <1>28, <1>29
     DEF Next, Requesting, RInit, ShuttingDown, Receiving, Consuming, Terminated

-----------------------------------------------------------------------------
(* The invariant is inductive, and what follows from it.                   *)

\* The invariant holds before MINIT.
LEMMA InitIInv ==
    ASSUME Init
    PROVE  IInv
<1> USE DEF Init
<1>1. FlagsTypeOK /\ ControlTypeOK
  <2>1. 0 \in 0..MaxRequests /\ 0 \in 0..RetryCount
    BY ConfigAssumption DEF ConfigAssumption
  <2>2. FlagsTypeOK
    BY DEF FlagsTypeOK
  <2>3. ControlTypeOK
    BY <2>1 DEF ControlTypeOK, PhpPcs, ShipperPcs, Receivers, Outcomes
  <2> QED BY <2>2, <2>3
<1>2. HistoryTypeOK /\ Numbers = {}
  <2>1. HistoryTypeOK
    BY EmptySeq DEF HistoryTypeOK
  <2> QED BY <2>1, NumbersAre, EmptySeq
<1>3. ChannelTypeOK
  BY EmptySeq, ConfigAssumption DEF ChannelTypeOK, ConfigAssumption
<1>4. LifeInv /\ DeadlineInv /\ ThreadInv /\ LateInv
  BY DEF LifeInv, DeadlineInv, ThreadInv, LateInv, Alive, Serving, Leaving, Sending, Settling
<1>5. QueueInv /\ FateInv /\ OrderInv
  BY <1>2, EmptySeq DEF QueueInv, FateInv, OrderInv, Sending, Settling
<1>6. NoticesExact
  <2>1. emitted \o notices = <<>>
    BY EmptySeq, ConcatEmptySeq
  <2> QED BY <1>2, <2>1, EmptySeq DEF NoticesExact, WithFate, ToSet
<1>7. \A A : SumOver(flushed, A) = 0
  BY <1>2, RecordsAre, EmptySeq, SumNone
<1>8. CountInv
  BY <1>2, <1>7, CountIs DEF Stamped
<1>9. BudgetExact
  BY <1>7, BudgetIs
<1>10. CountTypeOK
  BY DEF CountTypeOK
<1> QED BY <1>1, <1>2, <1>3, <1>4, <1>5, <1>6, <1>8, <1>9, <1>10 DEF IInv, TypeOK

\* Every step keeps the invariant.
LEMMA NextIInv ==
    ASSUME IInv, [Next]_vars
    PROVE  IInv'
<1> USE DEF IInv, TypeOK
<1>1. FlagsTypeOK' /\ ControlTypeOK' /\ HistoryTypeOK' /\ ChannelTypeOK'
  BY FlagsStep, ControlStep, HistoryStep, ChannelStep
<1>2. LifeInv' /\ DeadlineInv' /\ ThreadInv' /\ QueueInv'
  BY LifeStep, DeadlineStep, ThreadStep, QueueStep
<1>3. FateInv' /\ OrderInv' /\ LateInv' /\ NoticesExact'
  BY FateStep, OrderStep, LateStep, NoticeStep
<1>4. CountInv' /\ BudgetExact'
  BY CountStep, BudgetStep
<1>5. CountTypeOK'
  <2>1. SumOver(flushed', Held') \in Nat
    BY <1>1, RecordsAre, SumTyped
  <2>2. bytes_in_memory' \in Nat
    BY <1>4, <2>1, BudgetIs
  <2> QED BY <2>2, CounterTypeStep DEF CountTypeOK
<1> QED BY <1>1, <1>2, <1>3, <1>4, <1>5

\* The invariant holds at all times.
LEMMA Invariance == Spec => []IInv
<1>1. Init => IInv
  BY InitIInv
<1>2. IInv /\ [Next]_vars => IInv'
  BY NextIInv
<1> QED BY <1>1, <1>2, PTL DEF Spec

\* Every cell of the shipper keeps the type of its Rust declaration, the
\* channel its bound, and the budget and the drop counters never go negative.
THEOREM TypeCorrect == Spec => []TypeOK
<1>1. IInv => TypeOK
  BY DEF IInv
<1> QED BY <1>1, Invariance, PTL

\* The byte budget is at all times exactly what the batches that somebody still
\* holds, or that were leaked with a panicked thread, were billed for.
THEOREM BudgetIsExact == Spec => []BudgetExact
<1>1. IInv => BudgetExact
  BY DEF IInv
<1> QED BY <1>1, Invariance, PTL

\* One notice per batch given up on, in order, and none left when MSHUTDOWN ends.
THEOREM NoticesAreExact == Spec => []NoticesExact
<1>1. IInv => NoticesExact
  BY DEF IInv
<1> QED BY <1>1, Invariance, PTL

\* A delivered batch reports the records of every batch of its trace dropped
\* before it: the counter is bumped before the next batch is encoded.
THEOREM DropsAreReported == Spec => []LaterBatchReportsDrop
<1>1. ASSUME IInv PROVE LaterBatchReportsDrop
  <2> SUFFICES ASSUME NEW j \in WithFate({"delivered"})
               PROVE  stamp[j] >= RecordsIn({i \in WithFate({"refused", "given_up"}) :
                                               i < j /\ flushed[i].trace = flushed[j].trace})
    BY DEF LaterBatchReportsDrop
  <2>1. j \in Stamped
    BY DEF Stamped, WithFate
  <2>2. {i \in WithFate({"refused", "given_up"}) : i < j /\ flushed[i].trace = flushed[j].trace}
            = {i \in DroppedOf(flushed[j].trace) : i < j}
    BY DEF WithFate, DroppedOf
  <2> QED BY <1>1, <2>1, <2>2 DEF IInv, CountInv
<1>2. IInv => LaterBatchReportsDrop
  BY <1>1
<1> QED BY <1>2, Invariance, PTL

\* When MSHUTDOWN returns no batch is left in the channel or with the thread,
\* unless the thread never started or died, and the sweep never dropped one.
THEOREM NothingIsLeftBehind == Spec => []NoBatchLeftBehind
<1>1. ASSUME IInv PROVE NoBatchLeftBehind
  <2>1. NothingAbandoned
    BY <1>1 DEF IInv, FateInv, NothingAbandoned, WithFate
  <2>2. ASSUME php_pc = "down"
        PROVE  /\ ToSet(queue) \subseteq {DRAIN}
               /\ \A i \in Numbers : \/ fate[i] \in {"delivered", "refused", "given_up"}
                                     \/ fate[i] = "no_sender" /\ spawn_failed
                                     \/ fate[i] \in {"disconnected", "lost_in_panic"}
                                           /\ shipper_pc = "panicked"
    <3>1. shipper_pc \in {"none", "exited", "panicked"} /\ refused = 0 /\ batch = 0
      BY <1>1, <2>2 DEF IInv, LifeInv, ThreadInv, Sending, Settling
    <3>2. \A k \in DOMAIN queue : queue[k] = DRAIN
      <4>1. CASE spawned \/ spawn_failed
        <5>1. receiver = "dropped"
          BY <1>1, <3>1, <4>1 DEF IInv, LifeInv
        <5> QED BY <1>1, <5>1, EmptySeq DEF IInv, QueueInv
      <4>2. CASE ~spawned /\ ~spawn_failed
        <5>1. Numbers = {}
          BY <1>1, <4>2, NumbersAre, EmptySeq DEF IInv, TypeOK, LifeInv, ThreadInv
        <5> QED BY <1>1, <5>1, ElementOfSeq, LenProperties DEF IInv, TypeOK, ChannelTypeOK
      <4> QED BY <1>1, <4>1, <4>2 DEF IInv, TypeOK, FlagsTypeOK
    <3>4. ASSUME NEW i \in Numbers
          PROVE  fate[i] \notin {"queued", "refusing", "in_flight", "abandoned"}
      <4>1. i # 0 /\ fate[i] # "queued"
        BY <1>1, <3>2, NumbersAre DEF IInv, TypeOK, QueueInv, DRAIN
      <4> QED BY <1>1, <3>1, <4>1 DEF IInv, FateInv
    <3>5. \A i \in Numbers : fate[i] \in Fates
      BY <1>1, BatchTyped DEF IInv, TypeOK
    <3> QED BY <1>1, <3>2, <3>4, <3>5 DEF IInv, FateInv, ToSet, Fates
  <2> QED BY <2>1, <2>2 DEF NoBatchLeftBehind
<1>2. IInv => NoBatchLeftBehind
  BY <1>1
<1> QED BY <1>2, Invariance, PTL

\* Past the deadline at most the POST under way is still answered.
THEOREM OneLatePost == Spec => []AtMostOneLatePost
<1>1. IInv => AtMostOneLatePost
  BY DEF IInv, LateInv, AtMostOneLatePost
<1> QED BY <1>1, Invariance, PTL

-----------------------------------------------------------------------------
(* The thread counts down.                                                 *)

\* StepsLeft, apart from what the channel holds.
StepsOf(pc, a) ==
    LET retries == 4 * (RetryCount - a)
    IN [none |-> 0, exited |-> 0, panicked |-> 0, timed_out |-> 1, recv |-> 2, drain |-> 2,
        loop |-> 3, notice |-> 4, release |-> 5, outcome |-> 6, sleep |-> retries + 6,
        post |-> retries + 7, check |-> retries + 8, head |-> retries + 9,
        encode |-> StepsPerBatch + 1][pc]

LEMMA StepsLeftAre ==
    /\ StepsLeft = StepsOf(shipper_pc, attempt) + StepsPerBatch * Len(queue)
    /\ StepsLeft' = StepsOf(shipper_pc', attempt') + StepsPerBatch * Len(queue')
BY Zenon DEF StepsLeft, StepsOf

LEMMA StepsOfPcs ==
    ASSUME NEW a \in 0..RetryCount
    PROVE  /\ \A pc \in {"none", "exited", "panicked"} : StepsOf(pc, a) = 0
           /\ StepsOf("timed_out", a) = 1 /\ StepsOf("recv", a) = 2 /\ StepsOf("drain", a) = 2
           /\ StepsOf("loop", a) = 3 /\ StepsOf("notice", a) = 4 /\ StepsOf("release", a) = 5
           /\ StepsOf("outcome", a) = 6
           /\ StepsOf("sleep", a) = 4 * (RetryCount - a) + 6
           /\ StepsOf("post", a) = 4 * (RetryCount - a) + 7
           /\ StepsOf("check", a) = 4 * (RetryCount - a) + 8
           /\ StepsOf("head", a) = 4 * (RetryCount - a) + 9
           /\ StepsOf("encode", a) = StepsPerBatch + 1
BY DEF StepsOf

LEMMA StepsAreNatural ==
    ASSUME NEW a \in 0..RetryCount, NEW pc \in ShipperPcs
    PROVE  StepsPerBatch \in Nat /\ StepsPerBatch = 4 * RetryCount + 9 /\ StepsOf(pc, a) \in Nat
<1>1. RetryCount \in Nat
  BY ConfigAssumption DEF ConfigAssumption
<1>2. StepsPerBatch \in Nat /\ StepsPerBatch = 4 * RetryCount + 9
  BY <1>1 DEF StepsPerBatch
<1>3. 4 * (RetryCount - a) \in Nat
  BY <1>1
<1> QED BY <1>2, <1>3, StepsOfPcs DEF ShipperPcs

\* What is left with the channel as it is, with a message less, or with none.
LEMMA LessIsLeft ==
    ASSUME TypeOK, TypeOK',
           \/ /\ Len(queue') = Len(queue)
              /\ StepsOf(shipper_pc', attempt') < StepsOf(shipper_pc, attempt)
           \/ /\ Len(queue') = Len(queue) - 1
              /\ StepsOf(shipper_pc', attempt') < StepsOf(shipper_pc, attempt) + StepsPerBatch
           \/ /\ queue' = <<>>
              /\ StepsOf(shipper_pc', attempt') < StepsOf(shipper_pc, attempt)
    PROVE  StepsLeft' \in 0..(StepsLeft - 1)
<1> DEFINE k == StepsPerBatch
           l == Len(queue)
           l2 == Len(queue')
           x == StepsOf(shipper_pc, attempt)
           y == StepsOf(shipper_pc', attempt')
<1>1. k \in Nat /\ x \in Nat /\ y \in Nat
  BY StepsAreNatural DEF TypeOK, ControlTypeOK
<1>2. l \in Nat /\ l2 \in Nat
  BY LenProperties DEF TypeOK, ChannelTypeOK
<1>3. StepsLeft = x + k * l /\ StepsLeft' = y + k * l2
  BY StepsLeftAre
<1>4. \/ l2 = l /\ y < x
      \/ l2 = l - 1 /\ y < x + k
      \/ l2 = 0 /\ y < x
  BY EmptySeq
<1> HIDE DEF k, l, l2, x, y
<1>5. k * l \in Nat /\ k * l2 \in Nat /\ k * 0 = 0
  BY <1>1, <1>2
<1>6. l2 = l - 1 => k * l2 = k * l - k
  BY <1>1, <1>2
<1>7. CASE l2 = l /\ y < x
  BY <1>1, <1>3, <1>5, <1>7
<1>8. CASE l2 = l - 1 /\ y < x + k
  <2>1. StepsLeft' = y + (k * l - k)
    BY <1>3, <1>6, <1>8
  <2>2. StepsLeft' \in Nat
    BY <1>1, <1>3, <1>5
  <2> QED BY <1>1, <1>3, <1>5, <1>8, <2>1, <2>2
<1>9. CASE l2 = 0 /\ y < x
  <2>1. StepsLeft' = y
    BY <1>1, <1>3, <1>5, <1>9
  <2> QED BY <1>1, <1>3, <1>5, <1>9, <2>1
<1> QED BY <1>4, <1>7, <1>8, <1>9

LEMMA ThreadWorksOff ==
    ASSUME TypeOK, TypeOK', Receiving \/ Consuming
    PROVE  StepsLeft' \in 0..(StepsLeft - 1)
<1> DEFINE x == StepsOf(shipper_pc, attempt)
           y == StepsOf(shipper_pc', attempt')
<1>1. /\ attempt \in 0..RetryCount /\ attempt' \in 0..RetryCount /\ RetryCount \in Nat
      /\ StepsPerBatch = 4 * RetryCount + 9
  BY ConfigAssumption, StepsAreNatural DEF TypeOK, ControlTypeOK, ConfigAssumption
<1>2. /\ \A pc \in {"none", "exited", "panicked"} : StepsOf(pc, attempt) = 0
      /\ StepsOf("timed_out", attempt) = 1 /\ StepsOf("recv", attempt) = 2
      /\ StepsOf("drain", attempt) = 2 /\ StepsOf("loop", attempt) = 3
      /\ StepsOf("notice", attempt) = 4 /\ StepsOf("release", attempt) = 5
      /\ StepsOf("outcome", attempt) = 6
      /\ StepsOf("sleep", attempt) = 4 * (RetryCount - attempt) + 6
      /\ StepsOf("post", attempt) = 4 * (RetryCount - attempt) + 7
      /\ StepsOf("check", attempt) = 4 * (RetryCount - attempt) + 8
      /\ StepsOf("head", attempt) = 4 * (RetryCount - attempt) + 9
      /\ StepsOf("encode", attempt) = StepsPerBatch + 1
  BY <1>1, StepsOfPcs
<1>3. /\ \A pc \in {"none", "exited", "panicked"} : StepsOf(pc, attempt') = 0
      /\ StepsOf("drain", attempt') = 2 /\ StepsOf("loop", attempt') = 3
      /\ StepsOf("outcome", attempt') = 6
      /\ StepsOf("head", attempt') = 4 * (RetryCount - attempt') + 9
  BY <1>1, StepsOfPcs
<1>4. queue \in Seq(Numbers \cup {DRAIN})
  BY DEF TypeOK, ChannelTypeOK
<1>5. queue # <<>> => Len(Tail(queue)) = Len(queue) - 1
  BY <1>4, HeadTailProperties
<1>6. CASE LoopHead
  <2>1. /\ shipper_pc = "loop" /\ shipper_pc' \in {"drain", "recv"}
        /\ attempt' = attempt /\ queue' = queue
    BY <1>6 DEF LoopHead, channel_vars
  <2> QED BY <1>2, <2>1, LessIsLeft
<1>7. CASE ReceiveBatch
  <2>1. /\ shipper_pc \in {"recv", "drain"} /\ shipper_pc' = "encode"
        /\ attempt' = attempt /\ Len(queue') = Len(queue) - 1
    BY <1>5, <1>7 DEF ReceiveBatch
  <2>2. x = 2 /\ y = StepsPerBatch + 1
    BY <1>2, <2>1
  <2> QED BY <1>1, <2>1, <2>2, LessIsLeft
<1>8. CASE ReceiveDrain
  <2>1. /\ shipper_pc \in {"recv", "drain"} /\ shipper_pc' = "drain"
        /\ attempt' = attempt /\ Len(queue') = Len(queue) - 1
    BY <1>5, <1>8 DEF ReceiveDrain
  <2>2. x = 2 /\ y = 2
    BY <1>2, <2>1
  <2> QED BY <1>1, <2>1, <2>2, LessIsLeft
<1>9. CASE ChannelClosed
  <2>1. /\ shipper_pc \in {"recv", "drain"} /\ shipper_pc' = "exited"
        /\ attempt' = attempt /\ queue' = queue
    BY <1>9 DEF ChannelClosed, Exits
  <2> QED BY <1>2, <2>1, LessIsLeft
<1>10. CASE RecvTimesOut
  <2>1. /\ shipper_pc = "drain" /\ shipper_pc' = "timed_out"
        /\ attempt' = attempt /\ queue' = queue
    BY <1>10 DEF RecvTimesOut, channel_vars
  <2> QED BY <1>2, <2>1, LessIsLeft
<1>11. CASE SweepResidual
  <2>1. /\ shipper_pc = "timed_out" /\ shipper_pc' = "exited"
        /\ attempt' = attempt /\ queue' = <<>>
    BY <1>11 DEF SweepResidual, Exits
  <2> QED BY <1>2, <2>1, LessIsLeft
<1>12. CASE Encode
  <2>1. /\ shipper_pc = "encode" /\ queue' = queue
        /\ \/ attempt' = 0 /\ shipper_pc' = "head"
           \/ attempt' = attempt /\ shipper_pc' = "outcome"
    BY <1>12 DEF Encode, ConsumeStep, Drops, channel_vars
  <2>2. x = 4 * RetryCount + 10 /\ y \in {4 * RetryCount + 9, 6}
    BY <1>1, <1>2, <1>3, <2>1
  <2> QED BY <1>1, <2>1, <2>2, LessIsLeft
<1>13. CASE SnapshotDeadline
  <2>1. /\ shipper_pc = "head" /\ shipper_pc' = "check"
        /\ attempt' = attempt /\ queue' = queue
    BY <1>13 DEF SnapshotDeadline, ConsumeStep, channel_vars
  <2> QED BY <1>1, <1>2, <2>1, LessIsLeft
<1>14. CASE CheckDeadline
  <2>1. /\ shipper_pc = "check" /\ shipper_pc' \in {"outcome", "post"}
        /\ attempt' = attempt /\ queue' = queue
    BY <1>14 DEF CheckDeadline, ConsumeStep, Drops, channel_vars
  <2> QED BY <1>1, <1>2, <2>1, LessIsLeft
<1>15. CASE Post
  <2>1. /\ shipper_pc = "post" /\ shipper_pc' \in {"outcome", "sleep"}
        /\ attempt' = attempt /\ queue' = queue
    BY <1>15 DEF Post, ConsumeStep, Drops, channel_vars
  <2> QED BY <1>1, <1>2, <2>1, LessIsLeft
<1>16. CASE Wake
  <2>1. /\ shipper_pc = "sleep" /\ shipper_pc' = "head"
        /\ attempt' = attempt + 1 /\ queue' = queue
    BY <1>16 DEF Wake, ConsumeStep, channel_vars
  <2>2. x = 4 * (RetryCount - attempt) + 6 /\ y = 4 * (RetryCount - (attempt + 1)) + 9
    BY <1>2, <1>3, <2>1
  <2>3. y < x
    BY <1>1, <2>2
  <2> QED BY <2>1, <2>3, LessIsLeft
<1>17. CASE BumpDropCounterOnDrop
  <2>1. /\ shipper_pc = "outcome" /\ shipper_pc' = "release"
        /\ attempt' = attempt /\ queue' = queue
    BY <1>17 DEF BumpDropCounterOnDrop, ConsumeStep, channel_vars
  <2> QED BY <1>2, <2>1, LessIsLeft
<1>18. CASE Release
  <2>1. /\ shipper_pc = "release" /\ shipper_pc' = "notice"
        /\ attempt' = attempt /\ queue' = queue
    BY <1>18 DEF Release, ConsumeStep, channel_vars
  <2> QED BY <1>2, <2>1, LessIsLeft
<1>19. CASE PushNotice
  <2>1. /\ shipper_pc = "notice" /\ shipper_pc' \in {"drain", "loop"} /\ queue' = queue
    BY <1>19 DEF PushNotice, ConsumeStep, channel_vars
  <2>2. x = 4 /\ y \in {2, 3}
    BY <1>2, <1>3, <2>1
  <2> QED BY <2>1, <2>2, LessIsLeft
<1>20. CASE Panic
  <2>1. /\ shipper_pc \in {"encode", "post"} /\ shipper_pc' = "panicked"
        /\ attempt' = attempt /\ queue' = <<>>
    BY <1>20 DEF Panic
  <2>2. x > 0 /\ y = 0
    BY <1>1, <1>2, <2>1
  <2> QED BY <2>1, <2>2, LessIsLeft
<1> QED
  BY <1>6, <1>7, <1>8, <1>9, <1>10, <1>11, <1>12, <1>13, <1>14, <1>15, <1>16, <1>17, <1>18,
     <1>19, <1>20 DEF Receiving, Consuming

\* While MSHUTDOWN joins, nobody else touches the channel or the thread.
LEMMA NoMoreToDo ==
    ASSUME php_pc = "joining", [Next]_vars, ~(Receiving \/ Consuming)
    PROVE  StepsLeft' = StepsLeft
<1>1. shipper_pc' = shipper_pc /\ attempt' = attempt /\ queue' = queue
  <2> USE DEF channel_vars, thread_vars
  <2>1. CASE InstallChannel \/ MShutdown \/ SendDrain \/ MShutdownNotices
    BY <2>1 DEF InstallChannel, MShutdown, SendDrain, MShutdownNotices
  <2>2. CASE Requesting
    BY <2>2 DEF Requesting, RInit, RInitNoSpawn, RInitSpawns, RInitSpawnFails, StartRequest,
                Flush, RShutdownRelease, RShutdownNotices
  <2>3. CASE DiscardRefused \/ DeadlinePasses \/ Join
    BY <2>3 DEF DiscardRefused, DeadlinePasses, Join
  <2>4. CASE Terminated \/ UNCHANGED vars
    BY <2>4 DEF Terminated, vars
  <2> QED BY <2>1, <2>2, <2>3, <2>4 DEF Next, ShuttingDown
<1> QED BY <1>1, StepsLeftAre

\* For every queue depth and number of retries, each step of the thread leaves
\* fewer than there were, and the join never waits for more than it began with:
\* what fairness has to add, for MSHUTDOWN to return, is that the thread runs.
THEOREM WorkIsBounded == Spec => ThreadCountsDown
<1>1. ASSUME IInv, IInv', [Next]_vars
      PROVE  [/\ Receiving \/ Consuming => StepsLeft' \in 0..(StepsLeft - 1)
              /\ php_pc = "joining" => StepsLeft' <= StepsLeft]_vars
  <2>1. TypeOK /\ TypeOK'
    BY <1>1 DEF IInv
  <2>2. Receiving \/ Consuming => StepsLeft' \in 0..(StepsLeft - 1)
    BY <2>1, ThreadWorksOff
  <2>3. StepsLeft \in Int
    <3>1. StepsPerBatch \in Nat /\ StepsOf(shipper_pc, attempt) \in Nat
      BY <2>1, StepsAreNatural DEF TypeOK, ControlTypeOK
    <3>2. Len(queue) \in Nat
      BY <2>1, LenProperties DEF TypeOK, ChannelTypeOK
    <3>3. StepsPerBatch * Len(queue) \in Nat
      BY <3>1, <3>2
    <3> QED BY <3>1, <3>3, StepsLeftAre
  <2>4. php_pc = "joining" => StepsLeft' <= StepsLeft
    <3>1. CASE Receiving \/ Consuming
      BY <2>2, <2>3, <3>1
    <3>2. CASE ~(Receiving \/ Consuming)
      BY <1>1, <2>3, <3>2, NoMoreToDo
    <3> QED BY <3>1, <3>2
  <2> QED BY <2>2, <2>4
<1> QED BY <1>1, Invariance, PTL DEF Spec, ThreadCountsDown

-----------------------------------------------------------------------------
(* The shipper implements HandOff.                                         *)

Statuses == {"pending", "delivered", "dropped", "lost"}
Entries == [trace : Requests, records : Nat, status : Statuses]
EntryOf(history, fates, i) ==
    [trace |-> history[i].trace, records |-> history[i].records, status |-> StatusOf(fates[i])]

\* Every fate has a status.
LEMMA StatusTyped == \A f : StatusOf(f) \in Statuses
BY DEF StatusOf, Statuses

\* The ledger has an entry for each flushed batch.
LEMMA LedgerIs ==
    ASSUME HistoryTypeOK
    PROVE  /\ Ledger \in Seq(Entries) /\ Len(Ledger) = Len(flushed) /\ Len(flushed) \in Nat
           /\ DOMAIN Ledger = Numbers /\ Numbers = 1..Len(flushed)
           /\ \A i \in Numbers : Ledger[i] = EntryOf(flushed, fate, i) /\ EntryOf(flushed, fate, i) \in Entries
<1>1. Numbers = 1..Len(flushed) /\ Len(flushed) \in Nat
  BY NumbersAre
<1>2. Ledger = [i \in 1..Len(flushed) |-> EntryOf(flushed, fate, i)]
  BY <1>1 DEF Ledger, EntryOf
<1>3. \A i \in Numbers : EntryOf(flushed, fate, i) \in Entries
  BY BatchTyped, StatusTyped DEF EntryOf, Entries
<1>4. Ledger \in [1..Len(flushed) -> Entries]
  BY <1>1, <1>2, <1>3
<1> QED BY <1>1, <1>2, <1>3, <1>4, FunctionIsSeq

\* The same of the next state.
LEMMA LedgerWillBe ==
    ASSUME HistoryTypeOK'
    PROVE  /\ Ledger' \in Seq(Entries) /\ Len(Ledger') = Len(flushed') /\ Len(flushed') \in Nat
           /\ DOMAIN Ledger' = Numbers' /\ Numbers' = 1..Len(flushed')
           /\ \A i \in Numbers' : Ledger'[i] = EntryOf(flushed', fate', i) /\ EntryOf(flushed', fate', i) \in Entries
<1>1. Numbers' = 1..Len(flushed') /\ Len(flushed') \in Nat
  BY LenProperties DEF HistoryTypeOK, Numbers
<1>2. Ledger' = [i \in 1..Len(flushed') |-> EntryOf(flushed', fate', i)]
  BY <1>1 DEF Ledger, EntryOf
<1>3. \A i \in Numbers' : EntryOf(flushed', fate', i) \in Entries
  <2> TAKE i \in Numbers'
  <2>1. flushed'[i] \in Batches
    BY <1>1, ElementOfSeq DEF HistoryTypeOK, Batches
  <2>2. flushed'[i].trace \in Requests /\ flushed'[i].records \in Nat
    BY <2>1, BatchIsCounted
  <2> QED BY <2>2, StatusTyped DEF EntryOf, Entries
<1>4. Ledger' \in [1..Len(flushed') -> Entries]
  BY <1>1, <1>2, <1>3
<1> QED BY <1>1, <1>2, <1>3, <1>4, FunctionIsSeq

\* A step that decides nothing is not seen.
LEMMA Unseen ==
    ASSUME HistoryTypeOK, HistoryTypeOK', UNCHANGED <<flushed, drop_counter>>,
           \A i \in Numbers : StatusOf(fate'[i]) = StatusOf(fate[i])
    PROVE  UNCHANGED H!ledger_vars
<1>1. \A i \in Numbers : Ledger'[i] = Ledger[i] /\ Numbers' = Numbers
  BY LedgerIs, LedgerWillBe DEF EntryOf, Numbers
<1>2. Ledger' = Ledger
  BY <1>1, LedgerIs, LedgerWillBe, SameSequence
<1> QED BY <1>2 DEF H!ledger_vars

\* The entry of one pending batch is decided.
LEMMA OneDecided ==
    ASSUME HistoryTypeOK, HistoryTypeOK', UNCHANGED flushed, NEW k \in Numbers,
           fate[k] \in {"refusing", "in_flight"},
           \A i \in Numbers : i # k => fate'[i] = fate[i],
           \/ fate'[k] = "delivered" /\ UNCHANGED drop_counter
           \/ fate'[k] \in {"refused", "given_up"} /\ CountDropped(k)
    PROVE  H!Next
<1> DEFINE x == StatusOf(fate'[k])
<1> DEFINE L == [Ledger EXCEPT ![k].status = x]
<1>1. k \in DOMAIN Ledger /\ Ledger[k] = EntryOf(flushed, fate, k) /\ Numbers' = Numbers
  BY LedgerIs DEF Numbers
<1>2. Ledger[k].status = "pending" /\ Ledger[k].trace = flushed[k].trace
      /\ Ledger[k].records = flushed[k].records
  BY <1>1 DEF EntryOf, StatusOf
<1>3. Ledger' = L
  <2>1. L \in Seq(Entries) /\ Len(L) = Len(Ledger) /\ \A i \in Numbers : L[i] = EntryOf(flushed, fate', i)
    <3> DEFINE e == EntryOf(flushed', fate', k)
    <3>1. e \in Entries /\ e = [Ledger[k] EXCEPT !.status = x]
      BY <1>1, LedgerWillBe DEF EntryOf
    <3>2. L = [Ledger EXCEPT ![k] = e]
      BY <3>1
    <3> HIDE DEF L, e
    <3>3. L \in Seq(Entries) /\ Len(L) = Len(Ledger)
      BY <3>1, <3>2, LedgerIs, ExceptProperties
    <3>4. L[k] = e /\ \A i \in Numbers : i # k => L[i] = Ledger[i]
      BY <1>1, <3>2, LedgerIs
    <3>5. \A i \in Numbers : i # k => L[i] = EntryOf(flushed, fate', i)
      BY <3>4, LedgerIs DEF EntryOf
    <3> QED BY <3>3, <3>4, <3>5 DEF e
  <2> HIDE DEF L
  <2>2. \A i \in 1..Len(Ledger') : Ledger'[i] = L[i]
    BY <1>1, <2>1, LedgerIs, LedgerWillBe
  <2> QED BY <2>1, <2>2, LedgerIs, LedgerWillBe, SameSequence
<1>4. CASE fate'[k] = "delivered" /\ UNCHANGED drop_counter
  <2>1. x = "delivered"
    BY <1>4 DEF StatusOf
  <2> QED BY <1>1, <1>2, <1>3, <1>4, <2>1 DEF H!Next, H!Deliver
<1>5. CASE fate'[k] \in {"refused", "given_up"} /\ CountDropped(k)
  <2>1. x = "dropped"
    BY <1>5 DEF StatusOf
  <2> QED BY <1>1, <1>2, <1>3, <1>5, <2>1 DEF H!Next, H!Drop, CountDropped
<1> QED BY <1>4, <1>5

\* A flush enters the batch.
LEMMA FlushEnters ==
    ASSUME ControlTypeOK, FlagsTypeOK, HistoryTypeOK, HistoryTypeOK', LifeInv, Flush \/ RShutdownRelease
    PROVE  [H!Next]_(H!ledger_vars)
<1>1. UNCHANGED drop_counter
  BY DEF Flush, RShutdownRelease
<1>2. CASE UNCHANGED <<channel_vars, bytes_in_memory, server_vars>>
  BY <1>1, <1>2, Unseen DEF channel_vars, server_vars
<1>3. ASSUME NEW n \in RecordCounts, NEW what \in {"queued", "refusing", "disconnected", "no_sender"},
             Len(flushed') = Len(flushed) + 1,
             fate'[Len(flushed) + 1] = what,
             \A i \in Numbers : fate'[i] = fate[i] /\ flushed'[i] = flushed[i],
             what = "no_sender" => ~sender, what = "disconnected" => receiver = "dropped" /\ sender
      PROVE  H!Next
  <2> DEFINE m == Len(flushed) + 1
  <2> DEFINE e == EntryOf(flushed', fate', m)
  <2>1. Len(Ledger) = Len(flushed) /\ Len(flushed) \in Nat /\ Len(Ledger') = m /\ m \in Numbers'
    BY <1>3, LedgerIs, LedgerWillBe
  <2>2. Ledger'[m] = e /\ e \in Entries /\ e.status = StatusOf(what)
    BY <1>3, <2>1, LedgerWillBe DEF EntryOf
  <2> HIDE DEF e
  <2>3. Last(Ledger') = e
    BY <2>1, <2>2 DEF Last
  <2>4. Ledger' = Append(Ledger, e)
    <3> DEFINE A == Append(Ledger, e)
    <3>1. /\ A \in Seq(Entries) /\ Len(A) = m /\ A[m] = e
          /\ \A i \in 1..Len(flushed) : A[i] = Ledger[i]
      BY <2>1, <2>2, LedgerIs, AppendProperties
    <3> HIDE DEF A
    <3>2. \A i \in 1..Len(flushed) : Ledger'[i] = Ledger[i]
      <4> TAKE i \in 1..Len(flushed)
      <4>1. i \in Numbers /\ i \in Numbers'
        BY <2>1, LedgerIs, LedgerWillBe
      <4> QED BY <1>3, <4>1, LedgerIs, LedgerWillBe DEF EntryOf
    <3>3. \A i \in 1..m : Ledger'[i] = A[i]
      BY <2>1, <2>2, <3>1, <3>2
    <3> QED BY <2>1, <3>1, <3>3, LedgerWillBe, SameSequence DEF A
  <2>5. CASE what \in {"queued", "refusing"}
    <3>1. e \in [trace : Requests, records : Nat, status : {"pending"}]
      BY <2>2, <2>5 DEF Entries, StatusOf
    <3>2. H!Enter("pending")
      <4>1. Len(Ledger') = Len(Ledger) + 1 /\ Ledger' = Append(Ledger, Last(Ledger'))
        BY <2>1, <2>3, <2>4
      <4>2. Last(Ledger') \in [trace : Requests, records : Nat, status : {"pending"}]
        BY <2>3, <3>1
      <4> QED BY <1>1, <4>1, <4>2 DEF H!Enter, H!Last, Last
    <3> QED BY <3>2 DEF H!Next, H!Flush
  <2>6. CASE what \notin {"queued", "refusing"}
    <3>1. e \in [trace : Requests, records : Nat, status : {"lost"}]
      BY <2>2, <2>6 DEF Entries, StatusOf
    <3>2. H!Enter("lost")
      <4>1. Len(Ledger') = Len(Ledger) + 1 /\ Ledger' = Append(Ledger, Last(Ledger'))
        BY <2>1, <2>3, <2>4
      <4>2. Last(Ledger') \in [trace : Requests, records : Nat, status : {"lost"}]
        BY <2>3, <3>1
      <4> QED BY <1>1, <4>1, <4>2 DEF H!Enter, H!Last, Last
    <3>3. Faults \cap {"spawn", "panic"} # {}
      BY <1>3, <2>6 DEF LifeInv, Flush, RShutdownRelease, Serving, Leaving
    <3> QED BY <3>2, <3>3 DEF H!Next, H!FlushUnsent
  <2> QED BY <2>5, <2>6
<1> QED BY <1>2, <1>3, FlushCases

\* A panic loses what the thread and the channel hold.
LEMMA PanicLoses ==
    ASSUME HistoryTypeOK, HistoryTypeOK', Panic
    PROVE  H!Next
<1> DEFINE dead == {i \in Numbers : fate[i] \in {"queued", "in_flight"}}
<1>1. UNCHANGED <<flushed, drop_counter>> /\ Faults \cap {"spawn", "panic"} # {}
  BY DEF Panic, count_vars
<1>2. \A i \in Numbers : fate'[i] = IF i \in dead THEN "lost_in_panic" ELSE fate[i]
  BY NumbersAre DEF Panic
<1>3. Numbers' = Numbers /\ \A i \in Numbers : Ledger[i] = EntryOf(flushed, fate, i) /\ Ledger'[i] = EntryOf(flushed, fate', i)
  BY <1>1, LedgerIs, LedgerWillBe DEF Numbers
<1>4. \A i \in dead : Ledger[i].status = "pending"
  <2> TAKE i \in dead
  <2>1. StatusOf(fate[i]) = "pending" /\ i \in Numbers
    BY DEF StatusOf
  <2>2. Ledger[i] = EntryOf(flushed, fate, i)
    BY <1>3, <2>1
  <2> QED BY <2>1, <2>2 DEF EntryOf
<1>5. \A i \in Numbers : Ledger'[i] = IF i \in dead THEN [Ledger[i] EXCEPT !.status = "lost"] ELSE Ledger[i]
  <2> TAKE i \in Numbers
  <2>3. Ledger[i] = EntryOf(flushed, fate, i) /\ Ledger'[i] = EntryOf(flushed, fate', i)
    BY <1>3
  <2>1. CASE i \in dead
    <3>1. StatusOf(fate'[i]) = "lost"
      BY <1>2, <2>1 DEF StatusOf
    <3> QED BY <2>1, <2>3, <3>1 DEF EntryOf
  <2>2. CASE i \notin dead
    BY <1>2, <2>2, <2>3 DEF EntryOf
  <2> QED BY <2>1, <2>2
<1>6. Ledger' = [i \in DOMAIN Ledger |-> IF i \in dead THEN [Ledger[i] EXCEPT !.status = "lost"] ELSE Ledger[i]]
  <2>1. Ledger' = [i \in Numbers |-> Ledger'[i]] /\ DOMAIN Ledger = Numbers
    BY <1>3, LedgerIs, LedgerWillBe, LenProperties, IsASeq
  <2> QED BY <1>5, <2>1
<1>7. dead \in SUBSET DOMAIN Ledger
  BY LedgerIs
<1> QED BY <1>1, <1>4, <1>6, <1>7 DEF H!Next, H!Die

\* Each action is a step of the hand-off, or not seen by it.
LEMMA HandOffStep ==
    ASSUME IInv, IInv', [Next]_vars
    PROVE  [H!Next]_(H!ledger_vars)
<1> USE DEF IInv, TypeOK, Numbers, StatusOf
<1>1. CASE InstallChannel
  BY <1>1, Unseen
     DEF InstallChannel, channel_vars, count_vars, thread_vars, server_vars
<1>2. CASE RInitNoSpawn
  BY <1>2, Unseen
     DEF RInitNoSpawn, StartRequest, channel_vars, count_vars, thread_vars, server_vars
<1>3. CASE RInitSpawns
  BY <1>3, Unseen
     DEF RInitSpawns, StartRequest, channel_vars, count_vars, thread_vars, server_vars
<1>4. CASE RInitSpawnFails
  BY <1>4, Unseen
     DEF RInitSpawnFails, StartRequest, channel_vars, count_vars, thread_vars, server_vars
<1>5. CASE Flush
  BY <1>5, FlushEnters DEF Numbers, StatusOf
<1>6. CASE DiscardRefused
  <2>1. refused \in Numbers /\ refused # 0 /\ fate[refused] = "refusing"
    BY <1>6 DEF DiscardRefused, ChannelTypeOK, FateInv
  <2>2. fate'[refused] = "refused" /\ \A i \in Numbers : i # refused => fate'[i] = fate[i]
    BY <1>6, <2>1, FateExcept DEF DiscardRefused, Fates
  <2> HIDE DEF Numbers, IInv
  <2> QED BY <1>6, <2>1, <2>2, OneDecided DEF DiscardRefused, IInv
<1>7. CASE RShutdownRelease
  BY <1>7, FlushEnters DEF Numbers, StatusOf
<1>8. CASE RShutdownNotices
  BY <1>8, Unseen
     DEF RShutdownNotices, EmitNotices, channel_vars, count_vars, thread_vars, server_vars
<1>9. CASE MShutdown
  BY <1>9, Unseen
     DEF MShutdown, channel_vars, count_vars, thread_vars, server_vars
<1>10. CASE DeadlinePasses
  BY <1>10, Unseen
     DEF DeadlinePasses, channel_vars, count_vars, thread_vars, server_vars
<1>11. CASE SendDrain
  BY <1>11, Unseen
     DEF SendDrain, channel_vars, count_vars, thread_vars, server_vars
<1>12. CASE Join
  BY <1>12, Unseen
     DEF Join, channel_vars, count_vars, thread_vars, server_vars
<1>13. CASE MShutdownNotices
  BY <1>13, Unseen
     DEF MShutdownNotices, EmitNotices, channel_vars, count_vars, thread_vars, server_vars
<1>14. CASE LoopHead
  BY <1>14, Unseen
     DEF LoopHead, channel_vars, count_vars, thread_vars, server_vars
<1>15. CASE ReceiveBatch
  <2>1. Head(queue) \in Numbers /\ 1 \in DOMAIN queue /\ Head(queue) = queue[1]
    BY <1>15, TailShape DEF ReceiveBatch, ChannelTypeOK
  <2>2. fate'[Head(queue)] = "in_flight" /\ \A i \in Numbers : i # Head(queue) => fate'[i] = fate[i]
    BY <1>15, <2>1, FateExcept DEF ReceiveBatch, Fates
  <2>3. fate[queue[1]] = "queued"
    BY <1>15, <2>1 DEF ReceiveBatch, QueueInv
  <2> QED BY <1>15, <2>1, <2>2, <2>3, Unseen DEF ReceiveBatch, count_vars
<1>16. CASE ReceiveDrain
  BY <1>16, Unseen
     DEF ReceiveDrain, channel_vars, count_vars, thread_vars, server_vars
<1>17. CASE ChannelClosed
  BY <1>17, Unseen
     DEF ChannelClosed, Exits, channel_vars, count_vars, thread_vars, server_vars
<1>18. CASE RecvTimesOut
  BY <1>18, Unseen
     DEF RecvTimesOut, channel_vars, count_vars, thread_vars, server_vars
<1>19. CASE SweepResidual
  <2>1. ToSet(queue) \ {DRAIN} = {}
    BY <1>19 DEF SweepResidual, ToSet, QueueInv
  <2>2. fate' = [i \in DOMAIN fate |-> fate[i]] /\ UNCHANGED <<batch, flushed>>
    BY <1>19, <2>1 DEF SweepResidual, Exits
  <2>3. \A i \in Numbers : fate'[i] = fate[i]
    BY <2>2, NumbersAre
  <2> QED BY <1>19, <2>2, <2>3, Unseen DEF Exits, SweepResidual
<1>20. CASE Encode
  BY <1>20, Unseen
     DEF Encode, ConsumeStep, Drops, channel_vars, count_vars, thread_vars, server_vars
<1>21. CASE SnapshotDeadline
  BY <1>21, Unseen
     DEF SnapshotDeadline, ConsumeStep, channel_vars, count_vars, thread_vars, server_vars
<1>22. CASE CheckDeadline
  BY <1>22, Unseen
     DEF CheckDeadline, ConsumeStep, Drops, channel_vars, count_vars, thread_vars, server_vars
<1>23. CASE Post
  BY <1>23, Unseen
     DEF Post, ConsumeStep, Drops, channel_vars, count_vars, thread_vars, server_vars
<1>24. CASE Wake
  BY <1>24, Unseen
     DEF Wake, ConsumeStep, channel_vars, count_vars, thread_vars, server_vars
<1>25. CASE BumpDropCounterOnDrop
  <2>1. batch \in Numbers /\ fate[batch] = "in_flight"
    BY <1>25 DEF BumpDropCounterOnDrop, ConsumeStep, ChannelTypeOK, FateInv, ThreadInv, Sending
  <2>2. fate' = [fate EXCEPT ![batch] = IF outcome = "dropped" THEN "given_up" ELSE "delivered"]
    BY <1>25 DEF BumpDropCounterOnDrop
  <2>3. /\ fate'[batch] = (IF outcome = "dropped" THEN "given_up" ELSE "delivered")
        /\ \A i \in Numbers : i # batch => fate'[i] = fate[i]
    BY <1>25, <2>1, <2>2, FateExcept
       DEF BumpDropCounterOnDrop, ConsumeStep, channel_vars, Fates
  <2> HIDE DEF Numbers, IInv, StatusOf
  <2> QED BY <1>25, <2>1, <2>3, OneDecided DEF BumpDropCounterOnDrop, ConsumeStep,
             channel_vars, IInv
<1>26. CASE Release
  BY <1>26, Unseen
     DEF Release, ConsumeStep, channel_vars, count_vars, thread_vars, server_vars
<1>27. CASE PushNotice
  BY <1>27, Unseen
     DEF PushNotice, ConsumeStep, channel_vars, count_vars, thread_vars, server_vars
<1>28. CASE Panic
  BY <1>28, PanicLoses
<1>29. CASE UNCHANGED vars
  BY <1>29 DEF vars, channel_vars, count_vars, thread_vars, server_vars, Ledger, H!ledger_vars
<1> QED
  BY <1>1, <1>2, <1>3, <1>4, <1>5, <1>6, <1>7, <1>8, <1>9, <1>10, <1>11, <1>12, <1>13, <1>14,
     <1>15, <1>16, <1>17, <1>18, <1>19, <1>20, <1>21, <1>22, <1>23, <1>24, <1>25, <1>26, <1>27,
     <1>28, <1>29
     DEF Next, Requesting, RInit, ShuttingDown, Receiving, Consuming, Terminated


\* Whatever the two threads interleave, each batch ends once and for all as
\* delivered, as dropped and counted in one step, or as lost for want of a
\* shipper: the shipper implements the hand-off.
THEOREM Refinement == Spec => ImplementsHandOff
<1>1. Init => H!Init
  <2> SUFFICES ASSUME Init PROVE H!Init
    OBVIOUS
  <2>1. Ledger = <<>>
    <3>1. HistoryTypeOK /\ Len(flushed) = 0
      BY InitIInv, EmptySeq DEF IInv, TypeOK, Init
    <3> QED BY <3>1, LedgerIs, EmptySeq
  <2> QED BY <2>1 DEF Init, H!Init
<1>2. IInv /\ IInv' /\ [Next]_vars => [H!Next]_(H!ledger_vars)
  BY HandOffStep
<1> QED BY <1>1, <1>2, Invariance, PTL DEF Spec, H!Spec, ImplementsHandOff

=============================================================================
