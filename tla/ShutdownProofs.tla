--------------------------- MODULE ShutdownProofs ---------------------------
(***************************************************************************)
(* Proofs about Shutdown: for every grace period, HTTP timeout, backoff,   *)
(* retry count and queue length, MSHUTDOWN is bounded by one POST after    *)
(* the grace period, or one POST and one backoff.  Whether it returns at   *)
(* all is liveness, which TLC checks.                                      *)
(*                                                                         *)
(* The bound is not inductive: how long the thread may still be busy       *)
(* depends on what the attempt under way knows of the deadline.  WaitInv   *)
(* says it: an attempt that saw the deadline ends within one HTTP timeout  *)
(* of it, one that did not see it was under way when it was published.     *)
(***************************************************************************)
EXTENDS Shutdown, TLAPS

\* The deadline is seen only once published, and time is counted from there.
PublishedInv ==
    /\ seen_deadline => Published
    /\ ~Published => elapsed = 0

WaitInv ==
    Published =>
        /\ shipper_pc = "check" /\ ~seen_deadline => elapsed = 0
        /\ shipper_pc = "post" =>
                elapsed + remaining <= (IF seen_deadline THEN ShutdownGrace ELSE 0) + HttpTimeout
        /\ shipper_pc = "sleep" =>
                IF seen_deadline
                THEN elapsed + remaining <= ShutdownGrace
                ELSE elapsed + remaining <= HttpTimeout + BackoffDuration(attempt)

TimeInv == PublishedInv /\ WaitInv /\ ReturnsWithinOnePost

-----------------------------------------------------------------------------
(* Type correctness.                                                       *)

\* A backoff is a number of ticks.
LEMMA BackoffType == \A n \in 0..RetryCount : BackoffDuration(n) \in Nat
  <1> SUFFICES ASSUME NEW n \in 0..RetryCount
               PROVE  BackoffDuration(n) \in Nat
    OBVIOUS
  <1>1. n \in 0..10
    BY ConfigAssumption, SMT DEF ConfigAssumption
  <1>2. 2^n \in Nat
    BY <1>1, PowersOfTwo
  <1> DEFINE p == 2^n
  <1>3. p \in Nat
    BY <1>2
  <1> HIDE DEF p
  <1>4. RetryBackoff * p \in Nat
    BY <1>3, ConfigAssumption, SMT DEF ConfigAssumption
  <1> QED
    BY <1>4 DEF BackoffDuration, p

LEMMA TypeInit == Init => TypeOK
  <1> SUFFICES ASSUME Init
               PROVE  TypeOK
    OBVIOUS
  <1>1. FlagsTypeOK
    BY Zenon DEF Init, FlagsTypeOK
  <1>2. WaitTypeOK
    BY ConfigAssumption, SMT DEF ConfigAssumption, Init, WaitTypeOK, ShipperPcs
  <1> QED
    BY <1>1, <1>2 DEF TypeOK

LEMMA FlagsStep == FlagsTypeOK /\ [Next]_vars => FlagsTypeOK'
  <1> SUFFICES ASSUME FlagsTypeOK, [Next]_vars
               PROVE  FlagsTypeOK'
    OBVIOUS
  <1> USE DEF FlagsTypeOK, php_vars, channel_vars, thread_vars
  <1>1. CASE PublishDeadline
    BY <1>1 DEF PublishDeadline
  <1>2. CASE SendDrain \/ Join
    BY <1>2 DEF SendDrain, Join
  <1>3. CASE ReceiveBatch \/ ReceiveDrain \/ ChannelClosed \/ RecvTimesOut
    BY <1>3, Zenon DEF ReceiveBatch, ReceiveDrain, ChannelClosed, RecvTimesOut
  <1>4. CASE SnapshotDeadline
    BY <1>4, Zenon DEF SnapshotDeadline, Published
  <1>5. CASE CheckDeadline \/ PostSucceeds \/ PostFails \/ Wake \/ Tick
    BY <1>5 DEF CheckDeadline, PostSucceeds, PostFails, Wake, Tick
  <1>6. CASE UNCHANGED vars
    BY <1>6 DEF vars
  <1> QED
    BY <1>1, <1>2, <1>3, <1>4, <1>5, <1>6 DEF Next, RequestThread, Thread, Terminated

LEMMA WaitStep == WaitTypeOK /\ [Next]_vars => WaitTypeOK'
  <1> SUFFICES ASSUME WaitTypeOK, [Next]_vars
               PROVE  WaitTypeOK'
    OBVIOUS
  <1> USE ConfigAssumption
      DEF ConfigAssumption, WaitTypeOK, ShipperPcs, php_vars, channel_vars, thread_vars
  <1>1. CASE PublishDeadline
    BY <1>1, SMT DEF PublishDeadline
  <1>2. CASE SendDrain \/ Join
    BY <1>2, SMT DEF SendDrain, Join
  <1>3. CASE ReceiveBatch
    BY <1>3, SMT DEF ReceiveBatch
  <1>4. CASE ReceiveDrain \/ ChannelClosed \/ RecvTimesOut
    BY <1>4, SMT DEF ReceiveDrain, ChannelClosed, RecvTimesOut
  <1>5. CASE SnapshotDeadline \/ CheckDeadline \/ PostSucceeds
    BY <1>5, SMT DEF SnapshotDeadline, CheckDeadline, PostSucceeds
  <1>6. CASE PostFails
    <2>1. BackoffDuration(attempt) \in Nat
      BY BackoffType
    <2>2. CASE LastAttempt \/ (seen_deadline /\ BackoffPassesDeadline)
      BY <1>6, <2>2, SMT DEF PostFails
    <2>3. CASE ~(LastAttempt \/ (seen_deadline /\ BackoffPassesDeadline))
      <3>1. attempt < RetryCount
        BY <2>3, SMT DEF LastAttempt
      <3> QED
        BY <1>6, <2>1, <2>3, <3>1, SMT DEF PostFails
    <2> QED
      BY <2>2, <2>3
  <1>7. CASE Wake
    BY <1>7, SMT DEF Wake
  <1>8. CASE Tick
    BY <1>8, BackoffType, SMT DEF Tick
  <1>9. CASE UNCHANGED vars
    BY <1>9, SMT DEF vars
  <1> QED
    BY <1>1, <1>2, <1>3, <1>4, <1>5, <1>6, <1>7, <1>8, <1>9
    DEF Next, RequestThread, Thread, Terminated

LEMMA TypeStep == TypeOK /\ [Next]_vars => TypeOK'
  BY FlagsStep, WaitStep DEF TypeOK

\* Every wait of the thread has the length the code gives it, for every
\* configuration: a POST at most the HTTP timeout, a backoff that of an attempt
\* that is not the last.
THEOREM TypeCorrect == Spec => []TypeOK
  BY TypeInit, TypeStep, PTL DEF Spec

-----------------------------------------------------------------------------
(* The bound.                                                              *)

LEMMA TimeInit == Init => TimeInv
  BY ConfigAssumption, SMT
  DEF ConfigAssumption, Init, TimeInv, PublishedInv, WaitInv, ReturnsWithinOnePost, Published

LEMMA PublishedStep == WaitTypeOK /\ PublishedInv /\ [Next]_vars => PublishedInv'
  <1> SUFFICES ASSUME WaitTypeOK, PublishedInv, [Next]_vars
               PROVE  PublishedInv'
    OBVIOUS
  <1> USE DEF PublishedInv, Published, php_vars, channel_vars, thread_vars
  <1>1. CASE PublishDeadline
    BY <1>1 DEF PublishDeadline
  <1>2. CASE SendDrain \/ Join
    BY <1>2 DEF SendDrain, Join
  <1>3. CASE ReceiveBatch \/ ReceiveDrain \/ ChannelClosed \/ RecvTimesOut
    BY <1>3 DEF ReceiveBatch, ReceiveDrain, ChannelClosed, RecvTimesOut
  <1>4. CASE SnapshotDeadline
    BY <1>4 DEF SnapshotDeadline
  <1>5. CASE CheckDeadline \/ PostSucceeds \/ PostFails \/ Wake
    BY <1>5 DEF CheckDeadline, PostSucceeds, PostFails, Wake
  <1>6. CASE Tick
    BY <1>6 DEF Tick
  <1>7. CASE UNCHANGED vars
    BY <1>7 DEF vars
  <1> QED
    BY <1>1, <1>2, <1>3, <1>4, <1>5, <1>6, <1>7
    DEF Next, RequestThread, Thread, Terminated

\* The time left to the thread: it starts to wait only for what WaitInv allows,
\* and a tick takes from the wait what it adds to the clock.
LEMMA WaitInvStep == WaitTypeOK /\ PublishedInv /\ WaitInv /\ [Next]_vars => WaitInv'
  <1> SUFFICES ASSUME WaitTypeOK, PublishedInv, WaitInv, [Next]_vars
               PROVE  WaitInv'
    OBVIOUS
  <1>0. /\ BackoffDuration(attempt) \in Nat
        /\ HttpTimeout \in Nat /\ ShutdownGrace \in Nat
    BY ConfigAssumption, BackoffType, SMT DEF ConfigAssumption, WaitTypeOK
  <1> USE <1>0 DEF WaitTypeOK, WaitInv, php_vars, channel_vars, thread_vars
  <1>1. CASE PublishDeadline
    BY <1>1, SMT DEF PublishDeadline, PublishedInv, Published
  <1>2. CASE SendDrain \/ Join
    BY <1>2, SMT DEF SendDrain, Join, Published
  <1>3. CASE ReceiveBatch \/ ReceiveDrain \/ ChannelClosed \/ RecvTimesOut
    BY <1>3, SMT DEF ReceiveBatch, ReceiveDrain, ChannelClosed, RecvTimesOut
  <1>4. CASE SnapshotDeadline
    <2>1. shipper_pc' = "check" /\ seen_deadline' = Published
      BY <1>4 DEF SnapshotDeadline
    <2>2. Published' = Published
      BY <1>4 DEF SnapshotDeadline, Published
    <2> QED
      BY <2>1, <2>2, Zenon
  <1>5. CASE CheckDeadline
    BY <1>5, SMT DEF CheckDeadline, Published, DeadlinePassed
  <1>6. CASE PostSucceeds \/ Wake
    BY <1>6, SMT DEF PostSucceeds, Wake
  <1>7. CASE PostFails
    BY <1>7, SMT DEF PostFails, Published, BackoffPassesDeadline
  <1>8. CASE Tick
    BY <1>8, SMT DEF Tick, Published
  <1>9. CASE UNCHANGED vars
    BY <1>9, SMT DEF vars, Published
  <1> QED
    BY <1>1, <1>2, <1>3, <1>4, <1>5, <1>6, <1>7, <1>8, <1>9
    DEF Next, RequestThread, Thread, Terminated

LEMMA BoundStep ==
  WaitTypeOK /\ TimeInv /\ [Next]_vars => ReturnsWithinOnePost'
  <1> SUFFICES ASSUME WaitTypeOK, TimeInv, [Next]_vars, Published'
               PROVE  ~Outlasts(elapsed')
    BY DEF ReturnsWithinOnePost, Outlasts
  <1>0. HttpTimeout \in Nat /\ ShutdownGrace \in Nat
    BY ConfigAssumption, SMT DEF ConfigAssumption
  <1>1. CASE PublishDeadline
    BY <1>0, <1>1, SMT
    DEF PublishDeadline, TimeInv, PublishedInv, Published, Outlasts
  <1>2. CASE Tick
    <2>1. /\ Published
          /\ elapsed' = elapsed + 1
          /\ elapsed + 1 <= elapsed + remaining
          /\ elapsed + remaining \in Nat
      BY <1>2, SMT DEF Tick, Published, WaitTypeOK
    <2>2. CASE shipper_pc = "post"
      BY <1>0, <2>1, <2>2, SMT DEF TimeInv, WaitInv, Outlasts, WaitTypeOK
    <2>3. CASE shipper_pc = "sleep" /\ seen_deadline
      BY <1>0, <2>1, <2>3, SMT DEF TimeInv, WaitInv, Outlasts, WaitTypeOK
    <2>4. CASE shipper_pc = "sleep" /\ ~seen_deadline
      <3>1. elapsed' <= HttpTimeout + BackoffDuration(attempt)
        BY <1>0, <2>1, <2>4, BackoffType, SMT DEF TimeInv, WaitInv, WaitTypeOK
      <3>2. attempt \in 0..(RetryCount - 1)
        BY <2>4, ConfigAssumption, SMT DEF ConfigAssumption, WaitTypeOK
      <3>3. BackoffDuration(attempt) \in Nat /\ elapsed' \in Nat
        BY <2>1, BackoffType, SMT DEF WaitTypeOK
      <3> QED
        BY <1>0, <3>1, <3>2, <3>3, SMT DEF Outlasts
    <2> QED
      BY <1>2, <2>2, <2>3, <2>4 DEF Tick
  <1>3. CASE UNCHANGED elapsed /\ Published
    BY <1>3 DEF TimeInv, ReturnsWithinOnePost
  <1>4. CASE [SendDrain \/ Join]_vars
    BY <1>3, <1>4 DEF SendDrain, Join, Published, vars, php_vars
  <1>5. CASE ReceiveBatch \/ ReceiveDrain \/ ChannelClosed \/ RecvTimesOut
    BY <1>3, <1>5
    DEF ReceiveBatch, ReceiveDrain, ChannelClosed, RecvTimesOut, Published, php_vars
  <1>6. CASE SnapshotDeadline \/ CheckDeadline \/ PostSucceeds \/ PostFails \/ Wake
    BY <1>3, <1>6
    DEF SnapshotDeadline, CheckDeadline, PostSucceeds, PostFails, Wake, Published, php_vars
  <1> QED
    BY <1>1, <1>2, <1>4, <1>5, <1>6 DEF Next, RequestThread, Thread, Terminated

LEMMA TimeCorrect == Spec => [](TypeOK /\ TimeInv)
  <1>1. Init => TypeOK /\ TimeInv
    BY TypeInit, TimeInit
  <1>2. TypeOK /\ TimeInv /\ [Next]_vars => (TypeOK /\ TimeInv)'
    BY TypeStep, PublishedStep, WaitInvStep, BoundStep DEF TypeOK, TimeInv
  <1> QED
    BY <1>1, <1>2, PTL DEF Spec

\* However many batches are queued and whatever the configuration, MSHUTDOWN
\* never lasts longer than the grace period and one POST, or one POST and one
\* backoff.
THEOREM ShutdownBounded == Spec => []ReturnsWithinOnePost
  BY TimeCorrect, PTL DEF TimeInv

\* No step starts a POST past the deadline, except in the instant the deadline
\* is published: the snapshot was taken before it, and no time has passed.
THEOREM NoLatePost == Spec => NoPostStartsLate
  <1> DEFINE StartsInTime ==
               shipper_pc = "check" /\ shipper_pc' = "post" => ~DeadlinePassed \/ elapsed = 0
  <1>1. TimeInv /\ [Next]_vars => [StartsInTime]_vars
    <2> SUFFICES ASSUME TimeInv, Next, shipper_pc = "check", shipper_pc' = "post"
                 PROVE  ~DeadlinePassed \/ elapsed = 0
      OBVIOUS
    <2>1. CASE CheckDeadline
      BY <2>1 DEF CheckDeadline, TimeInv, WaitInv, DeadlinePassed
    <2>2. CASE PublishDeadline \/ RequestThread \/ Terminated
      BY <2>2
      DEF PublishDeadline, RequestThread, SendDrain, Join, Terminated, vars, thread_vars
    <2>3. CASE Thread /\ ~CheckDeadline
      BY <2>3
      DEF Thread, ReceiveBatch, ReceiveDrain, ChannelClosed, RecvTimesOut, SnapshotDeadline,
          PostSucceeds, PostFails, Wake, Tick, thread_vars
    <2> QED
      BY <2>1, <2>2, <2>3 DEF Next
  <1> QED
    BY <1>1, TimeCorrect, PTL DEF Spec, NoPostStartsLate

=============================================================================
