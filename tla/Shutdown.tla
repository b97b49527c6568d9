------------------------------ MODULE Shutdown ------------------------------
(***************************************************************************)
(* How long MSHUTDOWN of php-analyze can take against a hung server, in    *)
(* discrete time.  Shipper.tla has the protocol; here one flag per signal  *)
(* is kept and every wait has its length: a POST lasts up to the HTTP      *)
(* timeout, a backoff its exponential delay, and MSHUTDOWN waits for the   *)
(* thread.  Everything else takes no time, so what is found too long here  *)
(* is too long on a machine with infinitely fast threads.                  *)
(*                                                                         *)
(* The channel holds some batches when the model starts and the requests   *)
(* are over; MSHUTDOWN may come at any moment.                             *)
(***************************************************************************)
EXTENDS Integers

CONSTANTS
    QueueDepth,     \* php_analyze.shipper_queue_depth
    HttpTimeout,    \* php_analyze.http_timeout_ms, in ticks
    RetryCount,     \* php_analyze.retry_count
    RetryBackoff,   \* php_analyze.retry_backoff_ms, in ticks
    ShutdownGrace,  \* php_analyze.shutdown_grace_ms, in ticks
    Slack           \* the 200 ms of AC-BS-4, in ticks

ASSUME ConfigAssumption ==
    /\ QueueDepth \in Nat \ {0}
    /\ HttpTimeout \in Nat \ {0}
    /\ RetryCount \in 0..10
    /\ RetryBackoff \in Nat \ {0}
    /\ ShutdownGrace \in Nat
    /\ Slack \in Nat

\* The provers know nothing of the exponential; TLC evaluates this for all of
\* the retry counts that from_ini_values lets through.
ASSUME PowersOfTwo == \A n \in 0..10 : 2^n \in Nat

VARIABLES
    php_pc,         \* "serving", "sending_drain", "joining", "joined"
    elapsed,        \* time since the deadline was published
    queued,         \* batches in the channel
    drain_queued,   \* Drain is in the channel, after them
    shipper_pc,     \* where the thread is: see ShipperPcs
    remaining,      \* time until the POST times out or the backoff ends
    attempt,
    seen_deadline   \* what deadline_fn returned for this attempt is Some

php_vars == <<php_pc, elapsed>>
channel_vars == <<queued, drain_queued>>
thread_vars == <<shipper_pc, remaining, attempt, seen_deadline>>
vars == <<php_vars, channel_vars, thread_vars>>

ShipperPcs == {"recv", "head", "check", "post", "sleep", "exited"}

Published == php_pc # "serving"
DeadlinePassed == Published /\ elapsed >= ShutdownGrace

\* backoff_duration; with retry_count at most 10 the shift cannot overflow.
BackoffDuration(n) == RetryBackoff * 2^n

Init ==
    /\ php_pc = "serving" /\ elapsed = 0
    /\ queued \in 0..QueueDepth /\ drain_queued = FALSE
    /\ shipper_pc = "recv" /\ remaining = 0 /\ attempt = 0 /\ seen_deadline = FALSE

-----------------------------------------------------------------------------
(* The request thread.                                                     *)

PublishDeadline ==
    /\ php_pc = "serving"
    /\ php_pc' = "sending_drain"
    /\ UNCHANGED <<elapsed, channel_vars, thread_vars>>

\* send_timeout(grace) puts Drain in the channel, finds it closed or gives up; the
\* Sender is then dropped.
SendDrain ==
    /\ php_pc = "sending_drain"
    /\ \/ shipper_pc # "exited" /\ queued < QueueDepth /\ drain_queued' = TRUE
       \/ /\ shipper_pc = "exited" \/ (queued = QueueDepth /\ DeadlinePassed)
          /\ UNCHANGED drain_queued
    /\ php_pc' = "joining"
    /\ UNCHANGED <<elapsed, queued, thread_vars>>

Join ==
    /\ php_pc = "joining" /\ shipper_pc = "exited"
    /\ php_pc' = "joined"
    /\ UNCHANGED <<elapsed, channel_vars, thread_vars>>

-----------------------------------------------------------------------------
(* The shipper thread.                                                     *)

ReceiveBatch ==
    /\ shipper_pc = "recv" /\ queued > 0
    /\ queued' = queued - 1
    /\ shipper_pc' = "head" /\ attempt' = 0
    /\ UNCHANGED <<php_vars, drain_queued, remaining, seen_deadline>>

ReceiveDrain ==
    /\ shipper_pc = "recv" /\ queued = 0 /\ drain_queued
    /\ drain_queued' = FALSE
    /\ UNCHANGED <<php_vars, queued, thread_vars>>

\* Mutant: the Sender is dropped after the join.
ClosedAfterJoin ==
    /\ shipper_pc = "recv" /\ queued = 0 /\ ~drain_queued /\ php_pc = "joined"
    /\ shipper_pc' = "exited"
    /\ UNCHANGED <<php_vars, channel_vars, remaining, attempt, seen_deadline>>

ChannelClosed ==
    /\ shipper_pc = "recv" /\ queued = 0 /\ ~drain_queued /\ php_pc = "joining"
    /\ shipper_pc' = "exited"
    /\ UNCHANGED <<php_vars, channel_vars, remaining, attempt, seen_deadline>>

\* recv_deadline times out while the request thread still holds its Sender.
RecvTimesOut ==
    /\ shipper_pc = "recv" /\ queued = 0 /\ ~drain_queued
    /\ php_pc = "sending_drain" /\ DeadlinePassed
    /\ shipper_pc' = "exited"
    /\ UNCHANGED <<php_vars, channel_vars, remaining, attempt, seen_deadline>>

\* Mutant: the deadline is an argument, None for a batch received earlier (C-18).
SnapshotStatic ==
    /\ shipper_pc = "head"
    /\ seen_deadline' = FALSE
    /\ shipper_pc' = "check"
    /\ UNCHANGED <<php_vars, channel_vars, remaining, attempt>>

SnapshotDeadline ==
    /\ shipper_pc = "head"
    /\ seen_deadline' = Published
    /\ shipper_pc' = "check"
    /\ UNCHANGED <<php_vars, channel_vars, remaining, attempt>>

\* A POST starts unless the deadline the attempt saw has passed.
CheckDeadline ==
    /\ shipper_pc = "check"
    /\ IF seen_deadline /\ DeadlinePassed
       THEN shipper_pc' = "recv" /\ UNCHANGED remaining
       ELSE shipper_pc' = "post" /\ remaining' = HttpTimeout
    /\ UNCHANGED <<php_vars, channel_vars, attempt, seen_deadline>>

PostSucceeds ==
    /\ shipper_pc = "post"
    /\ shipper_pc' = "recv" /\ remaining' = 0
    /\ UNCHANGED <<php_vars, channel_vars, attempt, seen_deadline>>

BackoffPassesDeadline == elapsed + BackoffDuration(attempt) >= ShutdownGrace

LastAttempt == attempt = RetryCount

PostFails ==
    /\ shipper_pc = "post"
    /\ IF LastAttempt \/ (seen_deadline /\ BackoffPassesDeadline)
       THEN shipper_pc' = "recv" /\ remaining' = 0
       ELSE shipper_pc' = "sleep" /\ remaining' = BackoffDuration(attempt)
    /\ UNCHANGED <<php_vars, channel_vars, attempt, seen_deadline>>

Wake ==
    /\ shipper_pc = "sleep" /\ remaining = 0
    /\ attempt' = attempt + 1
    /\ shipper_pc' = "head"
    /\ UNCHANGED <<php_vars, channel_vars, remaining, seen_deadline>>

\* Time passes only while the thread waits for the server or for a backoff.
Tick ==
    /\ shipper_pc \in {"post", "sleep"} /\ remaining > 0
    /\ remaining' = remaining - 1
    /\ elapsed' = IF Published THEN elapsed + 1 ELSE elapsed
    /\ UNCHANGED <<php_pc, channel_vars, shipper_pc, attempt, seen_deadline>>

Terminated == php_pc = "joined" /\ UNCHANGED vars

RequestThread == SendDrain \/ Join

Thread ==
    \/ ReceiveBatch \/ ReceiveDrain \/ ChannelClosed \/ RecvTimesOut
    \/ SnapshotDeadline \/ CheckDeadline \/ PostSucceeds \/ PostFails \/ Wake \/ Tick

Next == PublishDeadline \/ RequestThread \/ Thread \/ Terminated

Spec == Init /\ [][Next]_vars

\* Neither time nor a thread stops; MSHUTDOWN need never begin.
FairSpec == Spec /\ WF_vars(Thread) /\ WF_vars(RequestThread)

-----------------------------------------------------------------------------
(* Properties.                                                             *)

FlagsTypeOK == drain_queued \in BOOLEAN /\ seen_deadline \in BOOLEAN

WaitTypeOK ==
    /\ php_pc \in {"serving", "sending_drain", "joining", "joined"}
    /\ elapsed \in Nat /\ queued \in 0..QueueDepth
    /\ shipper_pc \in ShipperPcs /\ attempt \in 0..RetryCount /\ remaining \in Nat
    /\ shipper_pc = "post" => remaining <= HttpTimeout
    /\ shipper_pc = "sleep" => attempt < RetryCount /\ remaining <= BackoffDuration(attempt)

\* The thread always waits for something that ends: a POST no longer than the
\* HTTP timeout, a backoff no longer than that of its attempt.
TypeOK == FlagsTypeOK /\ WaitTypeOK

\* AC-BS-4, AC-PB-2: "MSHUTDOWN returns within shutdown_grace_ms + 200ms even
\* when the ingest server is hung".  False: nothing aborts a POST in flight.
ReturnsWithinGracePlusSlack == php_pc = "joined" => elapsed <= ShutdownGrace + Slack

Outlasts(t) ==
    /\ t > ShutdownGrace + HttpTimeout
    /\ \A n \in 0..(RetryCount - 1) : t > HttpTimeout + BackoffDuration(n)

\* What the code does guarantee, however many batches are queued: MSHUTDOWN
\* outlives the grace period by one POST, or lasts one POST and one backoff
\* that were under way when it began.
ReturnsWithinOnePost == Published => ~Outlasts(elapsed)

\* Past the deadline the queue costs no time: each batch left is dropped before
\* its first POST.  The one POST that may still start is that of an attempt
\* which read the cell just before a zero grace period was published.
NoPostStartsLate ==
    [][shipper_pc = "check" /\ shipper_pc' = "post" =>
            ~DeadlinePassed \/ elapsed = 0]_vars

\* MSHUTDOWN does return, even if the server never answers.
Returns == Published ~> php_pc = "joined"

=============================================================================
