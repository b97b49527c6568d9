------------------------------ MODULE Shipper -------------------------------
(***************************************************************************)
(* The shipper of php-analyze over the life of one PHP process: the bounded*)
(* channel installed at MINIT, the thread spawned at the first RINIT, its  *)
(* receive, encode, post and retry loop, and the MSHUTDOWN protocol that   *)
(* publishes a deadline, sends Drain, closes the channel and joins.        *)
(*                                                                         *)
(* The request thread flushes batches of some number of records while a    *)
(* request runs; Recorder.tla says when and what.  Time is one flag: the   *)
(* published deadline has passed.  The server is the environment: a POST   *)
(* ends, by its timeout at the latest, and was accepted or not.            *)
(***************************************************************************)
EXTENDS Integers, Sequences, FiniteSets, SequencesExt, Totals

CONSTANTS
    QueueDepth,     \* php_analyze.shipper_queue_depth
    RetryCount,     \* php_analyze.retry_count
    RecordCounts,   \* the sizes, in records, a batch may have
    Faults,         \* which of "spawn", "encode", "panic" may happen
    MaxRequests,    \* bound: requests one process serves
    MaxBatches      \* bound: batches one process flushes

ASSUME ConfigAssumption ==
    /\ QueueDepth \in Nat \ {0}
    /\ RetryCount \in Nat
    /\ RecordCounts \subseteq Nat \ {0}
    /\ Faults \subseteq {"spawn", "encode", "panic"}
    /\ MaxRequests \in Nat
    /\ MaxBatches \in Nat

VARIABLES
    php_pc,             \* where the request thread is: see PhpPcs
    request,            \* number of RINITs so far
    sender,             \* SENDER_SLOT holds the Sender
    receiver,           \* where the Receiver is: see Receivers
    spawned, spawn_failed, warnings,
    handle,             \* SHIPPER_HANDLE holds the JoinHandle
    drain_deadline,     \* DRAIN_DEADLINE is Some
    deadline_passed,    \* Instant::now() >= that deadline
    queue,              \* the channel: batch numbers, and DRAIN last
    refused,            \* the batch try_send gave back, 0 if none
    bytes_in_memory,    \* accounting::BYTES_IN_MEMORY, in records
    drop_counter,       \* per request, the trace's Arc<AtomicU64>
    shipper_pc,         \* where the shipper thread is: see ShipperPcs
    local_deadline,     \* the deadline argument of drained_consume is Some
    seen_deadline,      \* the iteration's snapshot of both deadlines is Some
    batch,              \* the batch being consumed, 0 if none
    attempt, outcome,
    abandoned,          \* batches_abandoned_at_deadline
    drain_completed,    \* ShipperExit.drain_completed
    notices, emitted,   \* DROP_NOTICE_QUEUE, and what php_error was given
    flushed,            \* history: every batch, its request and records
    fate,               \* history: what became of it
    stamp,              \* history: meta.dropped_records of its encoding
    late_posts          \* history: POSTs the server answered after the deadline

lifecycle_vars == <<request, sender, receiver, spawned, spawn_failed, warnings, handle>>
deadline_vars == <<drain_deadline, deadline_passed>>
channel_vars == <<queue, refused, flushed>>
count_vars == <<bytes_in_memory, drop_counter>>
thread_vars == <<shipper_pc, local_deadline, seen_deadline, batch, attempt, outcome,
                 abandoned, drain_completed>>
notice_vars == <<notices, emitted>>
server_vars == <<fate, stamp, late_posts>>
vars == <<php_pc, lifecycle_vars, deadline_vars, channel_vars, count_vars, thread_vars,
          notice_vars, server_vars>>

DRAIN == 0
Requests == 1..MaxRequests

PhpPcs == {"unloaded", "idle", "request", "rshutdown", "sending_drain", "joining",
           "joined", "down"}
Receivers == {"none", "slot", "shipper", "dropped"}
ShipperPcs == {"none", "loop", "recv", "drain", "timed_out", "encode", "head", "check",
               "post", "sleep", "outcome", "release", "notice", "exited", "panicked"}
Fates == {"queued", "refusing", "refused", "no_sender", "disconnected", "in_flight",
          "delivered", "given_up", "abandoned", "lost_in_panic"}
Outcomes == {"none", "sent", "dropped"}

Init ==
    /\ php_pc = "unloaded" /\ request = 0
    /\ sender = FALSE /\ receiver = "none"
    /\ spawned = FALSE /\ spawn_failed = FALSE /\ warnings = 0 /\ handle = FALSE
    /\ drain_deadline = FALSE /\ deadline_passed = FALSE
    /\ queue = <<>> /\ refused = 0 /\ flushed = <<>>
    /\ bytes_in_memory = 0 /\ drop_counter = [r \in Requests |-> 0]
    /\ shipper_pc = "none" /\ local_deadline = FALSE /\ seen_deadline = FALSE
    /\ batch = 0 /\ attempt = 0 /\ outcome = "none"
    /\ abandoned = 0 /\ drain_completed = FALSE
    /\ notices = <<>> /\ emitted = <<>>
    /\ fate = <<>> /\ stamp = <<>> /\ late_posts = 0

-----------------------------------------------------------------------------
(* The request thread: MINIT, RINIT and flushes.                           *)

\* MINIT of an enabled extension; the slot is still empty.
InstallChannel ==
    /\ php_pc = "unloaded"
    /\ php_pc' = "idle"
    /\ sender' = TRUE /\ receiver' = "slot"
    /\ UNCHANGED <<request, spawned, spawn_failed, warnings, handle, deadline_vars,
                   channel_vars, count_vars, thread_vars, notice_vars, server_vars>>

StartRequest ==
    /\ php_pc = "idle" /\ request < MaxRequests
    /\ php_pc' = "request"
    /\ request' = request + 1
    /\ UNCHANGED <<deadline_vars, channel_vars, count_vars, notice_vars, server_vars>>

\* spawn_with_on_batch_factory_inner returns early: the thread runs, or an
\* earlier RINIT failed to start it.
RInitNoSpawn ==
    /\ StartRequest
    /\ spawn_failed \/ spawned
    /\ UNCHANGED <<sender, receiver, spawned, spawn_failed, warnings, handle, thread_vars>>

RInitSpawns ==
    /\ StartRequest
    /\ ~spawn_failed /\ ~spawned /\ receiver = "slot"
    /\ spawned' = TRUE /\ receiver' = "shipper" /\ handle' = TRUE
    /\ shipper_pc' = "loop"
    /\ UNCHANGED <<sender, spawn_failed, warnings, local_deadline, seen_deadline, batch,
                   attempt, outcome, abandoned, drain_completed>>

\* The OS refuses the thread: the closure drops the receiver, the sender slot
\* is cleared, one warning is emitted.
RInitSpawnFails ==
    /\ "spawn" \in Faults
    /\ StartRequest
    /\ ~spawn_failed /\ ~spawned /\ receiver = "slot"
    /\ spawned' = FALSE /\ spawn_failed' = TRUE /\ receiver' = "dropped"
    /\ sender' = FALSE
    /\ warnings' = warnings + 1
    /\ UNCHANGED <<handle, thread_vars>>

RInit == RInitNoSpawn \/ RInitSpawns \/ RInitSpawnFails

\* Mutant: one message too many fits.
RoomOffByOne == Len(queue) <= QueueDepth

HasRoom == Len(queue) < QueueDepth

\* Mutant: batches are counted instead of their records.
CountOne(i) == drop_counter' = [drop_counter EXCEPT ![flushed[i].trace] = @ + 1]

\* fetch_add of calls.len() on the counter of the batch's own trace.
CountDropped(i) ==
    drop_counter' = [drop_counter EXCEPT ![flushed[i].trace] = @ + flushed[i].records]

\* A batch enters the history; its bytes were billed while it was buffered.
Record(n, what) ==
    /\ flushed' = Append(flushed, [trace |-> request, records |-> n])
    /\ fate' = Append(fate, what)
    /\ stamp' = Append(stamp, 0)
    /\ UNCHANGED late_posts

TrySendBatch(n) ==
    /\ Len(flushed) < MaxBatches
    /\ \/ /\ sender /\ receiver # "dropped" /\ HasRoom
          /\ queue' = Append(queue, Len(flushed) + 1)
          /\ bytes_in_memory' = bytes_in_memory + n
          /\ Record(n, "queued")
          /\ UNCHANGED refused
       \/ /\ sender /\ receiver # "dropped" /\ ~HasRoom
          /\ refused' = Len(flushed) + 1
          /\ bytes_in_memory' = bytes_in_memory + n
          /\ Record(n, "refusing")
          /\ UNCHANGED queue
       \/ /\ ~sender \/ receiver = "dropped"
          /\ Record(n, IF sender THEN "disconnected" ELSE "no_sender")
          /\ UNCHANGED <<queue, refused, bytes_in_memory>>

Flush ==
    /\ php_pc = "request" /\ refused = 0
    /\ \E n \in RecordCounts : TrySendBatch(n)
    /\ UNCHANGED <<php_pc, lifecycle_vars, deadline_vars, drop_counter, thread_vars,
                   notice_vars>>

\* The Full arm, after the channel has given the batch back.
DiscardRefused ==
    /\ refused # 0
    /\ bytes_in_memory' = bytes_in_memory - flushed[refused].records
    /\ CountDropped(refused)
    /\ fate' = [fate EXCEPT ![refused] = "refused"]
    /\ refused' = 0
    /\ UNCHANGED <<php_pc, lifecycle_vars, deadline_vars, queue, flushed, thread_vars,
                   notice_vars, stamp, late_posts>>

\* RSHUTDOWN flushes what is left, if anything, and then emits the notices.
RShutdownRelease ==
    /\ php_pc = "request" /\ refused = 0
    /\ php_pc' = "rshutdown"
    /\ \/ \E n \in RecordCounts : TrySendBatch(n)
       \/ UNCHANGED <<channel_vars, bytes_in_memory, server_vars>>
    /\ UNCHANGED <<lifecycle_vars, deadline_vars, drop_counter, thread_vars, notice_vars>>

\* Mutant: the queue is copied, not drained.
EmitWithoutDraining == emitted' = emitted \o notices /\ UNCHANGED notices

EmitNotices ==
    /\ emitted' = emitted \o notices
    /\ notices' = <<>>

RShutdownNotices ==
    /\ php_pc = "rshutdown" /\ refused = 0
    /\ php_pc' = "idle"
    /\ EmitNotices
    /\ UNCHANGED <<lifecycle_vars, deadline_vars, channel_vars, count_vars, thread_vars,
                   server_vars>>

-----------------------------------------------------------------------------
(* MSHUTDOWN on the request thread: drain_and_join_at_mshutdown and the    *)
(* last round of notices.                                                  *)

\* The local Sender of drain_and_join_at_mshutdown keeps the channel open.
SendersAlive == sender \/ php_pc = "sending_drain"

\* Takes the Sender and publishes the deadline, before Drain is sent.
MShutdown ==
    /\ php_pc = "idle"
    /\ IF sender
       THEN php_pc' = "sending_drain" /\ drain_deadline' = TRUE
       ELSE php_pc' = "joined" /\ UNCHANGED drain_deadline
    /\ sender' = FALSE
    /\ UNCHANGED <<request, receiver, spawned, spawn_failed, warnings, handle,
                   deadline_passed, channel_vars, count_vars, thread_vars, notice_vars,
                   server_vars>>

DeadlinePasses ==
    /\ drain_deadline /\ ~deadline_passed
    /\ deadline_passed' = TRUE
    /\ UNCHANGED <<php_pc, lifecycle_vars, drain_deadline, channel_vars, count_vars,
                   thread_vars, notice_vars, server_vars>>

\* send_timeout: it succeeds, finds no receiver, or gives up on a full queue
\* after the grace period.  The Sender is then dropped.
SendDrain ==
    /\ php_pc = "sending_drain"
    /\ \/ /\ receiver # "dropped" /\ HasRoom
          /\ queue' = Append(queue, DRAIN)
       \/ /\ receiver = "dropped" \/ (~HasRoom /\ deadline_passed)
          /\ UNCHANGED queue
    /\ php_pc' = "joining"
    /\ UNCHANGED <<lifecycle_vars, deadline_vars, refused, flushed, count_vars,
                   thread_vars, notice_vars, server_vars>>

\* Mutant: MSHUTDOWN does not wait for the thread.
JoinWithoutWaiting ==
    /\ php_pc = "joining"
    /\ php_pc' = "joined"
    /\ handle' = FALSE
    /\ UNCHANGED <<request, sender, receiver, spawned, spawn_failed, warnings,
                   deadline_vars, channel_vars, count_vars, thread_vars, notice_vars,
                   server_vars>>

\* With no handle there is nothing to join; otherwise wait for the thread.
Join ==
    /\ php_pc = "joining"
    /\ handle => shipper_pc \in {"exited", "panicked"}
    /\ php_pc' = "joined"
    /\ handle' = FALSE
    /\ UNCHANGED <<request, sender, receiver, spawned, spawn_failed, warnings,
                   deadline_vars, channel_vars, count_vars, thread_vars, notice_vars,
                   server_vars>>

MShutdownNotices ==
    /\ php_pc = "joined"
    /\ php_pc' = "down"
    /\ EmitNotices
    /\ UNCHANGED <<lifecycle_vars, deadline_vars, channel_vars, count_vars, thread_vars,
                   server_vars>>

-----------------------------------------------------------------------------
(* The shipper thread: run_loop and run_drain_phase.                       *)

\* The head of run_loop reads the DRAIN_DEADLINE cell.
LoopHead ==
    /\ shipper_pc = "loop"
    /\ local_deadline' = drain_deadline
    /\ shipper_pc' = IF drain_deadline THEN "drain" ELSE "recv"
    /\ UNCHANGED <<php_pc, lifecycle_vars, deadline_vars, channel_vars, count_vars,
                   seen_deadline, batch, attempt, outcome, abandoned, drain_completed,
                   notice_vars, server_vars>>

\* recv and recv_deadline take a message before they look at the clock.
ReceiveBatch ==
    /\ shipper_pc \in {"recv", "drain"}
    /\ queue # <<>> /\ Head(queue) # DRAIN
    /\ batch' = Head(queue)
    /\ queue' = Tail(queue)
    /\ fate' = [fate EXCEPT ![Head(queue)] = "in_flight"]
    /\ shipper_pc' = "encode"
    /\ UNCHANGED <<php_pc, lifecycle_vars, deadline_vars, refused, flushed, count_vars,
                   local_deadline, seen_deadline, attempt, outcome, abandoned,
                   drain_completed, notice_vars, stamp, late_posts>>

\* Enters the drain phase, or is ignored there.
ReceiveDrain ==
    /\ shipper_pc \in {"recv", "drain"}
    /\ queue # <<>> /\ Head(queue) = DRAIN
    /\ queue' = Tail(queue)
    /\ local_deadline' = TRUE
    /\ shipper_pc' = "drain"
    /\ UNCHANGED <<php_pc, lifecycle_vars, deadline_vars, refused, flushed, count_vars,
                   seen_deadline, batch, attempt, outcome, abandoned, drain_completed,
                   notice_vars, server_vars>>

Exits(completed) ==
    /\ shipper_pc' = "exited"
    /\ drain_completed' = completed
    /\ receiver' = "dropped"
    /\ UNCHANGED <<php_pc, request, sender, spawned, spawn_failed, warnings, handle,
                   deadline_vars, refused, flushed, drop_counter, local_deadline,
                   seen_deadline, batch, attempt, outcome, notice_vars, stamp, late_posts>>

\* Mutant: the drain phase goes on polling a closed channel.
ClosedOnlyBeforeDrain ==
    /\ shipper_pc = "recv"
    /\ queue = <<>> /\ ~SendersAlive
    /\ Exits(TRUE)
    /\ UNCHANGED <<queue, bytes_in_memory, abandoned, fate>>

ChannelClosed ==
    /\ shipper_pc \in {"recv", "drain"}
    /\ queue = <<>> /\ ~SendersAlive
    /\ Exits(TRUE)
    /\ UNCHANGED <<queue, bytes_in_memory, abandoned, fate>>

RecvTimesOut ==
    /\ shipper_pc = "drain"
    /\ queue = <<>> /\ SendersAlive /\ deadline_passed
    /\ shipper_pc' = "timed_out"
    /\ UNCHANGED <<php_pc, lifecycle_vars, deadline_vars, channel_vars, count_vars,
                   local_deadline, seen_deadline, batch, attempt, outcome, abandoned,
                   drain_completed, notice_vars, server_vars>>

RecordsIn(batches) == TotalIn([i \in DOMAIN flushed |-> flushed[i].records], batches)

\* The try_recv loop: batches still queued give their bytes back and are
\* counted as abandoned, without a drop count or a notice.
SweepResidual ==
    /\ shipper_pc = "timed_out"
    /\ LET residual == ToSet(queue) \ {DRAIN} IN
        /\ bytes_in_memory' = bytes_in_memory - RecordsIn(residual)
        /\ abandoned' = Cardinality(residual)
        /\ fate' = [i \in DOMAIN fate |-> IF i \in residual THEN "abandoned" ELSE fate[i]]
    /\ queue' = <<>>
    /\ Exits(FALSE)

-----------------------------------------------------------------------------
(* The shipper thread: drained_consume and run_with_retry.                 *)

\* A step of drained_consume that leaves the rest of the process alone.
ConsumeStep(from) ==
    /\ shipper_pc = from
    /\ UNCHANGED <<php_pc, lifecycle_vars, deadline_vars, channel_vars, local_deadline,
                   abandoned, drain_completed>>

Drops == outcome' = "dropped" /\ shipper_pc' = "outcome"

\* encode_batch reads the trace's drop counter; an error is not retried.
Encode ==
    /\ ConsumeStep("encode")
    /\ \/ /\ stamp' = [stamp EXCEPT ![batch] = drop_counter[flushed[batch].trace]]
          /\ attempt' = 0
          /\ shipper_pc' = "head"
          /\ UNCHANGED outcome
       \/ "encode" \in Faults /\ Drops /\ UNCHANGED <<stamp, attempt>>
    /\ UNCHANGED <<count_vars, seen_deadline, batch, notice_vars, fate, late_posts>>

\* Mutant: the deadline is the argument alone (C-18).
SnapshotStatic ==
    /\ ConsumeStep("head")
    /\ seen_deadline' = local_deadline
    /\ shipper_pc' = "check"
    /\ UNCHANGED <<count_vars, batch, attempt, outcome, notice_vars, server_vars>>

\* deadline_fn: the sooner of the argument and the cell, read afresh.
SnapshotDeadline ==
    /\ ConsumeStep("head")
    /\ seen_deadline' = (local_deadline \/ drain_deadline)
    /\ shipper_pc' = "check"
    /\ UNCHANGED <<count_vars, batch, attempt, outcome, notice_vars, server_vars>>

CheckDeadline ==
    /\ ConsumeStep("check")
    /\ IF seen_deadline /\ deadline_passed
       THEN Drops
       ELSE shipper_pc' = "post" /\ UNCHANGED outcome
    /\ UNCHANGED <<count_vars, seen_deadline, batch, attempt, notice_vars, server_vars>>

\* The POST ends.  After a failure the thread gives up on the last attempt, or
\* when the backoff would reach past the deadline it saw, and else sleeps.
Post ==
    /\ ConsumeStep("post")
    /\ late_posts' = IF deadline_passed THEN late_posts + 1 ELSE late_posts
    /\ \/ outcome' = "sent" /\ shipper_pc' = "outcome"
       \/ attempt = RetryCount /\ Drops
       \/ attempt < RetryCount /\ seen_deadline /\ Drops
       \/ /\ attempt < RetryCount /\ ~(seen_deadline /\ deadline_passed)
          /\ shipper_pc' = "sleep"
          /\ UNCHANGED outcome
    /\ UNCHANGED <<count_vars, seen_deadline, batch, attempt, notice_vars, fate, stamp>>

\* Mutant: a retry does not use up an attempt.
WakeForever ==
    /\ ConsumeStep("sleep")
    /\ shipper_pc' = "head"
    /\ UNCHANGED <<count_vars, seen_deadline, batch, attempt, outcome, notice_vars,
                   server_vars>>

Wake ==
    /\ ConsumeStep("sleep")
    /\ attempt' = attempt + 1
    /\ shipper_pc' = "head"
    /\ UNCHANGED <<count_vars, seen_deadline, batch, outcome, notice_vars, server_vars>>

\* bump_drop_counter_on_drop, before anything else is given back.
BumpDropCounterOnDrop ==
    /\ ConsumeStep("outcome")
    /\ IF outcome = "dropped"
       THEN /\ CountDropped(batch)
            /\ fate' = [fate EXCEPT ![batch] = "given_up"]
       ELSE /\ fate' = [fate EXCEPT ![batch] = "delivered"]
            /\ UNCHANGED drop_counter
    /\ shipper_pc' = "release"
    /\ UNCHANGED <<bytes_in_memory, seen_deadline, batch, attempt, outcome, notice_vars,
                   stamp, late_posts>>

\* Mutant: the budget is not given back.
ReleaseNothing ==
    /\ ConsumeStep("release")
    /\ shipper_pc' = "notice"
    /\ UNCHANGED <<count_vars, seen_deadline, batch, attempt, outcome, notice_vars,
                   server_vars>>

Release ==
    /\ ConsumeStep("release")
    /\ bytes_in_memory' = bytes_in_memory - flushed[batch].records
    /\ shipper_pc' = "notice"
    /\ UNCHANGED <<drop_counter, seen_deadline, batch, attempt, outcome, notice_vars,
                   server_vars>>

PushNotice ==
    /\ ConsumeStep("notice")
    /\ notices' = IF outcome = "dropped" THEN Append(notices, batch) ELSE notices
    /\ batch' = 0 /\ outcome' = "none" /\ attempt' = 0 /\ seen_deadline' = FALSE
    /\ shipper_pc' = IF local_deadline THEN "drain" ELSE "loop"
    /\ UNCHANGED <<count_vars, emitted, server_vars>>

\* A panic in the encoder or the HTTP client unwinds the thread.  It drops the
\* receiver, and with it what the channel held; nothing gives those bytes back.
Panic ==
    /\ "panic" \in Faults
    /\ shipper_pc \in {"encode", "post"}
    /\ shipper_pc' = "panicked" /\ receiver' = "dropped"
    /\ fate' = [i \in DOMAIN fate |->
                    IF fate[i] \in {"queued", "in_flight"} THEN "lost_in_panic" ELSE fate[i]]
    /\ queue' = <<>> /\ batch' = 0
    /\ UNCHANGED <<php_pc, request, sender, spawned, spawn_failed, warnings, handle,
                   deadline_vars, refused, flushed, count_vars, local_deadline,
                   seen_deadline, attempt, outcome, abandoned, drain_completed,
                   notice_vars, stamp, late_posts>>

-----------------------------------------------------------------------------
Requesting == RInit \/ Flush \/ RShutdownRelease \/ RShutdownNotices

ShuttingDown == MShutdown \/ SendDrain \/ Join \/ MShutdownNotices

Consuming == Encode \/ SnapshotDeadline \/ CheckDeadline \/ Post \/ Wake
                \/ BumpDropCounterOnDrop \/ Release \/ PushNotice \/ Panic

Receiving == LoopHead \/ ReceiveBatch \/ ReceiveDrain \/ ChannelClosed \/ RecvTimesOut
                \/ SweepResidual

Terminated == php_pc = "down" /\ UNCHANGED vars

Next == InstallChannel \/ Requesting \/ DiscardRefused \/ ShuttingDown \/ DeadlinePasses
            \/ Receiving \/ Consuming \/ Terminated

Spec == Init /\ [][Next]_vars

\* A runnable thread runs, every POST ends (ureq's global timeout) and time
\* passes.  Requests need never come, and MSHUTDOWN need never start.
FairSpec ==
    /\ Spec
    /\ WF_vars(Receiving \/ Consuming)
    /\ WF_vars(DiscardRefused)
    /\ WF_vars(SendDrain \/ Join \/ MShutdownNotices)
    /\ WF_vars(DeadlinePasses)

-----------------------------------------------------------------------------
(* Properties.                                                             *)

Numbers == DOMAIN flushed
WithFate(fates) == {i \in Numbers : fate[i] \in fates}

FlagsTypeOK ==
    /\ sender \in BOOLEAN /\ spawned \in BOOLEAN /\ spawn_failed \in BOOLEAN
    /\ handle \in BOOLEAN /\ drain_deadline \in BOOLEAN /\ deadline_passed \in BOOLEAN
    /\ local_deadline \in BOOLEAN /\ seen_deadline \in BOOLEAN /\ drain_completed \in BOOLEAN

ControlTypeOK ==
    /\ php_pc \in PhpPcs /\ shipper_pc \in ShipperPcs /\ receiver \in Receivers
    /\ request \in 0..MaxRequests /\ attempt \in 0..RetryCount /\ outcome \in Outcomes
    /\ warnings \in Nat /\ abandoned \in Nat /\ late_posts \in Nat

HistoryTypeOK ==
    /\ flushed \in Seq([trace : Requests, records : RecordCounts])
    /\ fate \in Seq(Fates) /\ Len(fate) = Len(flushed)
    /\ stamp \in Seq(Nat) /\ Len(stamp) = Len(flushed)

ChannelTypeOK ==
    /\ queue \in Seq(Numbers \cup {DRAIN}) /\ Len(queue) <= QueueDepth
    /\ refused \in Numbers \cup {0} /\ batch \in Numbers \cup {0}
    /\ notices \in Seq(Numbers) /\ emitted \in Seq(Numbers)

CountTypeOK == bytes_in_memory \in Nat /\ drop_counter \in [Requests -> Nat]

\* Every cell has the type of its Rust declaration; the channel holds at most
\* shipper_queue_depth messages, and no counter is taken below zero.
TypeOK == FlagsTypeOK /\ ControlTypeOK /\ HistoryTypeOK /\ ChannelTypeOK /\ CountTypeOK

\* Each byte billed to the budget is billed to a batch some thread or the
\* channel still holds, or leaked with a panicked thread: neither a refusal, a
\* drop, a delivery nor the final sweep releases twice or forgets to
\* (accounting::sub in try_send_batch, drained_consume, run_drain_phase).
BudgetExact ==
    bytes_in_memory = RecordsIn(
        WithFate({"queued", "refusing", "in_flight", "lost_in_panic"})
            \cup (IF shipper_pc = "release" THEN {batch} ELSE {}))

\* "bump [it] so the next batch from the same trace surfaces this drop in its
\* meta.dropped_records" (http.rs, mod.rs): an encoded batch reports at least
\* the records of every earlier batch of its trace that was dropped.
LaterBatchReportsDrop ==
    \A j \in WithFate({"delivered"}) :
        stamp[j] >= RecordsIn({i \in WithFate({"refused", "given_up"}) :
                                    i < j /\ flushed[i].trace = flushed[j].trace})

\* "one E_NOTICE per dropped batch": the notices queued and emitted are those
\* of the batches the shipper gave up on, once each, in order, and MSHUTDOWN
\* leaves none behind.
NoticesExact ==
    LET told   == emitted \o notices
        untold == IF shipper_pc \in {"release", "notice"} THEN {batch} ELSE {}
    IN /\ ToSet(told) = WithFate({"given_up"}) \ untold
       /\ \A k, l \in DOMAIN told : k < l => told[k] < told[l]
       /\ php_pc = "down" => notices = <<>>

\* The sweep after a timed-out drain never meets a batch: recv_deadline hands
\* out queued batches even after the deadline, and nobody sends any more.  The
\* arm that would lose records without counting them is dead code.
NothingAbandoned == abandoned = 0 /\ WithFate({"abandoned"}) = {}

\* MSHUTDOWN returns with an empty channel: each batch a request flushed has
\* been delivered or counted as dropped.  The exceptions are a thread that
\* never started and one that died.
NoBatchLeftBehind ==
    /\ NothingAbandoned
    /\ php_pc = "down" =>
        /\ ToSet(queue) \subseteq {DRAIN}
        /\ \A i \in Numbers : \/ fate[i] \in {"delivered", "refused", "given_up"}
                              \/ fate[i] = "no_sender" /\ spawn_failed
                              \/ fate[i] \in {"disconnected", "lost_in_panic"}
                                    /\ shipper_pc = "panicked"

\* "a DRAIN_DEADLINE cell published by MSHUTDOWN after the shipper dequeued a
\* batch [...] is honored on the next attempt boundary" (C-18): once the
\* deadline has passed, whatever is queued and however many attempts remain,
\* one POST at most is still answered.
AtMostOneLatePost == late_posts <= 1

\* "bootstrap layer should have prevented this" (the debug_assert of
\* try_send_batch): a batch never finds the sender slot empty.  False after a
\* spawn failure, which empties the slot and leaves the recorder on.
SenderNeverMissing == WithFate({"no_sender"}) = {}

\* MSHUTDOWN returns, whatever the server does and whatever the queue holds.
ShutdownCompletes == php_pc = "sending_drain" ~> php_pc = "down"

\* A batch in the channel is delivered, given up on or lost with the thread; it
\* does not wait for the shutdown.
EveryBatchResolved ==
    \A i \in 1..MaxBatches :
        (i \in WithFate({"queued", "refusing", "in_flight"}))
            ~> (i \notin WithFate({"queued", "refusing", "in_flight"}))

\* The steps the thread can still take with what the channel holds: an attempt
\* takes four, and a batch at most RetryCount + 1 attempts.
StepsPerBatch == 4 * RetryCount + 9
StepsLeft ==
    LET retries == 4 * (RetryCount - attempt)
        here == [none |-> 0, exited |-> 0, panicked |-> 0, timed_out |-> 1, recv |-> 2, drain |-> 2,
                 loop |-> 3, notice |-> 4, release |-> 5, outcome |-> 6, sleep |-> retries + 6,
                 post |-> retries + 7, check |-> retries + 8, head |-> retries + 9,
                 encode |-> StepsPerBatch + 1]
    IN here[shipper_pc] + StepsPerBatch * Len(queue)

\* The thread works off what it is given: no error path, retry or message leads
\* back to more work than there was, so that it waits or ends after a bounded
\* number of steps, and what the join waits for only gets less.
ThreadCountsDown ==
    [][/\ Receiving \/ Consuming => StepsLeft' \in 0..(StepsLeft - 1)
       /\ php_pc = "joining" => StepsLeft' <= StepsLeft]_vars

-----------------------------------------------------------------------------
(* The abstract hand-off this implements.                                  *)

StatusOf(f) ==
    CASE f \in {"queued", "refusing", "in_flight"} -> "pending"
      [] f = "delivered"                           -> "delivered"
      [] f \in {"refused", "given_up"}             -> "dropped"
      [] OTHER                                     -> "lost"

Ledger == [i \in Numbers |-> [trace |-> flushed[i].trace, records |-> flushed[i].records,
                              status |-> StatusOf(fate[i])]]

H == INSTANCE HandOff WITH Traces <- Requests, Faulty <- Faults \cap {"spawn", "panic"} # {},
                           ledger <- Ledger, drops <- drop_counter

\* Every batch ends once and for all as delivered, as dropped with its records
\* added to its trace's counter in the same step, or as lost with the thread.
ImplementsHandOff == H!Spec

=============================================================================
