------------------------------ MODULE Delivery ------------------------------
(***************************************************************************)
(* The way of a batch from the recorder to the store of the ingest server: *)
(* Recorder composed with the shipper's encode, post and retry steps       *)
(* (shipper/encode.rs, shipper/http.rs) and with the stub ingest server.   *)
(*                                                                         *)
(* Recorder leaves open when the shipper takes, counts and releases a      *)
(* batch; here those are the steps of one thread that encodes the batch    *)
(* once and posts the same bytes until the server says 2xx, the retries    *)
(* are used up or the deadline of MSHUTDOWN has passed.  The network may   *)
(* lose a request, cut it short, or lose its answer: for the client each   *)
(* is a failed attempt, and a request it has given up on may still reach   *)
(* the server, in any order.  Why an attempt failed matters to the notices *)
(* only, which are in Shipper, as are the batches a drain abandons.        *)
(***************************************************************************)
EXTENDS Recorder, StubIngest

CONSTANTS
    RetryCount,     \* php_analyze.retry_count
    KindOf,         \* the kind of each function
    Failures,       \* which of "encode", "timeout" may happen
    Probes,         \* requests of the test harness itself
    MaxProbes       \* bound: how many of them

\* A harness that runs php beside the server reads what php posted; it posts no
\* batch of its own (those of the server's own tests are in StubIngest).
ASSUME DeliveryAssumption ==
    /\ RetryCount \in Nat
    /\ KindOf \in [Functions -> FunctionKinds]
    /\ Failures \subseteq {"encode", "timeout"}
    /\ AnswerStatuses \subseteq (200..299) \cup (400..599)
    /\ \A rq \in Probes : rq.from.addr # "php" /\ ~BodyDecodes(rq)
    /\ MaxProbes \in Nat

VARIABLES
    post_pc,        \* where the shipper thread is: see PostPcs
    attempt,        \* attempts that have ended
    encoded,        \* at most one: the body being posted
    outcome,        \* OnBatchOutcome of the batch in hand
    inbox,          \* the requests on their way to the server
    probes          \* requests the harness has made

post_vars == <<post_pc, attempt, encoded, outcome, inbox>>
delivery_vars == <<vars, stub_vars, post_vars, probes>>

PostPcs == {"idle", "encode", "post", "wait", "outcome"}

DeliveryInit ==
    /\ Init /\ StubInit
    /\ post_pc = "idle" /\ attempt = 0 /\ encoded = <<>> /\ outcome = "none"
    /\ inbox = {} /\ probes = 0

ServerIdle == UNCHANGED <<stub_vars, probes>>

-----------------------------------------------------------------------------
(* The shipper thread with one batch.                                      *)

Batch == Head(in_flight)

Takes ==
    /\ post_pc = "idle"
    /\ ShipperReceives
    /\ post_pc' = "encode" /\ attempt' = 0
    /\ UNCHANGED <<encoded, outcome, inbox>> /\ ServerIdle

\* Mutant: meta.dropped_records stays at what a new trace has.
EncodesUnstamped ==
    /\ post_pc = "encode"
    /\ encoded' = <<batch_to_wire(Batch, KindOf, 0)>>
    /\ post_pc' = "post"
    /\ UNCHANGED <<vars, attempt, outcome, inbox>> /\ ServerIdle

\* encode_batch loads the drop counter of the batch's own trace, once.
Encodes ==
    /\ post_pc = "encode"
    /\ encoded' = <<batch_to_wire(Batch, KindOf, drop_counter[Batch.trace])>>
    /\ post_pc' = "post"
    /\ UNCHANGED <<vars, attempt, outcome, inbox>> /\ ServerIdle

EncodeFails ==
    /\ "encode" \in Failures
    /\ post_pc = "encode"
    /\ outcome' = "dropped" /\ post_pc' = "outcome"
    /\ UNCHANGED <<vars, attempt, encoded, inbox>> /\ ServerIdle

Request ==
    [method |-> "POST", path |-> "/v1/ingest", body |-> Head(encoded),
     headers |-> [authorization |-> AuthToken, content_type |-> MEDIA_TYPE],
     from |-> [addr |-> "php", no |-> Batch.no, attempt |-> attempt]]

Connects ==
    /\ post_pc = "post" /\ Listening
    /\ inbox' = inbox \cup {Request}
    /\ post_pc' = "wait"
    /\ UNCHANGED <<vars, attempt, encoded, outcome>> /\ ServerIdle

\* Mutants: one retry too many; a failed attempt passes for a success.
OneRetryMore ==
    /\ attempt' = attempt + 1
    /\ IF attempt > RetryCount
       THEN outcome' = "dropped" /\ post_pc' = "outcome"
       ELSE post_pc' = "post" /\ UNCHANGED outcome

FailureIsSuccess ==
    /\ attempt' = attempt + 1
    /\ outcome' = "sent" /\ post_pc' = "outcome"

\* run_with_retry after AttemptOutcome::Failed.
AttemptFails ==
    /\ attempt' = attempt + 1
    /\ IF attempt = RetryCount
       THEN outcome' = "dropped" /\ post_pc' = "outcome"
       ELSE post_pc' = "post" /\ UNCHANGED outcome

\* The deadline is published after the last request.
MShutdownUnderWay == request = MaxRequests /\ ~trace_live /\ refused = <<>>

\* Before an attempt, or before the backoff in front of it.
GivesUpAtDeadline ==
    /\ post_pc = "post" /\ MShutdownUnderWay
    /\ outcome' = "dropped" /\ post_pc' = "outcome"
    /\ UNCHANGED <<vars, attempt, encoded, inbox>> /\ ServerIdle

ConnectionRefused ==
    /\ post_pc = "post" /\ ~Listening
    /\ AttemptFails
    /\ UNCHANGED <<vars, encoded, inbox>> /\ ServerIdle

IsMine(from) == from = [addr |-> "php", no |-> Batch.no, attempt |-> attempt]

\* http_timeout_ms is over, at any point of the exchange: the request is the
\* server's now, has left, or has left in part.  One that has not left stays in
\* the inbox for good.
TimesOut ==
    /\ "timeout" \in Failures
    /\ post_pc = "wait"
    /\ AttemptFails
    /\ \/ UNCHANGED inbox
       \/ \E rq \in inbox :
            /\ IsMine(rq.from)
            /\ inbox' = (inbox \ {rq}) \cup {[rq EXCEPT !.body = Truncated]}
    /\ UNCHANGED <<vars, encoded>> /\ ServerIdle

CountsDrop ==
    /\ post_pc = "outcome" /\ outcome = "dropped"
    /\ ShipperCountsDrop
    /\ UNCHANGED post_vars /\ ServerIdle

\* Mutant: a dropped batch need not be counted.
ReleasesAnyway ==
    /\ post_pc = "outcome"
    /\ ShipperReleases
    /\ post_pc' = "idle" /\ attempt' = 0 /\ encoded' = <<>> /\ outcome' = "none"
    /\ UNCHANGED <<inbox>> /\ ServerIdle

Releases ==
    /\ post_pc = "outcome" /\ (outcome = "dropped" => counted)
    /\ ShipperReleases
    /\ post_pc' = "idle" /\ attempt' = 0 /\ encoded' = <<>> /\ outcome' = "none"
    /\ UNCHANGED <<inbox>> /\ ServerIdle

Panics ==
    /\ post_pc \in {"encode", "post", "wait"}
    /\ ShipperPanics
    /\ post_pc' = "idle" /\ attempt' = 0 /\ encoded' = <<>>
    /\ UNCHANGED <<outcome, inbox>> /\ ServerIdle

-----------------------------------------------------------------------------
(* The server, the harness, and PHP.                                       *)

Serves ==
    /\ \E rq \in inbox : Dispatch(rq) /\ inbox' = inbox \ {rq}
    /\ UNCHANGED <<vars, post_pc, attempt, encoded, outcome, probes>>

IsSuccess(status) == status \in 200..299

\* The client reads the answer of the attempt it waits for.
Answers2xx ==
    /\ Respond
    /\ post_pc = "wait" /\ IsMine(Head(serving).to)
    /\ IsSuccess(Head(serving).status)
    /\ outcome' = "sent" /\ post_pc' = "outcome"
    /\ UNCHANGED <<vars, attempt, encoded, inbox, probes>>

AnswersError ==
    /\ Respond
    /\ post_pc = "wait" /\ IsMine(Head(serving).to)
    /\ ~IsSuccess(Head(serving).status)
    /\ AttemptFails
    /\ UNCHANGED <<vars, encoded, inbox, probes>>

\* The client has given up on this attempt, or the harness asked.
AnswersNobody ==
    /\ Respond
    /\ ~(post_pc = "wait" /\ IsMine(Head(serving).to))
    /\ UNCHANGED <<vars, post_vars, probes>>

Probe ==
    /\ probes < MaxProbes
    /\ probes' = probes + 1
    /\ \E rq \in Probes : Dispatch(rq)
    /\ UNCHANGED <<vars, post_vars>>

Php ==
    /\ RequestThread
    /\ UNCHANGED <<post_vars, stub_vars, probes>>

ShipperThread ==
    \/ Takes \/ Encodes \/ EncodeFails \/ Connects \/ GivesUpAtDeadline
    \/ ConnectionRefused \/ TimesOut \/ CountsDrop \/ Releases \/ Panics

Server == Serves \/ Answers2xx \/ AnswersError \/ AnswersNobody

DeliveryNext == Php \/ ShipperThread \/ Server \/ Probe

DeliverySpec == DeliveryInit /\ [][DeliveryNext]_delivery_vars

-----------------------------------------------------------------------------
(* Properties.                                                             *)

IsCopy(body, batch) ==
    body.meta.trace_id = batch.trace /\ body.calls = calls_to_wire(batch.calls)

\* Where in the server's history the copies of a batch are.
CopiesOf(batch) == {k \in DOMAIN accepted : IsCopy(accepted[k], batch)}
Stored(batch) == CopiesOf(batch) # {}

\* AC-SH-1: a batch the shipper took for sent is in the server's store,
\* whatever was refused, cut short or lost on the way.
DeliveredIsStored ==
    \A i \in DOMAIN flushed : fate[i] = "delivered" => Stored(flushed[i])

\* A batch is posted again after a failure that may not have been one: the
\* server can hold up to retry_count + 1 copies, never more, and they are the
\* same bytes, since the batch is encoded once before the first attempt.
CopiesBounded ==
    \A i \in DOMAIN flushed :
        /\ Cardinality(CopiesOf(flushed[i])) <= RetryCount + 1
        /\ \A k, l \in CopiesOf(flushed[i]) : accepted[k] = accepted[l]

\* What the server can hold of a batch: delivery is at least once, and not too
\* often.
AtLeastOnce == DeliveredIsStored /\ CopiesBounded

\* The retries of one batch end before the next one is encoded: a batch that
\* was delivered is stored before any later one, even when requests overtake
\* each other, and the dropped_records of a trace never go down from one
\* delivered batch to the next.
StoredInOrder ==
    \A i, j \in DOMAIN flushed :
        (i < j /\ fate[i] = "delivered") =>
            \A l \in CopiesOf(flushed[j]) : \E k \in CopiesOf(flushed[i]) :
                /\ k < l
                /\ flushed[i].trace = flushed[j].trace =>
                    accepted[k].meta.dropped_records <= accepted[l].meta.dropped_records

\* OBJ-5, "no silent loss", for who reads the store: when a batch arrives, the
\* records of the trace's earlier batches that are not there are counted in its
\* dropped_records.
NoSilentGap ==
    \A i \in DOMAIN flushed : \A k \in CopiesOf(flushed[i]) :
        CallsIn({n \in 1..(i - 1) : /\ flushed[n].trace = flushed[i].trace
                                    /\ \A l \in CopiesOf(flushed[n]) : l > k})
            <= accepted[k].meta.dropped_records

\* F-FN-2 seen from the server: a fn_id it cannot resolve from what it has of
\* the trace comes with a dropped_records above zero, because the entry went
\* down with a dropped batch.
FnIdsResolve ==
    \A k \in DOMAIN accepted :
        LET known == {e.fn_id : e \in UNION {ToSet(accepted[l].dict) : l \in
                        {n \in 1..k : accepted[n].meta.trace_id = accepted[k].meta.trace_id}}}
        IN \/ \A c \in ToSet(accepted[k].calls) : c.fn \in known
           \/ accepted[k].meta.dropped_records > 0

\* Once nothing of a finished trace is under way, its calls are what the server
\* stored, each batch taken once, plus the trace's drop_counter, less the
\* batches that were counted as dropped although a copy arrived: without an
\* unsent or destroyed batch nothing is missing and only those are counted
\* twice.
Settled(r) ==
    /\ ~IsCurrent(r)
    /\ \A i \in DOMAIN flushed : flushed[i].trace = r => fate[i] \in {"delivered", "given_up", "refused"}

ServerReconciles ==
    \A r \in Requests :
        LET there == {i \in DOMAIN flushed : flushed[i].trace = r /\ Stored(flushed[i])}
        IN Settled(r) =>
            begun[r] = CallsIn(there) + drop_counter[r]
                        - CallsIn({i \in there : fate[i] = "given_up"})

=============================================================================
