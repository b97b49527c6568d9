------------------------------ MODULE Recorder ------------------------------
(***************************************************************************)
(* The recorder of php-analyze: what the PHP request thread does in the    *)
(* Zend observer's begin and end handlers and in RINIT and RSHUTDOWN.      *)
(* The handlers gate each call (depth, memory budget), match begins with   *)
(* ends, intern functions in a per-trace dictionary, buffer one record     *)
(* per completed call and hand batches to a bounded channel.               *)
(*                                                                         *)
(* The shipper thread at the other end of the channel is the environment   *)
(* here: it may take a batch, count it as dropped, release its bytes, or   *)
(* panic.  Shipper.tla gives the real thread.                              *)
(*                                                                         *)
(* The recorder-side state keeps the names of the Rust fields.  PHP's own  *)
(* call stack and the logical clock are the environment; request, begun,   *)
(* flushed and fate are history.                                           *)
(***************************************************************************)
EXTENDS Integers, Sequences, FiniteSets, SequencesExt, Totals

CONSTANTS
    Functions,      \* the PHP functions a script may call
    NameBytes,      \* fqn.len() + file.len() of each function's entry
    MaxDepth,       \* php_analyze.max_depth
    BufferCap,      \* php_analyze.buffer_cap_bytes
    FlushRecords,   \* php_analyze.flush_records
    FlushBytes,     \* php_analyze.flush_bytes
    QueueDepth,     \* php_analyze.shipper_queue_depth
    Throws,         \* the values EG(exception) may have at an end, as Booleans
    SpawnOutcomes,  \* the channel after the first RINIT: "open", "no_sender"
    MayPanic,       \* whether the shipper thread may die by a panic
    MaxRequests,    \* bound: requests one process serves
    MaxCalls        \* bound: observed calls of one request

U16Max == 65535

ASSUME ConfigAssumption ==
    /\ NameBytes \in [Functions -> Nat]
    /\ MaxDepth \in Nat /\ 1 <= MaxDepth /\ MaxDepth <= U16Max
    /\ BufferCap \in Nat
    /\ FlushRecords \in Nat \ {0}
    /\ FlushBytes \in Nat \ {0} /\ FlushBytes <= BufferCap
    /\ QueueDepth \in Nat \ {0}
    /\ Throws \subseteq BOOLEAN
    /\ SpawnOutcomes \subseteq {"open", "no_sender"}
    /\ MayPanic \in BOOLEAN
    /\ MaxRequests \in Nat
    /\ MaxCalls \in Nat

VARIABLES
    trace_live,             \* CURRENT_TRACE holds Some(trace)
    virtual_depth, dropped_begins, call_id_seq,
    stack,                  \* Vec<CallFrame>, top last
    buffer,                 \* Vec<CallRecord>
    intern,                 \* dictionary: function -> fn_id, 0 if absent
    next_fn_id, new_entries,
    buffer_estimated_bytes,
    drop_counter,           \* the Arc<AtomicU64> of each request's trace
    bytes_in_memory,        \* accounting::BYTES_IN_MEMORY
    channel,                \* what try_send_batch finds: see Channels
    queue,                  \* the messages in the bounded channel
    refused,                \* a batch try_send returned as Full, not yet discarded
    in_flight,              \* the batch the shipper is consuming
    counted,                \* the shipper has counted in_flight as dropped
    php_stack,              \* the engine's open calls, innermost last
    now,                    \* logical clock: one tick per event
    request,                \* number of RINITs so far
    begun,                  \* history: observed begins of each request
    flushed,                \* history: every batch ever built, in order
    fate,                   \* history: what became of flushed[i]
    cap_dropped             \* history: the budget gate dropped a begin of this trace

trace_vars == <<trace_live, virtual_depth, dropped_begins, call_id_seq, stack,
                buffer, intern, next_fn_id, new_entries, buffer_estimated_bytes>>
env_vars == <<php_stack, now, request, begun, cap_dropped>>
shared_vars == <<drop_counter, bytes_in_memory, channel, queue, refused,
                 in_flight, counted, flushed, fate>>
vars == <<trace_vars, env_vars, shared_vars>>

CALL_RECORD_FIXED_BYTES == 64
DICT_ENTRY_FIXED_BYTES == 24

Requests == 1..MaxRequests
Channels == {"open", "no_sender", "disconnected"}
Fates == {"queued", "refusing", "refused", "unsent",
          "in_flight", "delivered", "given_up", "lost_in_panic"}

-----------------------------------------------------------------------------
(* Helpers.                                                                *)

Interned(fn) == intern[fn] # 0

\* Mutant: every sighting is billed as the first.
DictCostAlways(fn) == DICT_ENTRY_FIXED_BYTES + NameBytes[fn]

\* What a first sighting adds to the estimate and to the budget.
DictMissCost(fn) ==
    IF Interned(fn) THEN 0 ELSE DICT_ENTRY_FIXED_BYTES + NameBytes[fn]

Parent == IF stack = <<>> THEN 0 ELSE Last(stack).call_id

\* Mutant: virtual_depth only grows.
NeverDec(n) == n

SaturatingDec(n) == IF n > 0 THEN n - 1 ELSE 0

\* The record of a frame that leaves the stack at time t.
RecordOf(frame, t, abnormal) ==
    [call_id |-> frame.call_id, parent |-> frame.parent, fn_id |-> frame.fn_id,
     depth |-> frame.depth, t_in |-> frame.t_in, t_out |-> t,
     abnormal_exit |-> abnormal]

\* Mutant: the new dictionary entries are not taken along.
BatchWithoutDict(calls, size) ==
    [no |-> Len(flushed) + 1, trace |-> request, dict |-> <<>>,
     calls |-> calls, size_estimate |-> size]

\* flush_into_pending_batch, with the buffer calls and the estimate size.
PendingBatch(calls, size) ==
    [no |-> Len(flushed) + 1, trace |-> request, dict |-> new_entries,
     calls |-> calls, size_estimate |-> size]

FlushDue(calls, size) == Len(calls) >= FlushRecords \/ size >= FlushBytes

-----------------------------------------------------------------------------
(* RINIT and the initial state.                                            *)

EmptyTrace ==
    /\ virtual_depth = 0 /\ dropped_begins = 0 /\ call_id_seq = 0
    /\ stack = <<>> /\ buffer = <<>>
    /\ intern = [fn \in Functions |-> 0] /\ next_fn_id = 1 /\ new_entries = <<>>
    /\ buffer_estimated_bytes = 0

\* Mutant: fn_ids start at 0.
ResetFromZero ==
    /\ virtual_depth' = 0 /\ dropped_begins' = 0 /\ call_id_seq' = 0
    /\ stack' = <<>> /\ buffer' = <<>>
    /\ intern' = [fn \in Functions |-> 0] /\ next_fn_id' = 0 /\ new_entries' = <<>>
    /\ buffer_estimated_bytes' = 0

ResetTrace ==
    /\ virtual_depth' = 0 /\ dropped_begins' = 0 /\ call_id_seq' = 0
    /\ stack' = <<>> /\ buffer' = <<>>
    /\ intern' = [fn \in Functions |-> 0] /\ next_fn_id' = 1 /\ new_entries' = <<>>
    /\ buffer_estimated_bytes' = 0

Init ==
    /\ trace_live = FALSE /\ EmptyTrace
    /\ drop_counter = [r \in Requests |-> 0]
    /\ bytes_in_memory = 0
    /\ channel \in SpawnOutcomes
    /\ queue = <<>> /\ refused = <<>> /\ in_flight = <<>> /\ counted = FALSE
    /\ php_stack = <<>> /\ now = 0 /\ request = 0 /\ cap_dropped = FALSE
    /\ begun = [r \in Requests |-> 0]
    /\ flushed = <<>> /\ fate = <<>>

\* The request thread runs PHP: it is not inside a send.
OnRequestThread == trace_live /\ refused = <<>>

RInit ==
    /\ ~trace_live /\ refused = <<>> /\ request < MaxRequests
    /\ trace_live' = TRUE
    /\ ResetTrace
    /\ request' = request + 1
    /\ php_stack' = <<>> /\ cap_dropped' = FALSE
    /\ UNCHANGED <<now, begun, shared_vars>>

-----------------------------------------------------------------------------
(* The begin handler.  The engine enters a function; virtual_depth counts  *)
(* it whatever the gates decide.                                           *)

EngineBegins(fn) ==
    /\ OnRequestThread
    /\ begun[request] < MaxCalls
    /\ begun' = [begun EXCEPT ![request] = @ + 1]
    /\ php_stack' = Append(php_stack, [fn |-> fn, t_in |-> now])
    /\ now' = now + 1
    /\ virtual_depth' = virtual_depth + 1
    /\ UNCHANGED <<trace_live, request, buffer, channel, queue, refused,
                   in_flight, counted, flushed, fate>>

DepthGate == virtual_depth + 1 > MaxDepth

\* Mutant: the call's own record is not part of the projection.
CapGateNoRecord(fn) == bytes_in_memory + DictMissCost(fn) > BufferCap

CapGate(fn) ==
    bytes_in_memory + CALL_RECORD_FIXED_BYTES + DictMissCost(fn) > BufferCap

\* Mutant: a drop that swallows two ends.
RecordDropTwoEnds ==
    /\ drop_counter' = [drop_counter EXCEPT ![request] = @ + 1]
    /\ dropped_begins' = dropped_begins + 2
    /\ UNCHANGED <<call_id_seq, stack, intern, next_fn_id, new_entries,
                   buffer_estimated_bytes, bytes_in_memory>>

RecordDrop ==
    /\ drop_counter' = [drop_counter EXCEPT ![request] = @ + 1]
    /\ dropped_begins' = dropped_begins + 1
    /\ UNCHANGED <<call_id_seq, stack, intern, next_fn_id, new_entries,
                   buffer_estimated_bytes, bytes_in_memory>>

BeginDroppedByDepth(fn) ==
    /\ EngineBegins(fn)
    /\ DepthGate
    /\ RecordDrop
    /\ UNCHANGED cap_dropped

BeginDroppedByCap(fn) ==
    /\ EngineBegins(fn)
    /\ ~DepthGate /\ CapGate(fn)
    /\ RecordDrop
    /\ cap_dropped' = TRUE

InternRef(fn) ==
    IF Interned(fn)
    THEN UNCHANGED <<intern, next_fn_id, new_entries>>
    ELSE /\ intern' = [intern EXCEPT ![fn] = next_fn_id]
         /\ new_entries' = Append(new_entries, [fn_id |-> next_fn_id, fn |-> fn])
         /\ next_fn_id' = next_fn_id + 1

BeginAccepted(fn) ==
    /\ EngineBegins(fn)
    /\ ~DepthGate /\ ~CapGate(fn)
    /\ call_id_seq' = call_id_seq + 1
    /\ InternRef(fn)
    /\ buffer_estimated_bytes' = buffer_estimated_bytes + DictMissCost(fn)
    /\ bytes_in_memory' = bytes_in_memory + DictMissCost(fn)
    /\ stack' = Append(stack,
            [call_id |-> call_id_seq + 1, parent |-> Parent, fn_id |-> intern'[fn],
             depth |-> virtual_depth % (U16Max + 1), t_in |-> now])
    /\ UNCHANGED <<dropped_begins, drop_counter, cap_dropped>>

Begin == \E fn \in Functions :
    BeginDroppedByDepth(fn) \/ BeginDroppedByCap(fn) \/ BeginAccepted(fn)

-----------------------------------------------------------------------------
(* Handing a batch to the shipper.  bytes is the budget before the send.   *)

Flushed(batch, what) ==
    /\ flushed' = Append(flushed, batch)
    /\ fate' = Append(fate, what)

TrySendBatch(batch, bytes) ==
    \/ /\ channel = "open" /\ Len(queue) < QueueDepth
       /\ queue' = Append(queue, batch)
       /\ bytes_in_memory' = bytes
       /\ Flushed(batch, "queued")
       /\ UNCHANGED refused
    \/ /\ channel = "open" /\ Len(queue) >= QueueDepth
       /\ refused' = <<batch>>
       /\ bytes_in_memory' = bytes
       /\ Flushed(batch, "refusing")
       /\ UNCHANGED queue
    \/ /\ channel \in {"no_sender", "disconnected"}
       /\ bytes_in_memory' = bytes - batch.size_estimate
       /\ Flushed(batch, "unsent")
       /\ UNCHANGED <<queue, refused>>

\* Mutant: the Full arm of a refused batch counts no drop.
DiscardUncounted ==
    /\ refused # <<>>
    /\ bytes_in_memory' = bytes_in_memory - Head(refused).size_estimate
    /\ fate' = [fate EXCEPT ![Head(refused).no] = "refused"]
    /\ refused' = <<>>
    /\ UNCHANGED <<trace_vars, env_vars, drop_counter, channel, queue, in_flight, counted,
                   flushed>>

\* The Full arm, after the channel has given the batch back.
DiscardRefused ==
    /\ refused # <<>>
    /\ LET batch == Head(refused) IN
        /\ bytes_in_memory' = bytes_in_memory - batch.size_estimate
        /\ drop_counter' = [drop_counter EXCEPT ![batch.trace] = @ + Len(batch.calls)]
        /\ fate' = [fate EXCEPT ![batch.no] = "refused"]
    /\ refused' = <<>>
    /\ UNCHANGED <<trace_vars, env_vars, channel, queue, in_flight, counted, flushed>>

-----------------------------------------------------------------------------
(* The end handler.                                                        *)

EngineEnds ==
    /\ OnRequestThread
    /\ php_stack # <<>>
    /\ php_stack' = Front(php_stack)
    /\ now' = now + 1
    /\ virtual_depth' = SaturatingDec(virtual_depth)
    /\ UNCHANGED <<trace_live, request, begun, cap_dropped, call_id_seq, intern,
                   next_fn_id, channel, drop_counter, in_flight, counted>>

EndOfDroppedBegin ==
    /\ EngineEnds
    /\ dropped_begins > 0
    /\ dropped_begins' = dropped_begins - 1
    /\ UNCHANGED <<stack, buffer, new_entries, buffer_estimated_bytes,
                   bytes_in_memory, queue, refused, flushed, fate>>

\* An end that finds no frame (finish_call_record with None) does nothing.
EndAccepted(threw) ==
    LET calls == Append(buffer, RecordOf(Last(stack), now, threw))
        size  == buffer_estimated_bytes + CALL_RECORD_FIXED_BYTES
        bytes == bytes_in_memory + CALL_RECORD_FIXED_BYTES
    IN /\ EngineEnds
       /\ dropped_begins = 0
       /\ UNCHANGED dropped_begins
       /\ stack' = IF stack = <<>> THEN stack ELSE Front(stack)
       /\ IF stack # <<>> /\ FlushDue(calls, size)
          THEN /\ buffer' = <<>> /\ new_entries' = <<>> /\ buffer_estimated_bytes' = 0
               /\ TrySendBatch(PendingBatch(calls, size), bytes)
          ELSE /\ IF stack = <<>>
                  THEN UNCHANGED <<buffer, buffer_estimated_bytes, bytes_in_memory>>
                  ELSE /\ buffer' = calls /\ buffer_estimated_bytes' = size
                       /\ bytes_in_memory' = bytes
               /\ UNCHANGED <<new_entries, queue, refused, flushed, fate>>

End == EndOfDroppedBegin \/ \E threw \in Throws : EndAccepted(threw)

-----------------------------------------------------------------------------
(* RSHUTDOWN: the request may end with calls still open (exit, a fatal     *)
(* error, the script body itself).  Their frames become abnormal records,  *)
(* top of the stack first, then everything left goes out as one batch.     *)

\* Mutant: RSHUTDOWN drains the open frames bottom first.
DrainBottomFirst == [i \in 1..Len(stack) |-> RecordOf(stack[i], now, TRUE)]

DrainedRecords ==
    [i \in 1..Len(stack) |-> RecordOf(stack[Len(stack) + 1 - i], now, TRUE)]

RShutdown ==
    LET calls == buffer \o DrainedRecords
        added == CALL_RECORD_FIXED_BYTES * Len(stack)
        size  == buffer_estimated_bytes + added
        bytes == bytes_in_memory + added
    IN /\ OnRequestThread
       /\ IF calls # <<>>
          THEN TrySendBatch(PendingBatch(calls, size), bytes)
          ELSE /\ bytes_in_memory' = bytes - size
               /\ UNCHANGED <<queue, refused, flushed, fate>>
       /\ trace_live' = FALSE
       /\ ResetTrace
       /\ php_stack' = <<>> /\ now' = now + 1 /\ cap_dropped' = FALSE
       /\ UNCHANGED <<request, begun, drop_counter, channel, in_flight, counted>>

-----------------------------------------------------------------------------
(* The shipper thread as the recorder sees it.                             *)

ShipperReceives ==
    /\ queue # <<>> /\ in_flight = <<>>
    /\ in_flight' = <<Head(queue)>>
    /\ queue' = Tail(queue)
    /\ fate' = [fate EXCEPT ![Head(queue).no] = "in_flight"]
    /\ UNCHANGED <<trace_vars, env_vars, drop_counter, bytes_in_memory, channel,
                   refused, counted, flushed>>

\* bump_drop_counter_on_drop.
ShipperCountsDrop ==
    /\ in_flight # <<>> /\ ~counted
    /\ LET batch == Head(in_flight) IN
        /\ drop_counter' = [drop_counter EXCEPT ![batch.trace] = @ + Len(batch.calls)]
        /\ fate' = [fate EXCEPT ![batch.no] = "given_up"]
    /\ counted' = TRUE
    /\ UNCHANGED <<trace_vars, env_vars, bytes_in_memory, channel, queue, refused,
                   in_flight, flushed>>

\* The accounting::sub of drained_consume; the batch is then dropped.
ShipperReleases ==
    /\ in_flight # <<>>
    /\ LET batch == Head(in_flight) IN
        /\ bytes_in_memory' = bytes_in_memory - batch.size_estimate
        /\ fate' = IF counted THEN fate
                   ELSE [fate EXCEPT ![batch.no] = "delivered"]
    /\ in_flight' = <<>> /\ counted' = FALSE
    /\ UNCHANGED <<trace_vars, env_vars, drop_counter, channel, queue, refused, flushed>>

\* A panic while encoding or posting drops the receiver: the channel discards
\* what it holds and nothing returns those bytes to the budget.
ShipperPanics ==
    /\ MayPanic /\ channel = "open"
    /\ in_flight # <<>> /\ ~counted
    /\ channel' = "disconnected"
    /\ fate' = [i \in DOMAIN fate |->
                    IF fate[i] \in {"queued", "in_flight"} THEN "lost_in_panic" ELSE fate[i]]
    /\ queue' = <<>> /\ in_flight' = <<>>
    /\ UNCHANGED <<trace_vars, env_vars, drop_counter, bytes_in_memory, refused,
                   counted, flushed>>

-----------------------------------------------------------------------------
RequestThread == RInit \/ Begin \/ End \/ RShutdown \/ DiscardRefused

Shipper == ShipperReceives \/ ShipperCountsDrop \/ ShipperReleases \/ ShipperPanics

Next == RequestThread \/ Shipper

Spec == Init /\ [][Next]_vars

-----------------------------------------------------------------------------
(* Properties.                                                             *)

Frames == [call_id : Nat \ {0}, parent : Nat, fn_id : Nat \ {0}, depth : Nat, t_in : Nat]
Records == [call_id : Nat \ {0}, parent : Nat, fn_id : Nat \ {0}, depth : Nat,
            t_in : Nat, t_out : Nat, abnormal_exit : BOOLEAN]
DictEntries == [fn_id : Nat \ {0}, fn : Functions]
Batches == [no : Nat \ {0}, trace : Requests, dict : Seq(DictEntries),
            calls : Seq(Records), size_estimate : Nat]

FlagsTypeOK == trace_live \in BOOLEAN /\ counted \in BOOLEAN /\ cap_dropped \in BOOLEAN

TraceTypeOK ==
    /\ virtual_depth \in Nat /\ dropped_begins \in Nat /\ call_id_seq \in Nat
    /\ stack \in Seq(Frames) /\ buffer \in Seq(Records)
    /\ intern \in [Functions -> Nat] /\ next_fn_id \in Nat \ {0}
    /\ new_entries \in Seq(DictEntries)
    /\ buffer_estimated_bytes \in Nat

SharedTypeOK ==
    /\ drop_counter \in [Requests -> Nat] /\ bytes_in_memory \in Int
    /\ channel \in Channels
    /\ queue \in Seq(Batches) /\ Len(queue) <= QueueDepth
    /\ refused \in Seq(Batches) /\ Len(refused) <= 1
    /\ in_flight \in Seq(Batches) /\ Len(in_flight) <= 1
    /\ flushed \in Seq(Batches)
    /\ fate \in Seq(Fates) /\ Len(fate) = Len(flushed)

EnvTypeOK ==
    /\ php_stack \in Seq([fn : Functions, t_in : Nat])
    /\ now \in Nat
    /\ request \in 0..MaxRequests /\ (trace_live => request \in Requests)
    /\ begun \in [Requests -> Nat]

\* Every field has the type its Rust declaration gives it; the channel holds
\* at most shipper_queue_depth batches, and each thread holds at most one.
TypeOK == FlagsTypeOK /\ TraceTypeOK /\ SharedTypeOK /\ EnvTypeOK

\* "virtual_depth - dropped_begins == stack.len()" (types.rs, Trace), and
\* virtual_depth is the engine's own nesting: whatever the gates dropped, the
\* counters never drift, so an accepted end always finds a frame (the
\* debug_assert of end_with_snapshots_accept).
LifoCount ==
    /\ virtual_depth = Len(stack) + dropped_begins
    /\ virtual_depth = Len(php_stack)

\* As long as only the depth gate has dropped begins, the frames are exactly
\* the outermost open calls: each end closes the frame of its own begin, with
\* the right function and depth, although the recorder keeps no per-call state
\* for drops.
PairingUntilCapDrop ==
    ~cap_dropped =>
        \A i \in 1..Len(stack) :
            /\ stack[i].t_in = php_stack[i].t_in
            /\ stack[i].depth = i - 1
            /\ stack[i].fn_id = intern[php_stack[i].fn]

\* "Per-thread LIFO is guaranteed by the Zend Engine, so a single counter
\* suffices" (types.rs, dropped_begins): an accepted end pops the frame its own
\* begin pushed.  False once the budget gate drops a begin and accepts one
\* nested in it.
EndPairsWithItsBegin ==
    (dropped_begins = 0 /\ stack # <<>>) => Last(stack).t_in = Last(php_stack).t_in

\* Even when the pairing is lost, a frame never started before the call in its
\* place, so a record never covers time outside the call whose end emits it.
FrameNotOlderThanCall ==
    \A i \in 1..Len(stack) :
        i <= Len(php_stack) /\ php_stack[i].t_in <= stack[i].t_in

\* The frames are a chain: the bottom frame is top-level, every other one has
\* the frame below it as parent, and ids and entry times grow upwards.  The
\* chain is never longer than max_depth, so the u16 cast of a frame's depth
\* never truncates.
StackChain ==
    /\ Len(stack) <= MaxDepth
    /\ \A i \in 1..Len(stack) :
        /\ stack[i].call_id <= call_id_seq
        /\ stack[i].t_in < now
        /\ stack[i].depth < MaxDepth
        /\ stack[i].parent = IF i = 1 THEN 0 ELSE stack[i - 1].call_id
        /\ i > 1 => /\ stack[i - 1].call_id < stack[i].call_id
                    /\ stack[i - 1].t_in < stack[i].t_in

\* The shadow stack is the engine's as far as the drops allow: the counters
\* agree with its nesting, the frames are a chain, and none is older than the
\* call whose end will close it.
StackConsistent == LifoCount /\ StackChain /\ FrameNotOlderThanCall

IsCurrent(r) == trace_live /\ r = request
OpenFrames(r) == IF IsCurrent(r) THEN stack ELSE <<>>
IdsOf(s) == {s[i].call_id : i \in DOMAIN s}

\* A trace's batches, by their numbers.  What the live trace has staged is in
\* the batch that comes next.
Staged == Len(flushed) + 1
BatchesOf(r) == {b \in DOMAIN flushed : flushed[b].trace = r}
                    \cup (IF IsCurrent(r) THEN {Staged} ELSE {})
CallsOf(b) == IF b = Staged THEN buffer ELSE flushed[b].calls
DictOf(b) == IF b = Staged THEN new_entries ELSE flushed[b].dict

\* A place is a batch and an index in it; places come in the order of emission.
CallPlaces(r) == UNION {{b} \X DOMAIN CallsOf(b) : b \in BatchesOf(r)}
EntryPlaces(r) == UNION {{b} \X DOMAIN DictOf(b) : b \in BatchesOf(r)}
CallAt(p) == CallsOf(p[1])[p[2]]
EntryAt(p) == DictOf(p[1])[p[2]]
Before(p, q) == p[1] < q[1] \/ (p[1] = q[1] /\ p[2] < q[2])

\* "every CallFrame pushed during the trace produces a matching CallRecord
\* somewhere in some batch" (SPECIFICATION 4.2.3): the ids 1..n handed out are
\* those emitted and those still open, each in one place, across flushes and
\* the drain.
EveryFrameEmittedOnce ==
    \A r \in Requests :
        LET places == CallPlaces(r)
            open   == IdsOf(OpenFrames(r))
        IN /\ \E n \in 0..begun[r] : {CallAt(p).call_id : p \in places} \cup open = 1..n
           /\ \A p, q \in places : CallAt(p).call_id = CallAt(q).call_id => p = q
           /\ \A p \in places : CallAt(p).call_id \notin open

\* "calls: in emission order" (REQUIREMENTS F-BF-4): a record comes after the
\* records of all the calls it made, in whatever batch they went, its interval
\* contains theirs, and its parent is a call the trace really recorded.
ChildrenBeforeParent ==
    \A r \in Requests :
        \A p \in CallPlaces(r) : CallAt(p).parent # 0 =>
            \/ \E i \in DOMAIN OpenFrames(r) :
                    /\ OpenFrames(r)[i].call_id = CallAt(p).parent
                    /\ OpenFrames(r)[i].t_in < CallAt(p).t_in
            \/ \E q \in CallPlaces(r) :
                    /\ Before(p, q)
                    /\ CallAt(q).call_id = CallAt(p).parent
                    /\ CallAt(q).t_in < CallAt(p).t_in
                    /\ CallAt(p).t_out <= CallAt(q).t_out

\* What a trace's batches hold is a tree: its nodes are the calls recorded, and
\* they come in the order of their ends.
RecordsFormATree == EveryFrameEmittedOnce /\ ChildrenBeforeParent

\* "When parent is non-zero, it MUST equal the call_id of another CallRecord
\* [...] either one already shipped in a previous batch, or one shipped later
\* in the same batch" (SPECIFICATION 4.2.3).  False: a threshold flush ships
\* children while their parent is still open.
ParentEarlierOrSameBatch ==
    \A i \in DOMAIN flushed : \A c \in ToSet(flushed[i].calls) :
        c.parent = 0 \/ \E j \in 1..i : /\ flushed[j].trace = flushed[i].trace
                                         /\ c.parent \in IdsOf(flushed[j].calls)

\* F-FN-1, F-FN-2: fn_ids are numbered from 1 in order of first sighting, each
\* function is announced once per trace, and always in the batch of its first
\* record or an earlier one.
DictionaryAnnounced ==
    \A r \in Requests :
        LET places == EntryPlaces(r)
        IN /\ \E n \in 0..begun[r] : {EntryAt(p).fn_id : p \in places} = 1..n
           /\ \A p, q \in places :
                /\ Before(p, q) => EntryAt(p).fn_id < EntryAt(q).fn_id
                /\ EntryAt(p).fn = EntryAt(q).fn => p = q
           /\ \A p \in CallPlaces(r) : \E q \in places :
                q[1] <= p[1] /\ EntryAt(q).fn_id = CallAt(p).fn_id
           /\ \A i \in DOMAIN OpenFrames(r) : \E q \in places :
                EntryAt(q).fn_id = OpenFrames(r)[i].fn_id

\* estimate_batch_bytes: the estimate kept incrementally is exact, for the
\* buffer and for every batch (the "estimator drift" debug_assert).
EstimateOf(dict, calls) ==
    Len(calls) * CALL_RECORD_FIXED_BYTES
        + Total([k \in DOMAIN dict |-> DICT_ENTRY_FIXED_BYTES + NameBytes[dict[k].fn]])

\* The batches the channel or a thread holds.
Held == {b.no : b \in ToSet(queue) \cup ToSet(refused) \cup ToSet(in_flight)}

BytesOf(numbers) == TotalIn([i \in DOMAIN flushed |-> flushed[i].size_estimate], numbers)

\* The process-wide budget is exactly what is buffered, queued, being refused
\* or being shipped, plus what a panic leaked: every path that drops a batch
\* gives back just what that batch was billed (accounting.rs).
BudgetBalanced ==
    /\ buffer_estimated_bytes = EstimateOf(new_entries, buffer)
    /\ \A i \in DOMAIN flushed :
            flushed[i].size_estimate = EstimateOf(flushed[i].dict, flushed[i].calls)
    /\ bytes_in_memory = buffer_estimated_bytes
            + BytesOf(Held \cup {i \in DOMAIN flushed : fate[i] = "lost_in_panic"})

\* The gate looks at the record of the call at hand only, and charges it when
\* the call ends, so calls nested under the cap all end above it: the overshoot
\* is the records of the open frames, at most one stack of them.
BudgetBound ==
    bytes_in_memory + CALL_RECORD_FIXED_BYTES * Len(stack)
        <= BufferCap + CALL_RECORD_FIXED_BYTES * (MaxDepth - 1)

CallsIn(numbers) == TotalIn([i \in DOMAIN flushed |-> Len(flushed[i].calls)], numbers)

\* AC-RC-1: of the calls a request makes, each is recorded or counted in its
\* trace's drop_counter, once, whatever gate, flush or shipper drops it.  The
\* batches that leave without being counted are the unsent ones and those a
\* panic destroys.
EveryCallAccountedFor ==
    \A r \in Requests :
        begun[r] = drop_counter[r] + Len(OpenFrames(r))
            + (IF IsCurrent(r) THEN Len(buffer) ELSE 0)
            + CallsIn({i \in DOMAIN flushed : /\ flushed[i].trace = r
                                             /\ fate[i] \notin {"refused", "given_up"}})

\* The two ledgers agree with what there is, in every state of both threads:
\* bytes with the batches held somewhere, drop counts with the calls in none.
LedgersBalance == BudgetBalanced /\ EveryCallAccountedFor

-----------------------------------------------------------------------------
(* The abstract hand-off this implements.                                  *)

StatusOf(f) ==
    CASE f \in {"queued", "refusing", "in_flight"} -> "pending"
      [] f = "delivered"                           -> "delivered"
      [] f \in {"refused", "given_up"}             -> "dropped"
      [] OTHER                                     -> "lost"

Ledger == [i \in DOMAIN flushed |->
            [trace |-> flushed[i].trace, records |-> Len(flushed[i].calls),
             status |-> StatusOf(fate[i])]]

H == INSTANCE HandOff WITH Traces <- Requests,
                           Faulty <- MayPanic \/ "no_sender" \in SpawnOutcomes,
                           ledger <- Ledger, drops <- drop_counter

\* The recorder's side of the hand-off: each step counts at most one gated call
\* or one refused batch, and no batch ends twice.
ImplementsHandOff == H!Spec

=============================================================================
