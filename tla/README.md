# php-analyze in TLA+

php-analyze is a PHP extension, written in Rust, that records every function
call of a request, buffers the records, and posts them in batches to an ingest
server from a background thread. This directory holds a model of the part where
it can go wrong — the configuration that MINIT resolves, the recorder in the Zend
observer's callbacks, the bounded channel, the shipper thread, the way of a batch to
the ingest server, and the shutdown protocol — with the TLC runs that check it and
TLAPS proofs of its main invariants.

Paths such as `recorder/observer.rs` are relative to
`src/crates/php-analyze/src/`; `stub-ingest` is `src/crates/stub-ingest/src/main.rs`.

## The system

| Component | State it keeps | Operations | Hard behaviour | What makes it correct |
|---|---|---|---|---|
| Recorder (`recorder/observer.rs`, `types.rs`) | one `Trace` per request: shadow stack, `virtual_depth`, `dropped_begins`, `call_id_seq`, record buffer and its estimated size | `begin_handler`, `end_handler`, `rinit_allocate_trace`, `rshutdown_release_trace` | begins dropped by two gates share one counter that ends consume; a request can end with calls open; a flush can come between the ends of a callee and its caller | ends meet the frames of their begins; each call is recorded or counted once; records form a tree |
| Dictionary (`recorder/dictionary.rs`, `types.rs`) | function → `fn_id`, the entries not yet shipped | `intern_ref`, `intern`, `take_new_entries` | a map of owning keys is probed by the hash of a borrowed one; entries go out with whatever batch is next | a function has one `fn_id`, whatever the hash; it is announced once, no later than its first record |
| Budget (`recorder/accounting.rs`) | the process-wide `BYTES_IN_MEMORY` | `add`, `sub`, `would_exceed` | billed at three sites, unbilled at five, by two threads | balanced at all times; bounded |
| Flush (`recorder/flush.rs`) | the bounded channel's sending end | `try_send_batch` | full, disconnected or absent channel | a refused batch is unbilled once and counted once |
| Shipper (`shipper/mod.rs`) | `SENDER_SLOT`, `RECEIVER_SLOT`, `SHIPPER_HANDLE`, `SPAWNED`, `SPAWN_FAILED`, `DRAIN_DEADLINE`, `DROP_NOTICE_QUEUE` | install at MINIT, spawn at the first RINIT, receive loop, drain phase, sweep, drain-and-join at MSHUTDOWN | thread creation fails; the thread panics; MSHUTDOWN comes in the middle of a retry or with the queue full | nothing is left unresolved; MSHUTDOWN returns; notices are exact |
| Delivery (`shipper/http.rs`, `on_batch.rs`) | the attempt, the deadline it saw | `run_with_retry`, `bump_drop_counter_on_drop` | the deadline is published while a batch is being retried; the server hangs | no POST starts late; the time of a shutdown is bounded |
| Encoding (`shipper/encode.rs`, `wire.rs`) | none | `encode_batch`, the wire structs | reads the drop counter while the request thread adds to it | a later batch reports earlier drops: no gap in the server's store is unexplained |
| Hooks (`bootstrap.rs`, `lib.rs`) | the observer handed to Zend | MINIT, RINIT, RSHUTDOWN, MSHUTDOWN, the phpinfo page | MINIT may panic half-way, or run again with other files on disk | a disabled extension does nothing; what was decided once stays; batches go where the shipper reads |
| Configuration (`config.rs`) | the `CONFIG` cell, the cached CPU mode | `raw_ini_from_ini_map`, `from_ini_values`, `initialise_from_ini` | ranges that depend on each other; several reasons to be disabled at once; a token from two sources | every limit in its range; one reason logged; a token file that is named decides |
| Call sites (`recorder/observer.rs`) | none | `extract_call_site`, `should_observe_filter`, `categorise`, `categorise_lazy`, `render`, `render_len` | two categorisations that must agree; names without case; names without names | a function has one identity; a listed function is never recorded; a begin is charged what it will be billed |
| Debug dump (`recorder/dump.rs`) | the file at `PHP_ANALYZE_DUMP_PATH` | a block before a batch is sent, a summary after the last, `parse_dump` | the last batch may be refused between the block and the summary | the file explains every call it does not show |
| Ingest server (`stub-ingest`) | the store, the last headers, the connections, the capture directory | `POST /v1/ingest`, the `/debug` routes | stores before it answers, and the client may be gone by then; the capture fails | what is captured is what is stored; a sent batch is in the store |
| Clocks, benches, integration tests | — | — | — | not modelled, see below |

Interactions. The engine calls the observer's handlers on the request thread;
they touch the thread-local trace and the atomic budget and, at a threshold or at
RSHUTDOWN, call `try_send_batch`, which puts the batch in the channel or throws it
away. The shipper thread takes it, encodes and posts it with retries, adds to the
trace's drop counter if it gives up, returns its bytes to the budget, and queues a
notice which the request thread emits at its next RSHUTDOWN. At MSHUTDOWN the
request thread publishes a deadline in a shared cell, sends `Drain`, drops the last
`Sender` and joins the thread. The only shared state is thus the channel, the
budget, the per-trace drop counters, the deadline cell and the notice queue.
With the server the shipper shares nothing: it learns of a batch's fate by a status,
or by none.

## The modules

    HandOff                    what is promised of a flushed batch
      ^           ^
      |           |            both are proved to implement it
    Recorder    Shipper        request thread in detail | shipper thread in detail
     ^  ^  ^         ^         Shutdown: the time MSHUTDOWN takes
     |  |  |         |            ^
     |  |  |     ShipperProofs ShutdownProofs
     |  |  RecorderProofs <-- LedgerProofs <-- DumpProofs, which EXTENDS TraceDump too
     |  TraceDump              Recorder with its diagnostic dump

    Totals      the sum of a sequence, which Recorder and Shipper use
    SequenceFacts   lemmas on sequences and totals, which their proofs use
     |
     |          Wire           the wire batch                          (no state)
     |           ^
     |        StubIngest       the ingest server
     |           ^
    Delivery ----'             Recorder + encode/post/retry + network + server
     ^
    DeliveryProofs             which EXTENDS LedgerProofs too

    Config        ini file -> configuration and warnings               (no state)
     ^   ^
     |   CallSite      execute_data -> observed or not, key, name      (no state)
     |    ^
     |   Dictionary    interning, billing                              (no state)
     |    ^
    PhpInfo  |         configuration -> phpinfo rows                   (no state)
        ^    |
       Process         MINIT, the observer, requests and their calls, MSHUTDOWN
        ^
    ProcessProofs

An arrow is an EXTENDS, or an INSTANCE in the case of `HandOff`. `MCRecorder`,
`MCTraceDump`, `MCDelivery` and `MCProcess` hold the instances TLC checks;
`Shipper` and `Shutdown` need nothing a .cfg cannot say.

Each of the two detailed modules keeps the other side of the channel as its
environment, at the grain its properties need: `Recorder` has a shipper that takes
a batch, may count it as dropped, releases it, or panics; `Shipper` has a request
thread that flushes batches of any of some sizes at any time during a request.
`HandOff` is the interface: an entry per batch that is pending and then, once and
for all, delivered, dropped (with its records added to the counter in the same
step), or lost with the thread. Both modules are checked and proved to implement it.

### Recorder

State: the fields of `Trace`, with their names, plus `drop_counter` (one
`Arc<AtomicU64>` per request), `bytes_in_memory`, the channel and the batch each
side holds. The environment is the engine's own call stack `php_stack` and a clock
`now` that ticks at each event and stands for every timestamp. `flushed`, `fate`,
`begun` and `cap_dropped` are history.

| Action | Code |
|---|---|
| `RInit` | `rinit_allocate_trace` |
| `BeginDroppedByDepth`, `BeginDroppedByCap`, `BeginAccepted` | `begin_handler`: `begin_lazy_would_accept`, then `begin_with_snapshots_lazy_accept` |
| `EndOfDroppedBegin`, `EndAccepted` | `end_handler`: `end_would_accept`, `end_with_snapshots_accept`, `finish_call_record` and, at a threshold, `flush_into_pending_batch` and `try_send_batch` |
| `RShutdown` | `rshutdown_release_trace`: drain the open frames top first, flush what there is |
| `DiscardRefused` | the Full arm of `try_send_batch`: between the refusal and this step the shipper may run |
| `ShipperReceives`, `ShipperCountsDrop`, `ShipperReleases`, `ShipperPanics` | the shipper thread |

A handler is one step although it accesses the budget more than once: those
accesses commute with the shipper's single `fetch_sub`, except that the gate's load
and the later `fetch_add` might have a `fetch_sub` between them, and that only
lowers the total. Bytes are counted as the code counts them: 64 per record, 24 and
the names per dictionary entry. The content of a record that no property depends on
(CPU times, memory) is left out, and a function is an element of `Functions`: the
identity `categorise_lazy` computes.

### Shipper

State: the statics of `shipper/mod.rs`, the program counter of each thread, and the
locals of `run_loop`, `drained_consume` and `run_with_retry`. Bytes are counted in
records. Time is one flag, `deadline_passed`, that may rise at any moment after the
deadline is published. The thread's steps are split wherever it touches shared
state: reading the deadline, checking it, posting, sleeping, counting the drop,
releasing the bytes and pushing the notice are separate steps, because the
request thread may run between any two of them. `Panic` is a panic of the encoder or
the HTTP client, `RInitSpawnFails` the failure of `thread::Builder::spawn`, and
"encode" an error of the encoder. The server is the nondeterminism of `Post`: a POST
may be answered with success or failure, or time out.

External assumption: crossbeam-channel 0.5. `recv` and `recv_deadline` return a
queued message before they look at the clock or at the disconnection, and a receiver
that is dropped discards what the channel holds. Three actions rest on it:
`ReceiveBatch`, `RecvTimesOut` and `Panic`.

### Shutdown

The same protocol with lengths in ticks and fewer details: how many batches are
queued, where the thread is, and how long it will remain there. Only a POST and a
backoff take time. `elapsed` runs from the publication of the deadline.

### TraceDump

`Recorder` with one variable more, the lines of the dump, which no step of the
recorder reads: `HandlerFlushes` appends the block of the batch a handler builds,
`WriteTrace` (RSHUTDOWN) the last block, or what is staged and in no batch, and the summary,
`AfterDiscard` the summary if the last batch was being refused, since the code
writes it after `try_send_batch` has returned. `parse_dump` is the reader of the
integration tests.

### Wire, StubIngest, Delivery

`Wire` translates a batch of `Recorder` to the map that is posted, with the drop count
read when it is encoded, and says which maps decode. `StubIngest` is the server: a thread
that takes a request (`Dispatch`), handles it up to the sleep of `--simulate-slow`, and
answers it (`Respond`).

| Action | Code |
|---|---|
| `IngestRejected`, `IngestCaptureFails`, `IngestStored` | `handle_ingest`: headers and connection are noted first, then 401, 415, 400, then the capture, then the store |
| `DebugRead`, `DebugReset`, `NotRouted` | the other arms of `dispatch` |
| `Respond` | `--simulate-slow`, then the answer |

`Delivery` replaces `Recorder`'s free shipper by the thread of `shipper/http.rs`; each of
its steps is a step of `Recorder`'s shipper or leaves `Recorder` alone.

| Action | Code |
|---|---|
| `Takes` | `run_loop` receives a batch |
| `Encodes`, `EncodeFails` | `encode_batch` |
| `Connects`, `ConnectionRefused` | `attempt_send`: the request is on its way, or there is no server |
| `Answers2xx`, `AnswersError` | the answer reaches the client; `run_with_retry` goes on or stops |
| `TimesOut`, `AnswersNobody` | `http_timeout_ms` is over before the answer: the request is late, lost, cut short or already handled |
| `GivesUpAtDeadline` | the deadline of MSHUTDOWN, before an attempt or a backoff |
| `CountsDrop`, `Releases` | `bump_drop_counter_on_drop`, then the return of the bytes |
| `Panics` | a panic of the encoder or the client |
| `Serves` | the server takes any request that is on its way |
| `Probe`, `Php` | a request of the test harness; a step of the request thread |

External assumptions: ureq gives up an exchange after the global timeout and reports a
status that is not 2xx; tiny_http hands over whole requests, or an error in the middle
of a body. What is under way at the timeout may arrive at any later time.

### Config, CallSite, Dictionary, PhpInfo, Process

The first four are definitions only. An ini file is a function from the
directives to values, and a value keeps what the code tells apart: empty, junk, an
integer, on or off, a scheme, a set of names. `from_ini_values` is put together as
the code is: the limits clamped in order with `buffer_cap_bytes` bounded by
`flush_bytes` as clamped, then the URL, then (if there is a URL) the token, then the
CPU mode and the skip list, each with the warnings it pushes. A call site is what
`execute_data` points to; a text is the sequence of its parts, so that case, the
`Class::method` form and the digits of a number are conversions and not the identity.
`Lossy` is `from_utf8_lossy`, `Lower` is `to_lowercase`, on the words of the instance.
`Dictionary` has the keys in both forms, what each writes to the hasher, and the probe
that compares only keys of one hash; `FxHash` may be any function. `PhpInfo` gives the
rows of the phpinfo page.

`Process` has the state of a PHP process: the files on disk, `CONFIG`,
`CACHED_CPU_SNAPSHOT_MODE`, the observer Zend holds, the error log of the last
MINIT, the slots of the channel and the thread (a channel is the number of the MINIT
that made it), and of a request its trace and the recorded calls.

External assumptions: the formatting and the logarithms of the Rust library
(`Quotients`, `Numeral`, `ilog`: divide by the base until nothing is left), and ext_php_rs, whose view of a call (`FcallInfo`) has no name
where the name is not UTF-8.

| Action | Code |
|---|---|
| `Startup` | `startup_body_inner` (`initialise_from_ini`, the warnings, the notice, `install_shipper_if_enabled`), then `build_boot_observer` |
| `StartupPanics` | `startup` containing a panic before or after `CONFIG` is set; the log is lost |
| `Reload` | external: PHP runs MINIT again in the process, the files may have changed |
| `RInit` | `rinit_body`: the thread is spawned once, or fails once; identity and limits of the trace |
| `RShutdown` | `rshutdown_body`, as far as the trace's existence |
| `MShutdown` | `mshutdown_body`, as far as the slots |
| `Call` | `should_observe`, then `begin_handler` up to the interning by the key of `categorise_lazy`, with the cost the cap gate projects |

That `Reload` runs MINIT with different ini files on one loaded library is what
`initialise_from_ini` documents that it copes with ("Calling this a second time in
the same process").

## The runs

All runs use the byte constants of the code with caps and thresholds scaled down,
except `delivery_server`, where the cap is out of reach.

| Run | Question | Result |
|---|---|---|
| `recorder_gates` | Both gates drop begins at any nesting, and thresholds flush, while batches come and go; requests end with calls open | counters, stack, pairing and the budget's bound hold; a trace's batches hold each recorded call once, as a tree, with the dictionary complete; the dump holds every batch and explains what it lacks |
| `recorder_crash` | Two requests with exceptions, dropped begins, full channel, no thread, or a thread that panics | budget and drop counts exact, each call recorded or counted; `HandOff` implemented |
| `recorder_pairing` | Does an accepted end always pop its own frame? | **no** |
| `recorder_parents` | Is the parent in an earlier batch or the same one? | **no** |
| `shipper_drops` | Refusals, exhausted retries, encoder errors, spawn failure and panic, over two requests and shutdown | counts, stamps, notices, budget; only a panic leaks bytes; `HandOff` implemented |
| `shipper_shutdown` | MSHUTDOWN at any moment, with every fault, fair | nothing left, and only a spawn failure or a panic loses a batch without counting it; one late POST at most; MSHUTDOWN returns, each step of the thread leaving it fewer |
| `shipper_no_sender` | Is a batch never flushed without a `Sender`? | **no** |
| `shutdown_grace` | How long may MSHUTDOWN take? | one POST after the deadline, and it returns |
| `shutdown_ac_bs_4` | Is it `shutdown_grace_ms` + 200 ms, with the default configuration? | **no** |
| `delivery_server` | Two batches on their way to a server that may refuse, fail, be slow or not be there, with requests lost, cut short and overtaken | a sent batch is stored, at most `retry_count + 1` times and in order; the store's gaps and unknown functions are announced; calls = stored + counted - counted although stored |
| `process_start` | Any of 287 combinations of an ini file and a token file, MINIT once, twice or panicking, then requests with calls of every shape | the configuration is fit for use, explained once, never changed, as phpinfo shows it; the filter and the projected costs are exact, identities where the specification says which there are; batches have a reader |
| `process_anonymous` | Are unnamed internals at different addresses kept apart? | **no** |

The five runs that answer no:

* `EndPairsWithItsBegin`. `types.rs:611` argues that one counter of dropped begins
  suffices because the engine's calls are last in, first out. That holds for the
  depth gate, which drops everything above a level, but not for the budget gate:
  what a call costs depends on its function. In the trace TLC finds, `f` has been
  recorded (158 of 250 bytes are held); `g` is new, would take an entry and a record and
  is dropped; `f`, called by `g`, takes a record only (222) and is accepted. The end of `f`
  is consumed as that of `g`, and the end of `g` closes the frame of `f`: the record gets
  the wrong end time; counts and ids stay right (`StackConsistent`). The shipper has no
  part in this; bytes it releases between the two begins are another way to get there.
* `ParentEarlierOrSameBatch`. The specification's rule for a consumer of the wire
  format; a threshold flush breaks it. `RecordsFormATree` is what holds.
* `SenderNeverMissing`. A `debug_assert` that a failed thread spawn reaches.
* `ReturnsWithinGracePlusSlack`. Acceptance criterion AC-BS-4. The deadline is looked
  at between attempts, and nothing interrupts a POST. `ReturnsWithinOnePost` is
  what holds.
* `AnonymousInternalsApart`. `categorise_lazy` steers an internal function without a name
  to a key with its address "so two anonymous internals don't collide", but the address
  goes where a line number would, and is cut to 32 bits. Two whose addresses agree in
  the low half are one function, rendered with the address of the first.

Disagreements met on the way that no run is about. Most are a matter of reading a
value and not of behaviour over time; the modules follow the code in each:

* `recorder/accounting.rs:12` bounds the overshoot of the budget "by one
  worst-case-per-call contribution per worker", and `README.md:203` calls the cap
  hard. The gate looks at one record at the begin, and the record is billed at the end,
  so all frames of a stack pass the same check, as `types.rs` admits elsewhere ("Known
  imprecision"). `BudgetBound` is what holds: `max_depth - 1` records of 64 bytes.
* `parse_skip_functions` (`config.rs:728`) says an empty list means no filtering, and the
  code below it takes the curated list.
* Unnamed methods of a class are not kept apart by `categorise_lazy` as RO-5 (`observer.rs`,
  `categorise`) asks, nor are calls of no function at all by more than a line number; names
  that are not UTF-8 and look alike once decoded are one name. `SPECIFICATION.md:369` says
  nothing of such calls, and `IdentityExact` leaves them out. Internals of one name are one
  function whatever their class, which is what it does say.
* `SPECIFICATION.md:369` keeps closures apart by file and line, but the class is looked at
  before the closure, so that a closure with a class scope has a method's key. PHP 8.4
  puts the file and the line into its name; before, `{closure}` is all it has, and all
  closures of a class are one function. `IdentityExact` leaves these out too.
* An empty `php_analyze.enabled`, which is what PHP's ini parser hands over for an unquoted
  `Off`, is taken for "not set" before `parse_bool`, which takes `""` for false
  (`bootstrap.rs:976` tests it), could say so: the extension stays on. `0` and a quoted
  `"off"` do work.
* A number that an i64 does not hold fails to parse, which is what a directive that is not set
  looks like: the default is in force, and nothing is logged. Acceptance criterion AC-CF-2
  (`SPECIFICATION.md:318`) wants it clamped and logged. `NoSilentLimit` states where a
  limit is told of, and that the default stands otherwise.
* A panic in MINIT after `CONFIG` is set does not silent-disable, as `bootstrap.rs:197`
  says, but leaves an enabled observer, with no channel if the panic came before its
  installation, which `BatchesReachTheShipper` excepts.
* `should_observe` is given names by ext_php_rs, which has none where the bytes are not
  UTF-8, so that a function whose name decodes only lossily cannot be listed.
* phpinfo shows `auth_token_file` as unset when the file could not be read.
* `http.rs:81` assumes at most 8 retries where the directive allows 10 (the saturating
  arithmetic below it holds for both).
* A spawn that failed is never tried again, but a second MINIT finds the `Sender` slot
  empty and installs a channel that nobody reads.

### Bounds, and why they suffice

`MaxCalls` (2 to 5 begins of a request), `MaxRequests` (1 or 2), `MaxBatches` (3
or 4), `MaxStarts` (2) and `MaxProbes` (1) are the only bounds that the program lacks;
the others are its own directives.

* Five calls with `MaxDepth` 3 nest beyond the depth gate by two and still leave an
  accepted begin after a drop. With a cap of 250 bytes three or four records fill
  the budget, so both gates fire, also nested in each other, before and after the
  shipper has released a batch.
* `recorder_crash` has a third call too many for both gates: with `MaxDepth` 2 when nested, and with
  a cap of 200 bytes while the first two are still in memory.
* A flush at two records leaves batches in the middle of nested calls; a queue of
  one makes it full with one batch in the shipper's hand, the smallest case in
  which a refusal races with a delivery.
* Three batches over two requests: the first may be refused, given up or delayed into
  the second request. Four batches with a queue of two: one in the shipper's hand,
  two queued, one refused, and `Drain` finding the queue full.
* One retry has a first attempt, a backoff and a last attempt, the three kinds there
  are. `Shutdown` has three retries, since their backoffs differ, and a queue of three.
* `delivery_server` has one request of two calls, a batch each, a queue of one and one
  retry. Two batches of two attempts are the smallest case in which a copy of a batch given
  up arrives after the next batch was stored, in which a second batch's stamp tells of the
  first, and in which its function is one the server never heard of. The server answers
  200 or 500, its capture directory can be written, fails at times, or keeps it from
  starting; the harness makes one request of its own, of every route, the reset included.
* `process_start` varies the directives that interact together (the switch with the
  URL and the two token directives; `flush_bytes` with the cap; the three filter
  directives) and every other limit alone, below, inside and above its range,
  too large for an i64 and unreadable. MINIT runs twice, the second time on three different files, and a request
  has two calls out of seventeen: the smallest number with which two call sites can
  share or fail to share an entry. They include names that are not UTF-8 and look alike
  once decoded, and, with `U32` at 16, addresses that agree in their low bits and
  numbers of one and of two digits. The hash collides for most keys of a variant.
  The values of `DEFAULT` and `RANGE` are the code's, except the upper end of the cap's range (10^10 does not fit an integer of
  TLC), which is a constant, as is the largest i64: 2 000 000 000 and 2 100 000 000 here.
* `shutdown_ac_bs_4` takes the defaults in ticks of 100 ms: grace 5 s, timeout 2 s,
  three retries; the first backoff (200 ms by default) is 1 tick, which only
  shortens the wait.

`CHECK_DEADLOCK FALSE` is said only for `Recorder`, `TraceDump` and `Delivery`, where a
process that has served its `MaxRequests` and whose shipper has nothing to do stops,
and for `Process`, whose runs are bounded in the same way. `Shipper` and
`Shutdown` have an explicit terminal step.

### Fairness

`Shipper!FairSpec` and `Shutdown!FairSpec` assume that a runnable thread goes on
running (weak fairness of the shipper thread as a whole, and of the request thread
once it is inside `try_send_batch` or MSHUTDOWN), that every POST ends (ureq is
configured with a global timeout, `shipper/http.rs`, `RmpEncodeAndHttpPost::new`),
and that time passes. Nothing is assumed of the script: requests may stop
coming, and MSHUTDOWN need never start. No fairness is needed for which way a POST
ends, and none is assumed: retries end because attempts are counted, which is the theorem
`WorkIsBounded`. The other
specifications state none, since their properties are about safety: a network that
never delivers, and a server that never answers, are behaviours of `Delivery`.

### Mutants

Each module has alternative definitions marked "Mutant": the definition above or
below them with a plausible bug (a counter not decremented, a refused batch not
counted, the deadline taken from an argument as before C-18). `PROJECT.json` pairs
each property of each run with a mutant under which TLC finds it violated.

## The proofs

Eight modules, for all values of the constants. `RecorderProofs`, `LedgerProofs`,
`DumpProofs`, `ShipperProofs` and `ShutdownProofs` rest on the `ConfigAssumption` of the module they are
about (the ranges to which `from_ini_values` clamps, and no bound on the sizes of names or
batches) and, for `Shutdown`, on `PowersOfTwo` (the provers do not know that a power of two
is a number). `DeliveryProofs` rests on `DeliveryAssumption` too: `retry_count` is a number,
the simulated statuses are 2xx, 4xx or 5xx, and a test harness that runs php beside the
server posts no batch of its own. `ProcessProofs` rests on these, of
which TLC evaluates each for the instance it checks:

| Assumption | What it says |
|---|---|
| `RangeAssumption` | the one bound of `RANGE` that is a constant lies above its lower end, and an i64 holds it |
| `OptionAssumption`, `NoneAssumption` | `None` is no value, no name and no configuration |
| `IniAssumption` | PHP's ini store has a value for every registered directive |
| `CuratedAssumption` | the curated skip list is written in lower case |
| `LowerAssumption` | `to_lowercase` of a byte-wise name changes ASCII letters only: it is idempotent, and what it makes equal is UTF-8 or not alike |
| `NameAssumption` | names are made of known words, a listed one of UTF-8 (ext_php_rs hands it over as a `String`) |
| `PageAssumption` | what the page prints for a missing or hidden value ("(unset)", "(redacted)") is none of the values a directive can have |
| `U32Assumption` | `U32` is a positive number |
| `LengthAssumption` | every word takes a number of bytes, and the literals of a made-up name theirs: `(` 1, `)@0x` 4, `closure:` 8, `:` 1, `::` 2 |
| `SiteAssumption` | addresses and line numbers are numbers, and the decoded names of a call site are known words |

Of the hash function they assume nothing. `StoreCorrect` assumes nothing of the requests,
and `SequenceFacts` is about sequences, their sums and their concatenation alone.

| Theorem | Statement |
|---|---|
| `RecorderProofs!TypeCorrect` | `Recorder!Spec => []TypeOK` |
| `RecorderProofs!PairingCorrect` | `[](StackConsistent /\ PairingUntilCapDrop)` |
| `RecorderProofs!StackCorrect` | its first half, `[]StackConsistent`: `LifoCount`, `StackChain` and `FrameNotOlderThanCall` |
| `RecorderProofs!BudgetBounded` | `[]BudgetBound` |
| `RecorderProofs!TreeCorrect` | `[]RecordsFormATree` |
| `RecorderProofs!DictionaryCorrect` | `[]DictionaryAnnounced` |
| `LedgerProofs!LedgersCorrect` | `Recorder!Spec => []LedgersBalance`: `BudgetBalanced` and `EveryCallAccountedFor` |
| `LedgerProofs!Refinement` | `Recorder!Spec => ImplementsHandOff`, that is `HandOff`'s specification under the mapping `Ledger` |
| `DumpProofs!DumpCorrect` | `DumpSpec => []DumpFaithful`: `DumpHoldsBatches` and `DumpReconciles` |
| `ShipperProofs!TypeCorrect` | `Shipper!Spec => []TypeOK` |
| `ShipperProofs!BudgetIsExact` | `[]BudgetExact` |
| `ShipperProofs!NoticesAreExact` | `[]NoticesExact` |
| `ShipperProofs!DropsAreReported` | `[]LaterBatchReportsDrop` |
| `ShipperProofs!NothingIsLeftBehind` | `[]NoBatchLeftBehind` |
| `ShipperProofs!OneLatePost` | `[]AtMostOneLatePost` |
| `ShipperProofs!WorkIsBounded` | `ThreadCountsDown`, an action property |
| `ShipperProofs!Refinement` | `Shipper!Spec => ImplementsHandOff` |
| `ShutdownProofs!TypeCorrect` | `Shutdown!Spec => []TypeOK` |
| `ShutdownProofs!ShutdownBounded` | `[]ReturnsWithinOnePost` |
| `ShutdownProofs!NoLatePost` | `NoPostStartsLate`, an action property |
| `ProcessProofs!ConfigCorrect` | `Process!Spec => []ConfigConsistent`, that is `ConfigWellFormed` (`ConfigFit`) and `CpuModeAgrees` (`CpuModeCorrect`) |
| `ProcessProofs!TokenCorrect` | `[]TokenFileDecides` |
| `ProcessProofs!FilterCorrect` | `FilterIsStatic`, an action property |
| `ProcessProofs!ChannelCorrect` | `[]BatchesReachTheShipper` |
| `ProcessProofs!LimitsAreTold` | `[]NoSilentLimit` |
| `ProcessProofs!ReasonCorrect` | `[]OneReasonLogged` |
| `ProcessProofs!PageReadsBack` | `[]InfoReadsBack` |
| `ProcessProofs!ProcessTypeCorrect` | `Process!Spec => []TypeOK` |
| `ProcessProofs!IdentityCorrect` | `[]IdentityExact` |
| `ProcessProofs!ProjectionCorrect` | `[]ProjectionExact` |
| `ProcessProofs!NamedSitesCorrect` | `[]NamedSitesKeepIdentity` |
| `ProcessProofs!SkipListHonoured` | `[]SkippedNeverRecorded` |
| `DeliveryProofs!DeliveredOnceOrMore` | `DeliverySpec => []AtLeastOnce` |
| `DeliveryProofs!StoreInOrder` | `[]StoredInOrder` |
| `DeliveryProofs!GapsAnnounced` | `[]NoSilentGap` |
| `DeliveryProofs!FunctionsResolve` | `[]FnIdsResolve` |
| `DeliveryProofs!ServerAddsUp` | `[]ServerReconciles` |
| `DeliveryProofs!DeliveryStoreCorrect` | `DeliverySpec => []StoreConsistent` |
| `DeliveryProofs!StoreCorrect` | `StubSpec => []StoreConsistent`: `CapturedIsStored` and `DebugViewsAgree` |

*Pairing.* `StackConsistent` stands for three invariants, and none of the four is
inductive. `LifoCount` needs nothing else, but `PairingUntilCapDrop` needs to know that
a begin accepted on a stack of n frames has n open calls under it. As long as only the depth gate has dropped begins that is
the case when `dropped_begins = 0`; a begin accepted with drops outstanding would
break it, and cannot occur because a depth drop means that `max_depth` frames
are already there (`OnlyDeepCallsDropped`). The inductive invariant `StackInv` is
the four, that clause, and the fact that each open call started before
the current time (`CallsStarted`).

*Budget.* `BudgetBound` is stated as inductive: it charges every open frame in
advance. An accepted begin has passed the gate with at most `max_depth - 1` frames
below it; an end turns a charge into a bill; everything else lowers the total. It
needs `TypeOK` and `StackChain`.

*Sums.* What the ledgers add up to is written with `Total` and `TotalIn`, a recursive
function and no RECURSIVE operator. `SequenceFacts` shows what a total does when a sequence
grows at its end, differs in one place, gains or loses one index, or is put together of two; the induction that this
takes is on the length, by the least element of the set of prefixes for which the claim fails
(the library's theorem that every non-empty set of natural numbers has one), since an
induction theorem with an operator parameter cannot be instantiated.

*Tree.* `RecordsFormATree` speaks of what was flushed; `TreeInv` extends it to everything that
is still on its way, the buffer and the shadow stack. The ids a trace has issued are exactly
those of its records and its open frames (`IssuedInv`), each in one place (`OnceInv`); a record
ended before now (`EndedInv`); and the parent of a record either has a record further on, or is
a frame still open (`ParentInv`), which is the case a flush in the middle of nested calls
leaves behind. An end turns the top frame to a record, and all that named it as parent now
find it behind them; it is here that `FrameIdsGrow` and `StackChain` are needed.

*Dictionary.* `DictInv` does the same with the entries that are not yet shipped: the `fn_id`s
given are those of the entries, in order, without gaps (`NumberedInv`, `OrderedInv`), the map
and the entries agree (`InternedInv`), and the function of every record and every open frame
has an entry in no later batch (`NamedInv`). An open frame is what makes the last part
inductive: its function may have been announced batches ago.

*Ledgers.* `HoldersInv` says who holds each batch that was flushed: the channel, the request
thread that is refusing it, the shipper, or nobody, by its `fate`. Given that, the bytes in
memory are the estimate of the buffer and the estimates of the batches that a thread or the
channel still holds, and of those a panic leaked (`BytesExact`, `EstimatesExact`,
`BilledByFate`), and what a request began is what its counter holds, what it has not shipped,
and the calls of the batches nobody has counted. The window in which the shipper has counted a
batch whose bytes it still has to return (`counted`) is in both sums. The same `HoldersInv`
shows the refinement: each step of `Recorder` flushes one entry, resolves one, loses
those of a panicking thread, or leaves `Ledger` alone.

*Dump.* Every step of `DumpSpec` is a step of `Recorder` (`DumpStepsAreSteps`), so what
is proved of `Recorder` holds of it, and the question is what a reader makes of the lines. The
lines of one kind are the `FlattenSeq` of a piece per line, and `SequenceFacts` shows that
`FlattenSeq` of a concatenation is the concatenation (`FlattenJoin`, by induction on the
length). So a reader of a longer file finds what was there and then what is new
(`ReadsJoin`), and of a block its batch (`BlockRead`). `DumpInv` is the invariant: the
entries and calls read are those of the history, in order (`ReadInv`); a line of a batch was
written when a threshold was reached or at the end (`FlushesInv`), which needs that the buffer
is below the threshold between two ends (`BufferInv`); and when a summary is there, the only
request is over, no batch is being refused, and the count lies between the two sums
(`SummaryInv`). At the moment the summary is written both follow from `EveryCallAccountedFor`:
the counter is the calls in no batch and those of the batches dropped so far. From then on only
the shipper acts (`OverStays`), which refuses nothing and may only give up more (`CountsMove`).

*Shipper.* No property of `Shipper` but its types is inductive, and they share one invariant,
`IInv`: who holds which end of the channel in which phase (`LifeInv`); a deadline is seen only
after it was published (`DeadlineInv`); the thread's registers (`ThreadInv`); the channel holds
the queued batches in the order they were flushed, and `Drain` only after the deadline
(`QueueInv`); the fate of a batch says who has it (`FateInv`); batches are consumed in order
(`OrderInv`), from which it follows that the stamp of an encoded batch counts every drop before it
(`CountInv`); and the POST the deadline caught is followed by a look at the deadline
(`LateInv`). `NoBatchLeftBehind` comes from `QueueInv`: when the drain's wait times out the
channel is empty but for `Drain`, since a queued message is returned before the clock is looked
at. `BudgetExact` and `NoticesExact` are inductive relative to these. The refinement maps each
step to at most one entry resolved, and a panic to the loss of all that is queued or in flight.

*Work.* `StepsLeft` counts the steps the thread can still take before it waits or ends:
`StepsPerBatch`, which is `4 * RetryCount + 9`, for each message of the channel, and what is
left of the batch in hand, where each attempt used up takes its four steps away.
`ThreadWorksOff` goes through the
thread's steps: each leaves fewer, whatever the POST or the encoder answered, since the one step
that goes back (`Wake`) does so with one attempt more used up. `NoMoreToDo` is about the other
side: while MSHUTDOWN joins nobody sends, so what happens beside the thread leaves its work
alone. It needs `TypeOK`, and that `RetryCount` is a number. This is the safety
half of `ShutdownCompletes`: what remains for TLC is that a thread that can step does.

*Shutdown.* `ReturnsWithinOnePost` needs to know how long the thread may still be
busy, which depends on whether the attempt under way saw the deadline. `WaitInv`
says so: if it did, POST or backoff end within one HTTP timeout of the deadline; if it
did not, it was under way when the deadline was published. A tick takes from the
wait what it adds to the clock.

*Configuration.* `LimitsInRange` shows of the nine limits together, for every ini
file, that they land in their ranges and that the cap is not below the flush
threshold; it rests on `RangeOfDirective`, that the range the code clamps the cap to is
never empty although its lower end comes from another directive. `UrlOutcome` and
`TokenOutcome` go through the arms of the two resolvers. The inductive invariant `IInv`
says which files `CONFIG` was resolved from (`source`), and that the cache and the
observer agree with it; the properties follow, since nothing changes `CONFIG` once it
is set. So the ranges in `ConfigAssumption` of the other modules are what MINIT
guarantees, and no longer only assumed. `ChannelInv`, for the slots, says that the
`Sender`, the waiting receiver and the running thread are of one channel, unless the
thread could not be spawned or MINIT panicked before it made one; that is what a
second MINIT may not break.

*Log.* `LogInv` says that the log of the MINIT that set the configuration is the vector of
warnings that resolving `source` gave, followed by the notice. The warnings of the nine clamps,
of the endpoint and of the CPU mode are concatenated, and `Concatenated` and
`ReasonsConcatenated` follow each kind of line through: `RangeWarningsAre` shows that there is a
line about a directive exactly if its clamp changed it, `ReasonsOfEndpoint` that the endpoint
gives one reason and its one line, or none.

*Page.* `RowsReadBack` goes through the rows and what reading them gives, directive by
directive; `ClampedStays` and `LowerTwice` show that clamping and lowering what was clamped and
lowered changes nothing, `flush_bytes` included, on which another range depends; and
`EndpointReadsBack` that an enabled extension's endpoint resolves alike.

*Filter.* `FilterInv` says that a recorded call had passed `should_observe_filter`, under the
configuration that is still in force. The property speaks of the operator's list and of every
spelling of a name, the filter of lower-case texts: `LowerTextsAgree` and `ListedIsFound` are
about the difference.

*Identity.* The property compares `fn_id`s with the identity of `SPECIFICATION.md`
(`DocumentedKey`), the code makes keys of another form. `KeysExact` shows of any two call
sites when `categorise_lazy` gives them one key (`SameFunction`, shape by shape of the call,
including those the specification leaves open), and `DocumentedIsSame` that this is so exactly
if their documented keys are equal, for sites that have one. `ProbeIsLookup` shows that the
probe by hash finds a borrowed key exactly if its owning twin is in the map: equal keys write
the same to the hasher, so that whatever the hash is, nothing equal is missed, and
`matches_ref` sorts out what only collides. `TraceInv` carries both through a request: the map
and the entries number the functions alike, and each call of the history has the `fn_id` its
key has in the map. An entry never changes once made, which `NamedSitesCorrect` adds to what
`categorise` says of the same site.

*Projection.* The cap gate of `begin_handler` charges a call for a name it has not made
yet, from logarithms of its numbers; the name made later is billed by its length. Both
are about the digits of a number, which nobody can count without knowing that the divisions
end. `QuotientsDefined` shows that the recursive function `Quotients` satisfies its
equations, and `NothingLeft` that after `n` divisions of n nothing is left; so there is a least
number of divisions after which that is so, which is what `ilog` speaks of (`IlogIs`). `BitsOfDigit`
is the code's shortcut, that a hexadecimal digit is four bits, rounded up: a quotient by 16 is
every fourth quotient by 2. `TextLenOfNumeral` and `TextLenJoin` then measure a text as the
sum of its parts, and `RenderedLength` goes through the shapes of a call: an internal function
with a name or, without one, with its address, a method, a closure, a plain function. A call whose
function is known is charged for the record alone, and billed no more (`BilledAsProjected`).

*Delivery.* Each step of `Delivery` is a step of `Recorder` or leaves it alone
(`DeliveryIsRecorder`), so everything proved in `RecorderProofs` and `LedgerProofs` holds
here. Three invariants are added about `Recorder`: `OrderInv`, that the channel is first in,
first out, so that a batch gets through only after all earlier ones have ended; `FilledInv`,
that no batch is empty, so that one that is missing shows in a count; and `CountedInv`, that
the drop counter covers the calls of the batches that were refused or given up. For the
server, the state does not say where a stored body came from, nor which drop count a batch
was encoded with: the counter goes on while the body is retried and waits in the network.
The invariant `DeliveryInv` says that there are two sequences which do: `origin[k]`, the
batch and the attempt that brought `accepted[k]`, and `stamp[i]`, the count batch i was
encoded with. Every stored body and every request on its way is the encoding of its batch
with that stamp (`ServerInv`, `MailInv`), no two have the same origin, a stamp counts what
was missing before its batch and stamps do not go down (`StampInv`), and what the thread
took for sent has arrived, and before any later batch (`ArrivedInv`). The last holds
although requests overtake each other: the next batch is posted only when the previous one
has been answered. A step that stores a body extends `origin`, one that encodes extends
`stamp`, and all others keep both. The five properties are then about sequences: copies
differ in their attempts, of which there are `retry_count + 1`; a gap is `Missing`, and its
sum is below the stamp by the lemmas on totals.

*Server.* `StubInv` is `StoreConsistent` with the types. Each step does one of four
things to the store and its copies: nothing, use up a number, store a batch, empty the store.
The same four are what `Delivery`'s steps do, so `StoreConsistent` is proved of both
specifications.

Only model-checked: liveness (`ShutdownCompletes`, `EveryBatchResolved`, `Returns`), which is
out of the provers' reach. Every safety invariant and every action property of a passing
run is a theorem.

## Not modelled

* The parsing of a number, a URL or a list from its characters, and the reading of the
  token file: conversions with no state, abstracted to their outcomes.
* A panic inside RINIT or RSHUTDOWN, and a poisoned mutex: nothing that runs under one
  of the locks can panic.
* The bytes of MessagePack, HTTP headers beyond the two the server looks at, TLS and the
  naming of HTTP errors in a notice: data without control that the properties could see.
* The clocks: any monotonic clock satisfies the tick. CPU and memory figures are
  copied from it into a record.
* Of the dump, a line that cannot be written (the code goes on); of the server, the parser
  of its command line, the JSON of its debug pages and the text of its log.
* The overflow of `fn_id`, `call_id` and the drop counter: 2^32 functions or 2^64 calls.
* The integration tests and benches: harness code, read for the promises it states.
* Memory orderings: the atomics are taken as sequentially consistent. Each is
  accessed by single read-modify-write operations, and no invariant relates two of
  them except through the channel, which synchronises.

## Plan

In order of importance; the first two groups are done.

1. `Recorder`, `HandOff`, `Shipper`, `Shutdown` with their runs; proofs of the
   recorder's types, pairing and budget and of the shutdown's bound. `Config`,
   `CallSite`, `Process`, and the proofs of what MINIT stores.
2. `Wire`, `StubIngest` and `Delivery`, the server's view of a trace when batches are
   dropped, repeated and overtaken; `TraceDump`; `Dictionary` and `PhpInfo`; the channel's
   life over two MINITs; the proofs about identities, the channel and the server.
3. What is left of the system: panics contained in RINIT and RSHUTDOWN, with the stale
   trace the next RINIT finds; the panic in MINIT carried into `Shipper` (an enabled
   extension with no channel); the drain of MSHUTDOWN in `Delivery`.
4. More proofs: those of what the third group adds. Of what is modelled, liveness is left,
   which needs another prover.
