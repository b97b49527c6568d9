--------------------------- MODULE RecorderProofs ---------------------------
(***************************************************************************)
(* Theorems about Recorder, for every configuration, number of requests    *)
(* and length of script.                                                   *)
(***************************************************************************)
EXTENDS Recorder, SequenceFacts

-----------------------------------------------------------------------------
(* Type correctness, one lemma per handler.                                *)

USE DEF Requests

\* The parts of ConfigAssumption, one by one.
LEMMA ConfigFacts ==
    /\ \A fn \in Functions : NameBytes[fn] \in Nat
    /\ MaxDepth \in Nat /\ MaxDepth >= 1 /\ MaxDepth <= U16Max
    /\ BufferCap \in Nat
    /\ QueueDepth \in Nat /\ QueueDepth >= 1
    /\ MaxRequests \in Nat
    /\ SpawnOutcomes \subseteq Channels
    /\ \A t \in Throws : t \in BOOLEAN
  BY ConfigAssumption DEF Channels

\* The cast to u16 yields a natural, and leaves a value in range alone.
LEMMA U16Cast ==
    ASSUME NEW n \in Nat
    PROVE  /\ n % (U16Max + 1) \in Nat
           /\ n <= U16Max => n % (U16Max + 1) = n
  <1>1. U16Max \in Nat
    BY SMT DEF U16Max
  <1>. QED  BY <1>1

LEMMA TypeInit ==
    ASSUME Init
    PROVE  TypeOK
  <1>1. FlagsTypeOK
    BY Zenon DEF Init, FlagsTypeOK
  <1>2. TraceTypeOK
    <2>1. stack \in Seq(Frames) /\ buffer \in Seq(Records) /\ new_entries \in Seq(DictEntries)
      BY EmptySeq DEF Init, EmptyTrace
    <2>2. intern \in [Functions -> Nat] /\ next_fn_id \in Nat \ {0}
      BY DEF Init, EmptyTrace
    <2>3. /\ virtual_depth \in Nat /\ dropped_begins \in Nat /\ call_id_seq \in Nat
          /\ buffer_estimated_bytes \in Nat
      BY DEF Init, EmptyTrace
    <2>. QED  BY <2>1, <2>2, <2>3 DEF TraceTypeOK
  <1>3. SharedTypeOK
    <2>1. /\ queue \in Seq(Batches) /\ refused \in Seq(Batches) /\ in_flight \in Seq(Batches)
          /\ flushed \in Seq(Batches) /\ fate \in Seq(Fates)
      BY EmptySeq DEF Init
    <2>2. Len(queue) <= QueueDepth /\ Len(refused) <= 1 /\ Len(in_flight) <= 1
          /\ Len(fate) = Len(flushed)
      BY ConfigFacts DEF Init
    <2>3. channel \in Channels
      BY ConfigFacts, SMT DEF Init
    <2>4. drop_counter \in [Requests -> Nat] /\ bytes_in_memory \in Int
      BY DEF Init
    <2>. QED  BY <2>1, <2>2, <2>3, <2>4 DEF SharedTypeOK
  <1>4. EnvTypeOK
    <2>1. php_stack \in Seq([fn : Functions, t_in : Nat])
      BY EmptySeq DEF Init
    <2>2. now \in Nat /\ request \in 0..MaxRequests /\ begun \in [Requests -> Nat]
      BY ConfigFacts DEF Init
    <2>3. trace_live => request \in Requests
      BY Zenon DEF Init
    <2>. QED  BY <2>1, <2>2, <2>3, Zenon DEF EnvTypeOK
  <1>. QED  BY <1>1, <1>2, <1>3, <1>4 DEF TypeOK

LEMMA TypeRInit ==
    ASSUME TypeOK, RInit
    PROVE  TypeOK'
  <1>1. FlagsTypeOK'
    BY Zenon DEF RInit, shared_vars, TypeOK, FlagsTypeOK
  <1>2. TraceTypeOK'
    <2>1. stack' \in Seq(Frames) /\ buffer' \in Seq(Records) /\ new_entries' \in Seq(DictEntries)
      BY EmptySeq DEF RInit, ResetTrace
    <2>2. intern' \in [Functions -> Nat] /\ next_fn_id' \in Nat \ {0}
      BY DEF RInit, ResetTrace
    <2>3. /\ virtual_depth' \in Nat /\ dropped_begins' \in Nat /\ call_id_seq' \in Nat
          /\ buffer_estimated_bytes' \in Nat
      BY DEF RInit, ResetTrace
    <2>. QED  BY <2>1, <2>2, <2>3 DEF TraceTypeOK
  <1>3. SharedTypeOK'
    BY DEF RInit, shared_vars, TypeOK, SharedTypeOK
  <1>4. EnvTypeOK'
    <2>1. php_stack' \in Seq([fn : Functions, t_in : Nat])
      BY EmptySeq DEF RInit
    <2>2. now' \in Nat /\ request' \in Requests /\ begun' \in [Requests -> Nat]
      BY ConfigFacts DEF RInit, TypeOK, EnvTypeOK
    <2>3. request' \in 0..MaxRequests
      BY <2>2, ConfigFacts
    <2>. QED  BY <2>1, <2>2, <2>3, Zenon DEF EnvTypeOK
  <1>. QED  BY <1>1, <1>2, <1>3, <1>4 DEF TypeOK

LEMMA MissCostIsNat ==
    ASSUME TypeOK, NEW fn \in Functions
    PROVE  DictMissCost(fn) \in Nat
  BY ConfigFacts DEF DictMissCost, DICT_ENTRY_FIXED_BYTES

\* The engine's half of a begin.
LEMMA TypeEngineBegins ==
    ASSUME TypeOK, NEW fn \in Functions, EngineBegins(fn)
    PROVE  EnvTypeOK' /\ request \in Requests
  <1>1. request \in Requests
    BY Zenon DEF EngineBegins, OnRequestThread, TypeOK, EnvTypeOK
  <1>2. [fn |-> fn, t_in |-> now] \in [fn : Functions, t_in : Nat]
    BY DEF TypeOK, EnvTypeOK
  <1>3. php_stack' \in Seq([fn : Functions, t_in : Nat])
    BY <1>2, AppendProperties DEF EngineBegins, TypeOK, EnvTypeOK
  <1>4. now' \in Nat /\ request' \in 0..MaxRequests /\ begun' \in [Requests -> Nat]
    BY <1>1, SMTT(30) DEF EngineBegins, TypeOK, EnvTypeOK
  <1>5. request' \in Requests
    BY <1>1 DEF EngineBegins
  <1>. QED  BY <1>1, <1>3, <1>4, <1>5, Zenon DEF EnvTypeOK

LEMMA TypeBeginDropped ==
    ASSUME TypeOK, NEW fn \in Functions, EngineBegins(fn), RecordDrop,
           cap_dropped' \in BOOLEAN
    PROVE  TypeOK'
  <1>1. EnvTypeOK' /\ request \in Requests
    BY TypeEngineBegins
  <1>2. FlagsTypeOK'
    BY Zenon DEF EngineBegins, TypeOK, FlagsTypeOK
  <1>3. TraceTypeOK'
    BY DEF EngineBegins, RecordDrop, TypeOK, TraceTypeOK
  <1>4. SharedTypeOK'
    <2>1. drop_counter' \in [Requests -> Nat]
      BY <1>1, SMTT(30) DEF RecordDrop, TypeOK, SharedTypeOK
    <2>. QED
      BY <2>1 DEF EngineBegins, RecordDrop, TypeOK, SharedTypeOK
  <1>. QED  BY <1>1, <1>2, <1>3, <1>4 DEF TypeOK

\* The frame a begin pushes and the entry it may stage are well formed.
LEMMA TypeBeginAccepted ==
    ASSUME TypeOK, NEW fn \in Functions, BeginAccepted(fn)
    PROVE  TypeOK'
  <1>1. EngineBegins(fn)
    BY DEF BeginAccepted
  <1>2. EnvTypeOK'
    BY <1>1, TypeEngineBegins
  <1>3. FlagsTypeOK'
    BY <1>1, Zenon DEF BeginAccepted, EngineBegins, TypeOK, FlagsTypeOK
  <1>4. SharedTypeOK'
    <2>1. bytes_in_memory' \in Int
      BY MissCostIsNat DEF BeginAccepted, TypeOK, SharedTypeOK
    <2>. QED
      BY <1>1, <2>1 DEF BeginAccepted, EngineBegins, TypeOK, SharedTypeOK
  <1>5. /\ intern' \in [Functions -> Nat] /\ intern'[fn] \in Nat \ {0}
        /\ next_fn_id' \in Nat \ {0}
        /\ new_entries' \in Seq(DictEntries)
    <2>0. InternRef(fn)
      BY DEF BeginAccepted
    <2>1. CASE Interned(fn)
      BY <2>0, <2>1 DEF InternRef, Interned, TypeOK, TraceTypeOK
    <2>2. CASE ~Interned(fn)
      <3>1. [fn_id |-> next_fn_id, fn |-> fn] \in DictEntries
        BY DEF TypeOK, TraceTypeOK, DictEntries
      <3>2. new_entries' \in Seq(DictEntries)
        <4>1. new_entries \in Seq(DictEntries)
          BY DEF TypeOK, TraceTypeOK
        <4>2. new_entries' = Append(new_entries, [fn_id |-> next_fn_id, fn |-> fn])
          BY <2>0, <2>2 DEF InternRef
        <4>. QED  BY <3>1, <4>1, <4>2, AppendProperties
      <3>3. intern' = [intern EXCEPT ![fn] = next_fn_id] /\ next_fn_id' = next_fn_id + 1
        BY <2>0, <2>2 DEF InternRef
      <3>. QED  BY <3>2, <3>3 DEF TypeOK, TraceTypeOK
    <2>. QED  BY <2>1, <2>2
  <1>6. stack' \in Seq(Frames)
    <2>1. Parent \in Nat
      <3>1. CASE stack = <<>>
        BY <3>1 DEF Parent
      <3>2. CASE stack # <<>>
        <4>1. Last(stack) \in Frames
          BY <3>2, FrontProperties DEF TypeOK, TraceTypeOK
        <4>. QED  BY <3>2, <4>1 DEF Parent, Frames
      <3>. QED  BY <3>1, <3>2
    <2>2. virtual_depth % (U16Max + 1) \in Nat
      BY U16Cast DEF TypeOK, TraceTypeOK
    <2>3. [call_id |-> call_id_seq + 1, parent |-> Parent, fn_id |-> intern'[fn],
           depth |-> virtual_depth % (U16Max + 1), t_in |-> now] \in Frames
      BY <1>5, <2>1, <2>2 DEF TypeOK, TraceTypeOK, EnvTypeOK, Frames
    <2>. QED
      BY <2>3, AppendProperties DEF BeginAccepted, TypeOK, TraceTypeOK
  <1>7. /\ virtual_depth' \in Nat /\ dropped_begins' \in Nat /\ call_id_seq' \in Nat
        /\ buffer' \in Seq(Records) /\ buffer_estimated_bytes' \in Nat
    BY <1>1, MissCostIsNat, SMTT(30) DEF BeginAccepted, EngineBegins, TypeOK, TraceTypeOK
  <1>. QED  BY <1>2, <1>3, <1>4, <1>5, <1>6, <1>7 DEF TypeOK, TraceTypeOK

\* A completed frame makes a well-formed record.
LEMMA TypeRecordOf ==
    ASSUME NEW frame \in Frames, NEW t \in Nat, NEW abnormal \in BOOLEAN
    PROVE  RecordOf(frame, t, abnormal) \in Records
  BY DEF RecordOf, Frames, Records

LEMMA TypePendingBatch ==
    ASSUME TypeOK, trace_live, NEW calls \in Seq(Records), NEW size \in Nat
    PROVE  PendingBatch(calls, size) \in Batches
  <1>1. request \in Requests
    BY Zenon DEF TypeOK, EnvTypeOK
  <1>2. Len(flushed) + 1 \in Nat \ {0}
    BY LenProperties DEF TypeOK, SharedTypeOK
  <1>3. new_entries \in Seq(DictEntries)
    BY DEF TypeOK, TraceTypeOK
  <1>. QED  BY <1>1, <1>2, <1>3 DEF PendingBatch, Batches

\* Whatever try_send answers, the shared state stays well formed.
LEMMA TypeTrySendBatch ==
    ASSUME TypeOK, NEW batch \in Batches, NEW bytes \in Int,
           refused = <<>>, TrySendBatch(batch, bytes)
    PROVE  /\ bytes_in_memory' \in Int
           /\ queue' \in Seq(Batches) /\ Len(queue') <= QueueDepth
           /\ refused' \in Seq(Batches) /\ Len(refused') <= 1
           /\ flushed' \in Seq(Batches)
           /\ fate' \in Seq(Fates) /\ Len(fate') = Len(flushed')
  <1>0. /\ queue \in Seq(Batches) /\ Len(queue) <= QueueDepth
        /\ refused \in Seq(Batches) /\ Len(refused) <= 1
        /\ flushed \in Seq(Batches)
        /\ fate \in Seq(Fates) /\ Len(fate) = Len(flushed)
    BY DEF TypeOK, SharedTypeOK
  <1>1. ASSUME NEW what \in Fates, Flushed(batch, what)
        PROVE  /\ flushed' \in Seq(Batches)
               /\ fate' \in Seq(Fates) /\ Len(fate') = Len(flushed')
    <2>1. flushed' \in Seq(Batches) /\ Len(flushed') = Len(flushed) + 1
      BY <1>0, <1>1, AppendProperties DEF Flushed
    <2>2. fate' \in Seq(Fates) /\ Len(fate') = Len(fate) + 1
      BY <1>0, <1>1, AppendProperties DEF Flushed
    <2>. QED  BY <1>0, <2>1, <2>2
  <1>2. {"queued", "refusing", "unsent"} \subseteq Fates
    BY DEF Fates
  <1>3. CASE /\ channel = "open" /\ Len(queue) < QueueDepth
             /\ queue' = Append(queue, batch)
             /\ bytes_in_memory' = bytes
             /\ Flushed(batch, "queued")
             /\ UNCHANGED refused
    <2>1. queue' \in Seq(Batches) /\ Len(queue') = Len(queue) + 1
      BY <1>0, <1>3, AppendProperties
    <2>2. Len(queue') <= QueueDepth
      BY <1>0, <1>3, <2>1, ConfigFacts, LenProperties
    <2>. QED  BY <1>0, <1>1, <1>2, <1>3, <2>1, <2>2
  <1>4. CASE /\ channel = "open" /\ Len(queue) >= QueueDepth
             /\ refused' = <<batch>>
             /\ bytes_in_memory' = bytes
             /\ Flushed(batch, "refusing")
             /\ UNCHANGED queue
    <2>1. refused' \in Seq(Batches) /\ Len(refused') = 1
      BY <1>4
    <2>. QED  BY <1>0, <1>1, <1>2, <1>4, <2>1
  <1>5. CASE /\ channel \in {"no_sender", "disconnected"}
             /\ bytes_in_memory' = bytes - batch.size_estimate
             /\ Flushed(batch, "unsent")
             /\ UNCHANGED <<queue, refused>>
    <2>1. bytes_in_memory' \in Int
      BY <1>5 DEF Batches
    <2>. QED  BY <1>0, <1>1, <1>2, <1>5, <2>1
  <1>. QED  BY <1>3, <1>4, <1>5 DEF TrySendBatch

\* The engine's half of an end.
LEMMA TypeEngineEnds ==
    ASSUME TypeOK, EngineEnds
    PROVE  /\ EnvTypeOK' /\ FlagsTypeOK'
           /\ trace_live /\ refused = <<>>
           /\ virtual_depth' \in Nat /\ call_id_seq' \in Nat
           /\ intern' \in [Functions -> Nat] /\ next_fn_id' \in Nat \ {0}
           /\ drop_counter' \in [Requests -> Nat] /\ channel' \in Channels
           /\ in_flight' \in Seq(Batches) /\ Len(in_flight') <= 1
  <1>1. EnvTypeOK'
    <2>1. php_stack' \in Seq([fn : Functions, t_in : Nat])
      BY FrontProperties DEF EngineEnds, TypeOK, EnvTypeOK
    <2>2. now' \in Nat /\ request' \in 0..MaxRequests /\ begun' \in [Requests -> Nat]
      BY DEF EngineEnds, TypeOK, EnvTypeOK
    <2>3. trace_live' => request' \in Requests
      BY Zenon DEF EngineEnds, TypeOK, EnvTypeOK
    <2>. QED  BY <2>1, <2>2, <2>3, Zenon DEF EnvTypeOK
  <1>2. FlagsTypeOK' /\ trace_live
    BY Zenon DEF EngineEnds, OnRequestThread, TypeOK, FlagsTypeOK
  <1>3. virtual_depth' \in Nat
    BY DEF EngineEnds, SaturatingDec, TypeOK, TraceTypeOK
  <1>4. refused = <<>>
    BY DEF EngineEnds, OnRequestThread
  <1>. QED  BY <1>1, <1>2, <1>3, <1>4 DEF EngineEnds, TypeOK, TraceTypeOK, SharedTypeOK

LEMMA TypeEndOfDroppedBegin ==
    ASSUME TypeOK, EndOfDroppedBegin
    PROVE  TypeOK'
  <1>1. EngineEnds
    BY DEF EndOfDroppedBegin
  <1>2. dropped_begins' \in Nat
    BY DEF EndOfDroppedBegin, TypeOK, TraceTypeOK
  <1>3. TraceTypeOK'
    BY <1>1, <1>2, TypeEngineEnds DEF EndOfDroppedBegin, TypeOK, TraceTypeOK
  <1>4. SharedTypeOK'
    BY <1>1, TypeEngineEnds DEF EndOfDroppedBegin, TypeOK, SharedTypeOK
  <1>. QED  BY <1>1, <1>3, <1>4, TypeEngineEnds DEF TypeOK

\* A flush leaves a well-formed trace and a well-formed batch in the channel.
LEMMA TypeEndAccepted ==
    ASSUME TypeOK, NEW threw \in Throws, EndAccepted(threw)
    PROVE  TypeOK'
  <1>. DEFINE calls == Append(buffer, RecordOf(Last(stack), now, threw))
              size  == buffer_estimated_bytes + CALL_RECORD_FIXED_BYTES
              bytes == bytes_in_memory + CALL_RECORD_FIXED_BYTES
  <1>1. EngineEnds
    BY DEF EndAccepted
  <1>2. /\ stack \in Seq(Frames) /\ buffer \in Seq(Records) /\ now \in Nat
        /\ new_entries \in Seq(DictEntries) /\ buffer_estimated_bytes \in Nat
    BY DEF TypeOK, TraceTypeOK, EnvTypeOK
  <1>3. size \in Nat /\ bytes \in Int
    BY <1>2 DEF TypeOK, SharedTypeOK, CALL_RECORD_FIXED_BYTES
  <1>4. dropped_begins' \in Nat
    BY DEF EndAccepted, TypeOK, TraceTypeOK
  <1>5. stack' \in Seq(Frames)
    BY <1>2, FrontProperties DEF EndAccepted
  <1>6. ASSUME stack # <<>>
        PROVE  calls \in Seq(Records)
    <2>1. Last(stack) \in Frames
      BY <1>2, <1>6, FrontProperties
    <2>2. threw \in BOOLEAN
      BY ConfigFacts
    <2>3. RecordOf(Last(stack), now, threw) \in Records
      BY <1>2, <2>1, <2>2, TypeRecordOf
    <2>. QED  BY <1>2, <2>3, AppendProperties
  <1>7. CASE stack # <<>> /\ FlushDue(calls, size)
    <2>1. /\ buffer' = <<>> /\ new_entries' = <<>> /\ buffer_estimated_bytes' = 0
          /\ TrySendBatch(PendingBatch(calls, size), bytes)
      BY <1>7 DEF EndAccepted
    <2>2. PendingBatch(calls, size) \in Batches
      BY <1>1, <1>3, <1>6, <1>7, TypeEngineEnds, TypePendingBatch
    <2>3. TraceTypeOK'
      <3>1. buffer' \in Seq(Records) /\ new_entries' \in Seq(DictEntries)
        BY <2>1, EmptySeq
      <3>. QED  BY <1>1, <1>4, <1>5, <2>1, <3>1, TypeEngineEnds DEF TraceTypeOK
    <2>4. SharedTypeOK'
      BY <1>1, <1>3, <2>1, <2>2, TypeEngineEnds, TypeTrySendBatch DEF SharedTypeOK
    <2>. QED  BY <1>1, <2>3, <2>4, TypeEngineEnds DEF TypeOK
  <1>8. CASE ~(stack # <<>> /\ FlushDue(calls, size))
    <2>1. UNCHANGED <<new_entries, queue, refused, flushed, fate>>
      BY <1>8 DEF EndAccepted
    <2>2. /\ buffer' \in Seq(Records) /\ buffer_estimated_bytes' \in Nat
          /\ bytes_in_memory' \in Int
      <3>1. CASE stack = <<>>
        BY <1>2, <3>1 DEF EndAccepted, TypeOK, SharedTypeOK
      <3>2. CASE stack # <<>>
        <4>1. buffer' = calls /\ buffer_estimated_bytes' = size /\ bytes_in_memory' = bytes
          BY <1>8, <3>2 DEF EndAccepted
        <4>. QED  BY <1>3, <1>6, <3>2, <4>1
      <3>. QED  BY <3>1, <3>2
    <2>3. TraceTypeOK'
      BY <1>1, <1>2, <1>4, <1>5, <2>1, <2>2, TypeEngineEnds DEF TraceTypeOK
    <2>4. SharedTypeOK'
      BY <1>1, <2>1, <2>2, TypeEngineEnds DEF TypeOK, SharedTypeOK
    <2>. QED  BY <1>1, <2>3, <2>4, TypeEngineEnds DEF TypeOK
  <1>. QED  BY <1>7, <1>8

\* The frames drained at RSHUTDOWN become well-formed records.
LEMMA TypeDrainedRecords ==
    ASSUME TypeOK
    PROVE  DrainedRecords \in Seq(Records)
  <1>0. stack \in Seq(Frames) /\ now \in Nat
    BY DEF TypeOK, TraceTypeOK, EnvTypeOK
  <1>1. \A i \in 1..Len(stack) : stack[Len(stack) + 1 - i] \in Frames
    BY <1>0, ElementOfSeq, LenProperties
  <1>2. \A i \in 1..Len(stack) :
          RecordOf(stack[Len(stack) + 1 - i], now, TRUE) \in Records
    BY <1>0, <1>1, TypeRecordOf
  <1>3. Len(stack) \in Nat
    BY <1>0, LenProperties
  <1>4. DrainedRecords \in [1..Len(stack) -> Records]
    BY <1>2 DEF DrainedRecords
  <1>. QED  BY <1>3, <1>4, FunctionIsSeq

LEMMA TypeRShutdown ==
    ASSUME TypeOK, RShutdown
    PROVE  TypeOK'
  <1>. DEFINE calls == buffer \o DrainedRecords
              added == CALL_RECORD_FIXED_BYTES * Len(stack)
              size  == buffer_estimated_bytes + added
              bytes == bytes_in_memory + added
  <1>1. trace_live /\ refused = <<>>
    BY Zenon DEF RShutdown, OnRequestThread
  <1>2. /\ stack \in Seq(Frames) /\ buffer \in Seq(Records) /\ now \in Nat
        /\ buffer_estimated_bytes \in Nat /\ bytes_in_memory \in Int
    BY DEF TypeOK, TraceTypeOK, EnvTypeOK, SharedTypeOK
  <1>3. size \in Nat /\ bytes \in Int
    <2>1. Len(stack) \in Nat
      BY <1>2, LenProperties
    <2>2. added \in Nat
      BY <2>1 DEF CALL_RECORD_FIXED_BYTES
    <2>. HIDE DEF added
    <2>. QED  BY <1>2, <2>2
  <1>4. calls \in Seq(Records)
    <2>3. DrainedRecords \in Seq(Records)
      BY TypeDrainedRecords
    <2>. HIDE DEF calls
    <2>4. calls = buffer \o DrainedRecords
      BY DEF calls
    <2>. QED  BY <1>2, <2>3, <2>4, ConcatProperties
  <1>5. FlagsTypeOK'
    BY Zenon DEF RShutdown, TypeOK, FlagsTypeOK
  <1>6. TraceTypeOK'
    <2>1. stack' \in Seq(Frames) /\ buffer' \in Seq(Records) /\ new_entries' \in Seq(DictEntries)
      BY EmptySeq DEF RShutdown, ResetTrace
    <2>2. intern' \in [Functions -> Nat] /\ next_fn_id' \in Nat \ {0}
      BY DEF RShutdown, ResetTrace
    <2>3. /\ virtual_depth' \in Nat /\ dropped_begins' \in Nat /\ call_id_seq' \in Nat
          /\ buffer_estimated_bytes' \in Nat
      BY DEF RShutdown, ResetTrace
    <2>. QED  BY <2>1, <2>2, <2>3 DEF TraceTypeOK
  <1>7. EnvTypeOK'
    <2>1. php_stack' \in Seq([fn : Functions, t_in : Nat])
      BY EmptySeq DEF RShutdown
    <2>2. now' \in Nat /\ request' \in 0..MaxRequests /\ begun' \in [Requests -> Nat]
      BY DEF RShutdown, TypeOK, EnvTypeOK
    <2>3. trace_live' => request' \in Requests
      BY Zenon DEF RShutdown
    <2>. QED  BY <2>1, <2>2, <2>3, Zenon DEF EnvTypeOK
  <1>8. SharedTypeOK'
    <2>1. UNCHANGED <<drop_counter, channel, in_flight>>
      BY DEF RShutdown
    <2>2. CASE calls # <<>>
      <3>1. TrySendBatch(PendingBatch(calls, size), bytes)
        BY <2>2 DEF RShutdown
      <3>2. PendingBatch(calls, size) \in Batches
        BY <1>1, <1>3, <1>4, TypePendingBatch
      <3>. QED  BY <1>1, <1>3, <2>1, <3>1, <3>2, TypeTrySendBatch DEF TypeOK, SharedTypeOK
    <2>3. CASE calls = <<>>
      <3>1. bytes_in_memory' = bytes - size /\ UNCHANGED <<queue, refused, flushed, fate>>
        BY <2>3 DEF RShutdown
      <3>. HIDE DEF bytes, size
      <3>. QED  BY <1>3, <2>1, <3>1 DEF TypeOK, SharedTypeOK
    <2>. QED  BY <2>2, <2>3
  <1>. QED  BY <1>5, <1>6, <1>7, <1>8 DEF TypeOK

\* Steps that leave the trace and the request thread alone.
LEMMA TypeUntouched ==
    ASSUME TypeOK, UNCHANGED <<trace_vars, env_vars>>
    PROVE  /\ TraceTypeOK' /\ EnvTypeOK'
           /\ cap_dropped' \in BOOLEAN /\ trace_live' \in BOOLEAN
  <1>1. UNCHANGED <<virtual_depth, dropped_begins, call_id_seq, stack, buffer, intern,
                    next_fn_id, new_entries, buffer_estimated_bytes>>
    BY DEF trace_vars
  <1>2. UNCHANGED <<php_stack, now, request, begun>>
    BY DEF env_vars
  <1>3. UNCHANGED <<trace_live, cap_dropped>>
    BY Zenon DEF trace_vars, env_vars
  <1>4. TraceTypeOK'
    BY <1>1 DEF TypeOK, TraceTypeOK
  <1>5. EnvTypeOK'
    <2>1. trace_live' => request' \in Requests
      BY <1>2, <1>3, Zenon DEF TypeOK, EnvTypeOK
    <2>. QED  BY <1>2, <2>1, Zenon DEF TypeOK, EnvTypeOK
  <1>. QED  BY <1>3, <1>4, <1>5, Zenon DEF TypeOK, FlagsTypeOK

\* What the shipper's steps need of the shared state.
LEMMA SharedFacts ==
    ASSUME TypeOK
    PROVE  /\ queue \in Seq(Batches) /\ Len(queue) <= QueueDepth
           /\ refused \in Seq(Batches) /\ Len(refused) <= 1
           /\ in_flight \in Seq(Batches) /\ Len(in_flight) <= 1
           /\ flushed \in Seq(Batches)
           /\ fate \in Seq(Fates) /\ Len(fate) = Len(flushed)
           /\ drop_counter \in [Requests -> Nat] /\ bytes_in_memory \in Int
           /\ channel \in Channels
  BY DEF TypeOK, SharedTypeOK

\* Counting the calls of a batch as dropped.
LEMMA TypeCount ==
    ASSUME TypeOK, NEW batch \in Batches
    PROVE  [drop_counter EXCEPT ![batch.trace] = @ + Len(batch.calls)] \in [Requests -> Nat]
  <1>1. batch.trace \in Requests /\ batch.calls \in Seq(Records)
    BY DEF Batches
  <1>2. Len(batch.calls) \in Nat
    BY <1>1, LenProperties
  <1>. QED  BY <1>1, <1>2, SharedFacts

\* Recording what became of a batch.
LEMMA TypeFate ==
    ASSUME TypeOK, NEW k, NEW what \in Fates
    PROVE  /\ [fate EXCEPT ![k] = what] \in Seq(Fates)
           /\ Len([fate EXCEPT ![k] = what]) = Len(fate)
  <1>1. fate \in Seq(Fates)
    BY SharedFacts
  <1>. DEFINE S == Fates
  <1>2. fate \in Seq(S) /\ what \in S
    BY <1>1
  <1>. HIDE DEF S
  <1>3. [fate EXCEPT ![k] = what] \in Seq(S) /\ Len([fate EXCEPT ![k] = what]) = Len(fate)
    BY <1>2, ExceptProperties
  <1>. QED  BY <1>3 DEF S

LEMMA FateNames ==
    /\ "refused" \in Fates /\ "in_flight" \in Fates /\ "given_up" \in Fates
    /\ "delivered" \in Fates /\ "lost_in_panic" \in Fates
  BY DEF Fates

LEMMA TypeDiscardRefused ==
    ASSUME TypeOK, DiscardRefused
    PROVE  TypeOK'
  <1>. DEFINE batch == Head(refused)
  <1>1. batch \in Batches /\ batch.size_estimate \in Nat
    <2>1. refused # <<>>
      BY DEF DiscardRefused
    <2>2. batch \in Batches
      BY <2>1, SharedFacts, HeadTailProperties
    <2>. QED  BY <2>2 DEF Batches
  <1>2. /\ bytes_in_memory' = bytes_in_memory - batch.size_estimate
        /\ drop_counter' = [drop_counter EXCEPT ![batch.trace] = @ + Len(batch.calls)]
        /\ fate' = [fate EXCEPT ![batch.no] = "refused"]
        /\ refused' = <<>>
        /\ UNCHANGED <<channel, queue, in_flight, flushed>>
    BY DEF DiscardRefused
  <1>3. UNCHANGED <<trace_vars, env_vars>> /\ UNCHANGED counted
    BY Zenon DEF DiscardRefused
  <1>4. drop_counter' \in [Requests -> Nat] /\ bytes_in_memory' \in Int
    BY <1>1, <1>2, TypeCount, SharedFacts, SMTT(30)
  <1>5. fate' \in Seq(Fates) /\ Len(fate') = Len(fate)
    BY <1>2, FateNames, SharedFacts, TypeFate
  <1>6. refused' \in Seq(Batches) /\ Len(refused') <= 1
    BY <1>2, EmptySeq
  <1>7. SharedTypeOK'
    BY <1>2, <1>4, <1>5, <1>6, SharedFacts DEF SharedTypeOK
  <1>8. counted' \in BOOLEAN
    BY <1>3, Zenon DEF TypeOK, FlagsTypeOK
  <1>. QED  BY <1>3, <1>7, <1>8, TypeUntouched, Zenon DEF TypeOK, FlagsTypeOK

LEMMA TypeShipperReceives ==
    ASSUME TypeOK, ShipperReceives
    PROVE  TypeOK'
  <1>1. /\ queue # <<>>
        /\ in_flight' = <<Head(queue)>> /\ queue' = Tail(queue)
        /\ fate' = [fate EXCEPT ![Head(queue).no] = "in_flight"]
        /\ UNCHANGED <<drop_counter, bytes_in_memory, channel, refused, flushed>>
    BY DEF ShipperReceives
  <1>2. UNCHANGED <<trace_vars, env_vars>> /\ UNCHANGED counted
    BY Zenon DEF ShipperReceives
  <1>3. Head(queue) \in Batches /\ Tail(queue) \in Seq(Batches)
        /\ Len(Tail(queue)) = Len(queue) - 1
    BY <1>1, SharedFacts, HeadTailProperties
  <1>4. in_flight' \in Seq(Batches) /\ Len(in_flight') <= 1
    BY <1>1, <1>3
  <1>5. fate' \in Seq(Fates) /\ Len(fate') = Len(fate)
    BY <1>1, FateNames, SharedFacts, TypeFate
  <1>6. Len(queue') <= QueueDepth
    BY <1>1, <1>3, SharedFacts, ConfigFacts, LenProperties
  <1>7. SharedTypeOK'
    BY <1>1, <1>3, <1>4, <1>5, <1>6, SharedFacts DEF SharedTypeOK
  <1>8. counted' \in BOOLEAN
    BY <1>2, Zenon DEF TypeOK, FlagsTypeOK
  <1>. QED  BY <1>2, <1>7, <1>8, TypeUntouched, Zenon DEF TypeOK, FlagsTypeOK

LEMMA TypeShipperCountsDrop ==
    ASSUME TypeOK, ShipperCountsDrop
    PROVE  TypeOK'
  <1>. DEFINE batch == Head(in_flight)
  <1>1. /\ in_flight # <<>>
        /\ drop_counter' = [drop_counter EXCEPT ![batch.trace] = @ + Len(batch.calls)]
        /\ fate' = [fate EXCEPT ![batch.no] = "given_up"]
        /\ UNCHANGED <<bytes_in_memory, channel, queue, refused, in_flight, flushed>>
    BY DEF ShipperCountsDrop
  <1>2. UNCHANGED <<trace_vars, env_vars>> /\ counted' \in BOOLEAN
    BY Zenon DEF ShipperCountsDrop
  <1>3. batch \in Batches
    BY <1>1, SharedFacts, HeadTailProperties
  <1>4. drop_counter' \in [Requests -> Nat]
    BY <1>1, <1>3, TypeCount
  <1>5. fate' \in Seq(Fates) /\ Len(fate') = Len(fate)
    BY <1>1, FateNames, SharedFacts, TypeFate
  <1>6. SharedTypeOK'
    BY <1>1, <1>4, <1>5, SharedFacts DEF SharedTypeOK
  <1>. QED  BY <1>2, <1>6, TypeUntouched, Zenon DEF TypeOK, FlagsTypeOK

LEMMA TypeShipperReleases ==
    ASSUME TypeOK, ShipperReleases
    PROVE  TypeOK'
  <1>. DEFINE batch == Head(in_flight)
  <1>1. /\ in_flight # <<>>
        /\ bytes_in_memory' = bytes_in_memory - batch.size_estimate
        /\ in_flight' = <<>>
        /\ UNCHANGED <<drop_counter, channel, queue, refused, flushed>>
    BY DEF ShipperReleases
  <1>2. UNCHANGED <<trace_vars, env_vars>> /\ counted' \in BOOLEAN
    BY Zenon DEF ShipperReleases
  <1>3. fate' = fate \/ fate' = [fate EXCEPT ![batch.no] = "delivered"]
    BY Zenon DEF ShipperReleases
  <1>4. bytes_in_memory' \in Int
    BY <1>1, SharedFacts, HeadTailProperties DEF Batches
  <1>5. fate' \in Seq(Fates) /\ Len(fate') = Len(fate)
    <2>1. CASE fate' = fate
      BY <2>1, SharedFacts
    <2>2. CASE fate' = [fate EXCEPT ![batch.no] = "delivered"]
      BY <2>2, FateNames, TypeFate
    <2>. QED  BY <1>3, <2>1, <2>2
  <1>6. in_flight' \in Seq(Batches) /\ Len(in_flight') <= 1
    BY <1>1, EmptySeq
  <1>7. SharedTypeOK'
    BY <1>1, <1>4, <1>5, <1>6, SharedFacts DEF SharedTypeOK
  <1>. QED  BY <1>2, <1>7, TypeUntouched, Zenon DEF TypeOK, FlagsTypeOK

LEMMA TypeShipperPanics ==
    ASSUME TypeOK, ShipperPanics
    PROVE  TypeOK'
  <1>1. /\ channel' = "disconnected" /\ queue' = <<>> /\ in_flight' = <<>>
        /\ fate' = [i \in DOMAIN fate |->
                IF fate[i] \in {"queued", "in_flight"} THEN "lost_in_panic" ELSE fate[i]]
        /\ UNCHANGED <<drop_counter, bytes_in_memory, refused, flushed>>
    BY DEF ShipperPanics
  <1>2. UNCHANGED <<trace_vars, env_vars>> /\ UNCHANGED counted
    BY Zenon DEF ShipperPanics
  <1>3. /\ queue' \in Seq(Batches) /\ Len(queue') <= QueueDepth
        /\ in_flight' \in Seq(Batches) /\ Len(in_flight') <= 1
    BY <1>1, EmptySeq, ConfigFacts
  <1>4. fate' \in Seq(Fates) /\ Len(fate') = Len(fate)
    <2>1. DOMAIN fate = 1..Len(fate) /\ Len(fate) \in Nat
      BY SharedFacts, LenProperties
    <2>2. \A i \in 1..Len(fate) : fate[i] \in Fates
      BY SharedFacts, ElementOfSeq
    <2>3. \A i \in 1..Len(fate) :
            (IF fate[i] \in {"queued", "in_flight"} THEN "lost_in_panic" ELSE fate[i]) \in Fates
      BY <2>2 DEF Fates
    <2>4. fate' = [i \in 1..Len(fate) |->
                IF fate[i] \in {"queued", "in_flight"} THEN "lost_in_panic" ELSE fate[i]]
      BY <1>1, <2>1
    <2>. QED  BY <2>1, <2>3, <2>4, IsASeq, LenProperties
  <1>5. channel' \in Channels
    BY <1>1 DEF Channels
  <1>6. SharedTypeOK'
    BY <1>1, <1>3, <1>4, <1>5, SharedFacts DEF SharedTypeOK
  <1>7. counted' \in BOOLEAN
    BY <1>2, Zenon DEF TypeOK, FlagsTypeOK
  <1>. QED  BY <1>2, <1>6, <1>7, TypeUntouched, Zenon DEF TypeOK, FlagsTypeOK

LEMMA TypeStutter ==
    ASSUME TypeOK, UNCHANGED vars
    PROVE  TypeOK'
  <1>1. UNCHANGED <<trace_vars, env_vars>> /\ UNCHANGED counted
    BY Zenon DEF vars, shared_vars
  <1>2. UNCHANGED <<drop_counter, bytes_in_memory, channel, queue, refused, in_flight,
                    flushed, fate>>
    BY DEF vars, shared_vars
  <1>3. SharedTypeOK'
    BY <1>2, SharedFacts DEF SharedTypeOK
  <1>4. counted' \in BOOLEAN
    BY <1>1, Zenon DEF TypeOK, FlagsTypeOK
  <1>. QED  BY <1>1, <1>3, <1>4, TypeUntouched, Zenon DEF TypeOK, FlagsTypeOK

LEMMA TypeBegin ==
    ASSUME TypeOK, Begin
    PROVE  TypeOK'
  <1>1. PICK fn \in Functions :
            BeginDroppedByDepth(fn) \/ BeginDroppedByCap(fn) \/ BeginAccepted(fn)
    BY DEF Begin
  <1>2. CASE BeginDroppedByDepth(fn)
    <2>1. cap_dropped' \in BOOLEAN
      BY <1>2, Zenon DEF BeginDroppedByDepth, TypeOK, FlagsTypeOK
    <2>. QED  BY <1>2, <2>1, TypeBeginDropped DEF BeginDroppedByDepth
  <1>3. CASE BeginDroppedByCap(fn)
    <2>1. cap_dropped' \in BOOLEAN
      BY <1>3, Zenon DEF BeginDroppedByCap
    <2>. QED  BY <1>3, <2>1, TypeBeginDropped DEF BeginDroppedByCap
  <1>4. CASE BeginAccepted(fn)
    BY <1>4, TypeBeginAccepted
  <1>. QED  BY <1>1, <1>2, <1>3, <1>4

\* Type correctness: no handler, flush, discard or shipper step leaves a
\* counter negative, a channel overfull or a record malformed.
THEOREM TypeCorrect == Spec => []TypeOK
  <1>1. Init => TypeOK
    BY TypeInit
  <1>2. TypeOK /\ [Next]_vars => TypeOK'
    <2>. SUFFICES ASSUME TypeOK, [Next]_vars
                  PROVE  TypeOK'
      OBVIOUS
    <2>1. CASE RInit
      BY <2>1, TypeRInit
    <2>2. CASE Begin
      BY <2>2, TypeBegin
    <2>3. CASE EndOfDroppedBegin
      BY <2>3, TypeEndOfDroppedBegin
    <2>4. CASE \E threw \in Throws : EndAccepted(threw)
      BY <2>4, TypeEndAccepted
    <2>5. CASE RShutdown
      BY <2>5, TypeRShutdown
    <2>6. CASE DiscardRefused
      BY <2>6, TypeDiscardRefused
    <2>7. CASE ShipperReceives
      BY <2>7, TypeShipperReceives
    <2>8. CASE ShipperCountsDrop
      BY <2>8, TypeShipperCountsDrop
    <2>9. CASE ShipperReleases
      BY <2>9, TypeShipperReleases
    <2>10. CASE ShipperPanics
      BY <2>10, TypeShipperPanics
    <2>11. CASE UNCHANGED vars
      BY <2>11, TypeStutter
    <2>. QED  BY <2>1, <2>2, <2>3, <2>4, <2>5, <2>6, <2>7, <2>8, <2>9, <2>10, <2>11
              DEF Next, RequestThread, Shipper, End
  <1>. QED  BY <1>1, <1>2, PTL DEF Spec

-----------------------------------------------------------------------------
(* The pairing of begins and ends.  StackInv is the inductive invariant: to *)
(* the four properties of Recorder it adds that, while only the depth gate  *)
(* has dropped, a begin is dropped only above a full stack, and that every  *)
(* open call started in the past.                                           *)

OnlyDeepCallsDropped ==
    (~cap_dropped /\ dropped_begins > 0) => Len(stack) >= MaxDepth

CallsStarted == \A i \in 1..Len(php_stack) : php_stack[i].t_in < now

StackInv ==
    /\ LifoCount /\ StackChain /\ FrameNotOlderThanCall /\ PairingUntilCapDrop
    /\ OnlyDeepCallsDropped /\ CallsStarted

\* The types the lemmas below use.
LEMMA StackFacts ==
    ASSUME TypeOK
    PROVE  /\ stack \in Seq(Frames) /\ Len(stack) \in Nat
           /\ \A i \in 1..Len(stack) :
                /\ stack[i] \in Frames
                /\ stack[i].call_id \in Nat \ {0} /\ stack[i].parent \in Nat
                /\ stack[i].fn_id \in Nat \ {0}
                /\ stack[i].depth \in Nat /\ stack[i].t_in \in Nat
           /\ php_stack \in Seq([fn : Functions, t_in : Nat]) /\ Len(php_stack) \in Nat
           /\ \A i \in 1..Len(php_stack) :
                php_stack[i].fn \in Functions /\ php_stack[i].t_in \in Nat
           /\ virtual_depth \in Nat /\ dropped_begins \in Nat /\ call_id_seq \in Nat
           /\ now \in Nat /\ intern \in [Functions -> Nat]
  <1>1. /\ stack \in Seq(Frames) /\ php_stack \in Seq([fn : Functions, t_in : Nat])
        /\ virtual_depth \in Nat /\ dropped_begins \in Nat /\ call_id_seq \in Nat
        /\ now \in Nat /\ intern \in [Functions -> Nat]
    BY DEF TypeOK, TraceTypeOK, EnvTypeOK
  <1>2. Len(stack) \in Nat /\ Len(php_stack) \in Nat
    BY <1>1, LenProperties
  <1>3. \A i \in 1..Len(stack) : stack[i] \in Frames
    BY <1>1, ElementOfSeq
  <1>4. \A i \in 1..Len(php_stack) : php_stack[i] \in [fn : Functions, t_in : Nat]
    BY <1>1, ElementOfSeq
  <1>5. \A i \in 1..Len(stack) :
            /\ stack[i].call_id \in Nat \ {0} /\ stack[i].parent \in Nat
            /\ stack[i].fn_id \in Nat \ {0}
            /\ stack[i].depth \in Nat /\ stack[i].t_in \in Nat
    BY <1>3 DEF Frames
  <1>6. \A i \in 1..Len(php_stack) :
            php_stack[i].fn \in Functions /\ php_stack[i].t_in \in Nat
    BY <1>4
  <1>. QED  BY <1>1, <1>2, <1>3, <1>5, <1>6

\* The arithmetic part of StackFacts.
LEMMA StackNumbers ==
    ASSUME TypeOK
    PROVE  /\ Len(stack) \in Nat /\ Len(php_stack) \in Nat
           /\ virtual_depth \in Nat /\ dropped_begins \in Nat /\ call_id_seq \in Nat
           /\ now \in Nat
           /\ \A i \in 1..Len(stack) :
                stack[i].call_id \in Nat /\ stack[i].t_in \in Nat /\ stack[i].depth \in Nat
           /\ \A i \in 1..Len(php_stack) : php_stack[i].t_in \in Nat
  BY StackFacts

\* An empty trace satisfies it: Init, RINIT and RSHUTDOWN.
LEMMA StackEmpty ==
    ASSUME stack' = <<>>, php_stack' = <<>>, virtual_depth' = 0, dropped_begins' = 0
    PROVE  StackInv'
  <1>1. LifoCount'
    BY DEF LifoCount
  <1>2. StackChain' /\ FrameNotOlderThanCall' /\ CallsStarted'
    BY ConfigFacts DEF StackChain, FrameNotOlderThanCall, CallsStarted
  <1>3. PairingUntilCapDrop'
    <2>1. \A i \in 1..Len(stack') : FALSE
      OBVIOUS
    <2>. QED  BY <2>1, Zenon DEF PairingUntilCapDrop
  <1>4. OnlyDeepCallsDropped'
    <2>1. ~(dropped_begins' > 0)
      OBVIOUS
    <2>. QED  BY <2>1, Zenon DEF OnlyDeepCallsDropped
  <1>. QED  BY <1>1, <1>2, <1>3, <1>4 DEF StackInv

\* Steps that do not touch the stacks.
LEMMA StackUntouched ==
    ASSUME StackInv, UNCHANGED <<trace_vars, env_vars>>
    PROVE  StackInv'
  <1>1. UNCHANGED <<virtual_depth, dropped_begins, call_id_seq, stack, intern>>
    BY DEF trace_vars
  <1>2. UNCHANGED <<php_stack, now>>
    BY DEF env_vars
  <1>3. UNCHANGED cap_dropped
    BY Zenon DEF env_vars
  <1>4. LifoCount' /\ StackChain' /\ FrameNotOlderThanCall' /\ CallsStarted'
    BY <1>1, <1>2 DEF StackInv, LifoCount, StackChain, FrameNotOlderThanCall, CallsStarted
  <1>5. PairingUntilCapDrop' /\ OnlyDeepCallsDropped'
    BY <1>1, <1>2, <1>3, Zenon DEF StackInv, PairingUntilCapDrop, OnlyDeepCallsDropped
  <1>. QED  BY <1>4, <1>5 DEF StackInv

\* What an engine begin does to the two clocks of the model.
LEMMA BeginShape ==
    ASSUME TypeOK, NEW fn \in Functions, EngineBegins(fn)
    PROVE  /\ Len(php_stack') = Len(php_stack) + 1
           /\ \A i \in 1..Len(php_stack) : php_stack'[i] = php_stack[i]
           /\ php_stack'[Len(php_stack) + 1] = [fn |-> fn, t_in |-> now]
           /\ now' = now + 1 /\ virtual_depth' = virtual_depth + 1
  <1>1. [fn |-> fn, t_in |-> now] \in [fn : Functions, t_in : Nat]
    BY StackFacts
  <1>2. php_stack' = Append(php_stack, [fn |-> fn, t_in |-> now])
        /\ now' = now + 1 /\ virtual_depth' = virtual_depth + 1
    BY DEF EngineBegins
  <1>. QED  BY <1>1, <1>2, StackFacts, AppendProperties

LEMMA EndShape ==
    ASSUME TypeOK, EngineEnds
    PROVE  /\ Len(php_stack) >= 1 /\ Len(php_stack') = Len(php_stack) - 1
           /\ \A i \in 1..(Len(php_stack) - 1) : php_stack'[i] = php_stack[i]
           /\ now' = now + 1 /\ virtual_depth' = SaturatingDec(virtual_depth)
  <1>1. php_stack # <<>> /\ php_stack' = Front(php_stack)
        /\ now' = now + 1 /\ virtual_depth' = SaturatingDec(virtual_depth)
    BY DEF EngineEnds
  <1>2. Len(php_stack) >= 1
    BY <1>1, StackFacts, EmptySeq
  <1>. QED  BY <1>1, <1>2, StackFacts, FrontProperties

\* A dropped begin: nothing is pushed, dropped_begins remembers it.
LEMMA StartedAfterBegin ==
    ASSUME TypeOK, CallsStarted, NEW fn \in Functions,
           Len(php_stack') = Len(php_stack) + 1,
           \A i \in 1..Len(php_stack) : php_stack'[i] = php_stack[i],
           php_stack'[Len(php_stack) + 1] = [fn |-> fn, t_in |-> now],
           now' = now + 1
    PROVE  CallsStarted'
  <1>. SUFFICES ASSUME NEW i \in 1..Len(php_stack')
                PROVE  php_stack'[i].t_in < now'
    BY DEF CallsStarted
  <1>0. Len(php_stack) \in Nat /\ now \in Nat
    BY StackNumbers
  <1>1. CASE i \in 1..Len(php_stack)
    <2>1. php_stack[i].t_in < now /\ php_stack[i].t_in \in Nat
      BY <1>1, StackNumbers DEF CallsStarted
    <2>. QED  BY <1>0, <1>1, <2>1
  <1>2. CASE i = Len(php_stack) + 1
    BY <1>0, <1>2
  <1>. QED  BY <1>0, <1>1, <1>2

LEMMA StackBeginDropped ==
    ASSUME TypeOK, StackInv, NEW fn \in Functions,
           BeginDroppedByDepth(fn) \/ BeginDroppedByCap(fn)
    PROVE  StackInv'
  <1>1. EngineBegins(fn) /\ RecordDrop
    BY DEF BeginDroppedByDepth, BeginDroppedByCap
  <1>0. /\ Len(php_stack') = Len(php_stack) + 1
        /\ \A i \in 1..Len(php_stack) : php_stack'[i] = php_stack[i]
        /\ php_stack'[Len(php_stack) + 1] = [fn |-> fn, t_in |-> now]
        /\ now' = now + 1 /\ virtual_depth' = virtual_depth + 1
    BY <1>1, BeginShape
  <1>2. UNCHANGED <<stack, call_id_seq, intern>> /\ dropped_begins' = dropped_begins + 1
    BY <1>1 DEF RecordDrop
  <1>3. LifoCount'
    BY <1>0, <1>2, StackNumbers, SMTT(30) DEF StackInv, LifoCount
  <1>4. StackChain'
    <2>1. \A i \in 1..Len(stack) : stack[i].t_in < now'
      <3>1. \A i \in 1..Len(stack) : stack[i].t_in < now
        BY DEF StackInv, StackChain
      <3>. QED  BY <1>0, <3>1, StackNumbers
    <2>2. /\ Len(stack) <= MaxDepth
          /\ \A i \in 1..Len(stack) :
                /\ stack[i].call_id <= call_id_seq
                /\ stack[i].depth < MaxDepth
                /\ stack[i].parent = IF i = 1 THEN 0 ELSE stack[i - 1].call_id
                /\ i > 1 => /\ stack[i - 1].call_id < stack[i].call_id
                            /\ stack[i - 1].t_in < stack[i].t_in
      BY DEF StackInv, StackChain
    <2>. QED  BY <1>2, <2>1, <2>2 DEF StackChain
  <1>5. CallsStarted' /\ FrameNotOlderThanCall'
    <2>1. CallsStarted'
      BY <1>0, StartedAfterBegin DEF StackInv
    <2>2. \A i \in 1..Len(stack) : i \in 1..Len(php_stack)
      BY StackNumbers DEF StackInv, FrameNotOlderThanCall
    <2>3. \A i \in 1..Len(stack) : i <= Len(php_stack')
      BY <1>0, <2>2, StackNumbers
    <2>4. \A i \in 1..Len(stack) : php_stack'[i].t_in <= stack[i].t_in
      BY <1>0, <2>2 DEF StackInv, FrameNotOlderThanCall
    <2>. QED  BY <1>2, <2>1, <2>3, <2>4 DEF FrameNotOlderThanCall
  <1>6. ASSUME ~cap_dropped'
        PROVE  ~cap_dropped /\ DepthGate
    <2>1. ~BeginDroppedByCap(fn)
      BY <1>6, Zenon DEF BeginDroppedByCap
    <2>2. BeginDroppedByDepth(fn)
      BY <2>1, Zenon
    <2>. QED  BY <1>6, <2>2, Zenon DEF BeginDroppedByDepth
  <1>7. PairingUntilCapDrop'
    <2>. SUFFICES ASSUME ~cap_dropped',
                         NEW i \in 1..Len(stack')
                  PROVE  /\ stack'[i].t_in = php_stack'[i].t_in
                         /\ stack'[i].depth = i - 1
                         /\ stack'[i].fn_id = intern'[php_stack'[i].fn]
      BY Zenon DEF PairingUntilCapDrop
    <2>1. i \in 1..Len(stack)
      BY <1>2
    <2>2. /\ stack[i].t_in = php_stack[i].t_in
          /\ stack[i].depth = i - 1
          /\ stack[i].fn_id = intern[php_stack[i].fn]
      BY <1>6, <2>1, Zenon DEF StackInv, PairingUntilCapDrop
    <2>3. i \in 1..Len(php_stack)
      BY <2>1, StackNumbers DEF StackInv, FrameNotOlderThanCall
    <2>. QED  BY <1>0, <1>2, <2>2, <2>3
  <1>8. OnlyDeepCallsDropped'
    <2>. SUFFICES ASSUME ~cap_dropped'
                  PROVE  Len(stack') >= MaxDepth
      BY Zenon DEF OnlyDeepCallsDropped
    <2>1. virtual_depth + 1 > MaxDepth
      BY <1>6 DEF DepthGate
    <2>2. CASE dropped_begins > 0
      <3>1. Len(stack) >= MaxDepth
        BY <1>6, <2>2, Zenon DEF StackInv, OnlyDeepCallsDropped
      <3>. QED  BY <1>2, <3>1
    <2>3. CASE ~(dropped_begins > 0)
      BY <1>2, <2>1, <2>3, StackNumbers, ConfigFacts DEF StackInv, LifoCount
    <2>. QED  BY <2>2, <2>3
  <1>. QED  BY <1>3, <1>4, <1>5, <1>7, <1>8 DEF StackInv

\* An accepted begin pushes a frame that chains to the one below it, and that
\* lines up with the engine's call unless the budget gate dropped one before.
LEMMA StackBeginAccepted ==
    ASSUME TypeOK, StackInv, NEW fn \in Functions, BeginAccepted(fn)
    PROVE  StackInv'
  <1>. DEFINE n == Len(stack)
              frame == [call_id |-> call_id_seq + 1, parent |-> Parent, fn_id |-> intern'[fn],
                        depth |-> virtual_depth % (U16Max + 1), t_in |-> now]
  <1>1. EngineBegins(fn)
    BY DEF BeginAccepted
  <1>0. /\ Len(php_stack') = Len(php_stack) + 1
        /\ \A i \in 1..Len(php_stack) : php_stack'[i] = php_stack[i]
        /\ php_stack'[Len(php_stack) + 1] = [fn |-> fn, t_in |-> now]
        /\ now' = now + 1 /\ virtual_depth' = virtual_depth + 1
    BY <1>1, BeginShape
  <1>2. /\ call_id_seq' = call_id_seq + 1 /\ dropped_begins' = dropped_begins
        /\ ~(virtual_depth + 1 > MaxDepth) /\ InternRef(fn)
        /\ stack' = Append(stack, frame)
    BY DEF BeginAccepted, DepthGate
  <1>3. call_id_seq' = call_id_seq + 1 /\ now' = now + 1
    BY <1>0, <1>2
  <1>4. /\ Len(stack') = n + 1
        /\ \A i \in 1..n : stack'[i] = stack[i]
        /\ stack'[n + 1] = frame
    BY <1>2, StackFacts, AppendProperties
  <1>5. frame.depth = virtual_depth /\ virtual_depth < MaxDepth
    <2>1. virtual_depth < MaxDepth /\ virtual_depth <= U16Max
      BY <1>2, StackNumbers, ConfigFacts, SMT DEF U16Max
    <2>. QED  BY <2>1, StackNumbers, U16Cast
  <1>6. frame.parent = IF n = 0 THEN 0 ELSE stack[n].call_id
    BY StackNumbers, EmptySeq DEF Parent, Last
  <1>7. frame.t_in = now /\ frame.call_id = call_id_seq + 1
    OBVIOUS
  <1>. HIDE DEF frame
  <1>8. LifoCount'
    BY <1>0, <1>2, <1>4, StackNumbers, SMTT(30) DEF StackInv, LifoCount
  <1>9. StackChain'
    <2>1. Len(stack') <= MaxDepth
      BY <1>4, <1>5, StackNumbers, ConfigFacts DEF StackInv, LifoCount
    <2>2. ASSUME NEW i \in 1..Len(stack')
          PROVE  /\ stack'[i].call_id <= call_id_seq'
                 /\ stack'[i].t_in < now'
                 /\ stack'[i].depth < MaxDepth
                 /\ stack'[i].parent = IF i = 1 THEN 0 ELSE stack'[i - 1].call_id
                 /\ i > 1 => /\ stack'[i - 1].call_id < stack'[i].call_id
                             /\ stack'[i - 1].t_in < stack'[i].t_in
      <3>1. CASE i \in 1..n
        <4>1. stack'[i] = stack[i] /\ (i > 1 => stack'[i - 1] = stack[i - 1])
          <5>1. i > 1 => i - 1 \in 1..n
            BY <3>1, StackNumbers
          <5>. QED  BY <1>4, <3>1, <5>1
        <4>2. /\ stack[i].call_id <= call_id_seq
              /\ stack[i].t_in < now
              /\ stack[i].depth < MaxDepth
              /\ stack[i].parent = IF i = 1 THEN 0 ELSE stack[i - 1].call_id
              /\ i > 1 => /\ stack[i - 1].call_id < stack[i].call_id
                          /\ stack[i - 1].t_in < stack[i].t_in
          BY <3>1 DEF StackInv, StackChain
        <4>3. stack[i].call_id <= call_id_seq' /\ stack[i].t_in < now'
          BY <1>3, <3>1, <4>2, StackNumbers, SMTT(30)
        <4>. QED  BY <4>1, <4>2, <4>3
      <3>2. CASE i = n + 1
        <4>1. stack'[i] = frame /\ (i > 1 => stack'[i - 1] = stack[n])
          <5>1. i - 1 = n /\ (i > 1 => n \in 1..n)
            BY <3>2, StackNumbers
          <5>. QED  BY <1>4, <3>2, <5>1
        <4>2. n >= 1 => stack[n].call_id <= call_id_seq /\ stack[n].t_in < now
          BY StackNumbers DEF StackInv, StackChain
        <4>3. stack'[i].parent = IF i = 1 THEN 0 ELSE stack'[i - 1].call_id
          BY <1>6, <3>2, <4>1, StackNumbers
        <4>4. stack'[i].call_id <= call_id_seq' /\ stack'[i].t_in < now'
              /\ stack'[i].depth < MaxDepth
          BY <1>3, <1>5, <1>7, <4>1, StackNumbers
        <4>5. i > 1 => n >= 1 /\ stack'[i - 1].call_id < stack'[i].call_id
                      /\ stack'[i - 1].t_in < stack'[i].t_in
          <5>1. i > 1 => n >= 1 /\ n \in 1..n
            BY <3>2, StackNumbers
          <5>2. i > 1 => /\ stack'[i - 1].call_id = stack[n].call_id
                         /\ stack'[i - 1].t_in = stack[n].t_in
            BY <4>1
          <5>3. stack'[i].call_id = call_id_seq + 1 /\ stack'[i].t_in = now
            BY <1>7, <4>1
          <5>. QED  BY <4>2, <5>1, <5>2, <5>3, StackNumbers, SMTT(30)
        <4>. QED  BY <4>3, <4>4, <4>5
      <3>. QED  BY <1>4, <3>1, <3>2, StackNumbers
    <2>. QED  BY <2>1, <2>2 DEF StackChain
  <1>10. CallsStarted'
    BY <1>0, StartedAfterBegin DEF StackInv
  <1>11. FrameNotOlderThanCall'
    <2>. SUFFICES ASSUME NEW i \in 1..Len(stack')
                  PROVE  i <= Len(php_stack') /\ php_stack'[i].t_in <= stack'[i].t_in
      BY DEF FrameNotOlderThanCall
    <2>1. CASE i \in 1..n
      <3>1. i <= Len(php_stack) /\ php_stack[i].t_in <= stack[i].t_in
        BY <2>1 DEF StackInv, FrameNotOlderThanCall
      <3>2. i \in 1..Len(php_stack)
        BY <2>1, <3>1, StackNumbers
      <3>. QED  BY <1>0, <1>4, <2>1, <3>1, <3>2, StackNumbers, SMTT(30)
    <2>2. CASE i = n + 1
      <3>1. n <= Len(php_stack)
        BY StackNumbers DEF StackInv, LifoCount
      <3>2. php_stack'[i].t_in <= now
        <4>1. CASE i \in 1..Len(php_stack)
          BY <1>0, <4>1, StackNumbers, SMTT(30) DEF StackInv, CallsStarted
        <4>2. CASE i = Len(php_stack) + 1
          BY <1>0, <4>2, StackNumbers
        <4>. QED  BY <2>2, <3>1, <4>1, <4>2, StackNumbers
      <3>. QED  BY <1>0, <1>4, <1>7, <2>2, <3>1, <3>2, StackNumbers
    <2>. QED  BY <1>4, <2>1, <2>2, StackNumbers
  <1>12. ASSUME ~cap_dropped'
         PROVE  ~cap_dropped /\ dropped_begins = 0 /\ n = Len(php_stack) /\ n = virtual_depth
    <2>1. ~cap_dropped
      BY <1>12, Zenon DEF BeginAccepted
    <2>2. dropped_begins > 0 => Len(stack) >= MaxDepth
      BY <2>1, Zenon DEF StackInv, OnlyDeepCallsDropped
    <2>3. dropped_begins = 0
      BY <1>5, <2>2, StackNumbers, ConfigFacts DEF StackInv, LifoCount
    <2>4. n = Len(php_stack) /\ n = virtual_depth
      BY <2>3, StackNumbers DEF StackInv, LifoCount
    <2>. QED  BY <2>1, <2>3, <2>4
  <1>13. PairingUntilCapDrop'
    <2>. SUFFICES ASSUME ~cap_dropped', NEW i \in 1..Len(stack')
                  PROVE  /\ stack'[i].t_in = php_stack'[i].t_in
                         /\ stack'[i].depth = i - 1
                         /\ stack'[i].fn_id = intern'[php_stack'[i].fn]
      BY Zenon DEF PairingUntilCapDrop
    <2>1. CASE i \in 1..n
      <3>1. /\ stack[i].t_in = php_stack[i].t_in
            /\ stack[i].depth = i - 1
            /\ stack[i].fn_id = intern[php_stack[i].fn]
        BY <1>12, <2>1, Zenon DEF StackInv, PairingUntilCapDrop
      <3>2. stack'[i] = stack[i] /\ php_stack'[i] = php_stack[i]
            /\ php_stack[i].fn \in Functions
        <4>1. i \in 1..Len(php_stack)
          BY <1>12, <2>1
        <4>. QED  BY <1>0, <1>4, <2>1, <4>1, StackFacts
      <3>3. intern[php_stack[i].fn] # 0
        <4>1. stack[i].fn_id # 0
          BY <2>1, StackFacts
        <4>. QED  BY <3>1, <4>1
      <3>4. intern'[php_stack[i].fn] = intern[php_stack[i].fn]
        <4>1. intern \in [Functions -> Nat]
          BY StackFacts
        <4>2. CASE Interned(fn)
          BY <1>2, <4>2 DEF InternRef
        <4>3. CASE ~Interned(fn)
          <5>1. intern' = [intern EXCEPT ![fn] = next_fn_id]
            BY <1>2, <4>3 DEF InternRef
          <5>2. php_stack[i].fn # fn
            BY <3>3, <4>3 DEF Interned
          <5>. QED  BY <3>2, <4>1, <5>1, <5>2
        <4>. QED  BY <4>2, <4>3
      <3>. QED  BY <3>1, <3>2, <3>4
    <2>2. CASE i = n + 1
      <3>1. stack'[i] = frame /\ php_stack'[i] = [fn |-> fn, t_in |-> now]
        BY <1>0, <1>4, <1>12, <2>2
      <3>2. frame.fn_id = intern'[fn]
        BY DEF frame
      <3>3. frame.depth = i - 1
        BY <1>5, <1>12, <2>2, StackNumbers
      <3>. QED  BY <1>7, <3>1, <3>2, <3>3
    <2>. QED  BY <1>4, <2>1, <2>2, StackNumbers
  <1>14. OnlyDeepCallsDropped'
    <2>1. ~cap_dropped' => ~(dropped_begins' > 0)
      BY <1>2, <1>12
    <2>. QED  BY <2>1, Zenon DEF OnlyDeepCallsDropped
  <1>. QED  BY <1>8, <1>9, <1>10, <1>11, <1>13, <1>14 DEF StackInv

\* An end, whichever arm it takes: the recorder pops exactly when the engine's
\* stack is no taller than its own.
LEMMA StackEnd ==
    ASSUME TypeOK, StackInv, End
    PROVE  StackInv'
  <1>. DEFINE n == Len(stack)
              p == Len(php_stack)
  <1>1. EngineEnds /\ UNCHANGED <<call_id_seq, intern>>
    BY DEF End, EndOfDroppedBegin, EndAccepted, EngineEnds
  <1>2. UNCHANGED cap_dropped
    BY <1>1, Zenon DEF EngineEnds
  <1>3. /\ p >= 1 /\ Len(php_stack') = p - 1
        /\ \A i \in 1..(p - 1) : php_stack'[i] = php_stack[i]
        /\ now' = now + 1 /\ virtual_depth' = virtual_depth - 1
    <2>1. virtual_depth = p
      BY DEF StackInv, LifoCount
    <2>. QED  BY <1>1, <2>1, EndShape DEF SaturatingDec
  <1>4. /\ Len(stack') <= n /\ n <= Len(stack') + 1
        /\ \A i \in 1..Len(stack') : i \in 1..n /\ stack'[i] = stack[i]
        /\ Len(stack') <= p - 1
        /\ p - 1 = Len(stack') + dropped_begins' /\ dropped_begins' \in Nat
        /\ dropped_begins' > 0 => dropped_begins > 0 /\ Len(stack') = n
    <2>0. p = n + dropped_begins /\ n \in Nat /\ dropped_begins \in Nat
      BY StackNumbers DEF StackInv, LifoCount
    <2>1. CASE EndOfDroppedBegin
      <3>1. dropped_begins > 0 /\ dropped_begins' = dropped_begins - 1 /\ stack' = stack
        BY <2>1 DEF EndOfDroppedBegin
      <3>. QED  BY <1>3, <2>0, <3>1
    <2>2. CASE \E threw \in Throws : EndAccepted(threw)
      <3>1. dropped_begins = 0 /\ dropped_begins' = 0
            /\ stack' = IF stack = <<>> THEN stack ELSE Front(stack)
        BY <2>2 DEF EndAccepted
      <3>2. n >= 1
        BY <1>3, <2>0, <3>1
      <3>3. stack # <<>>
        BY <3>2
      <3>4. Len(stack') = n - 1 /\ \A i \in 1..(n - 1) : stack'[i] = stack[i]
        BY <3>1, <3>3, StackFacts, FrontProperties
      <3>. QED  BY <1>3, <2>0, <3>1, <3>2, <3>4
    <2>. QED  BY <2>1, <2>2 DEF End
  <1>5. LifoCount'
    <2>1. virtual_depth = p
      BY DEF StackInv, LifoCount
    <2>. QED  BY <1>3, <1>4, <2>1, StackNumbers DEF LifoCount
  <1>6. StackChain'
    <2>1. Len(stack') <= MaxDepth
      <3>1. n <= MaxDepth
        BY DEF StackInv, StackChain
      <3>. QED  BY <1>4, <3>1, StackNumbers, ConfigFacts
    <2>2. ASSUME NEW i \in 1..Len(stack')
          PROVE  /\ stack'[i].call_id <= call_id_seq'
                 /\ stack'[i].t_in < now'
                 /\ stack'[i].depth < MaxDepth
                 /\ stack'[i].parent = IF i = 1 THEN 0 ELSE stack'[i - 1].call_id
                 /\ i > 1 => /\ stack'[i - 1].call_id < stack'[i].call_id
                             /\ stack'[i - 1].t_in < stack'[i].t_in
      <3>1. i \in 1..n /\ stack'[i] = stack[i]
        BY <1>4
      <3>2. i > 1 => i - 1 \in 1..Len(stack') /\ stack'[i - 1] = stack[i - 1]
        BY <1>4
      <3>3. /\ stack[i].call_id <= call_id_seq
            /\ stack[i].t_in < now
            /\ stack[i].depth < MaxDepth
            /\ stack[i].parent = IF i = 1 THEN 0 ELSE stack[i - 1].call_id
            /\ i > 1 => /\ stack[i - 1].call_id < stack[i].call_id
                        /\ stack[i - 1].t_in < stack[i].t_in
        BY <3>1 DEF StackInv, StackChain
      <3>4. stack[i].call_id <= call_id_seq'
        BY <1>1, <3>3
      <3>5. stack[i].t_in < now'
        BY <1>3, <3>1, <3>3, StackNumbers, SMTT(30)
      <3>. QED  BY <3>1, <3>2, <3>3, <3>4, <3>5
    <2>. QED  BY <2>1, <2>2 DEF StackChain
  <1>7. CallsStarted'
    <2>. SUFFICES ASSUME NEW i \in 1..Len(php_stack')
                  PROVE  php_stack'[i].t_in < now'
      BY DEF CallsStarted
    <2>1. i \in 1..(p - 1) /\ i \in 1..p
      BY <1>3, StackNumbers
    <2>2. php_stack[i].t_in < now /\ php_stack'[i] = php_stack[i]
      BY <1>3, <2>1 DEF StackInv, CallsStarted
    <2>. QED  BY <1>3, <2>1, <2>2, StackNumbers, SMTT(30)
  <1>8. FrameNotOlderThanCall'
    <2>. SUFFICES ASSUME NEW i \in 1..Len(stack')
                  PROVE  i <= Len(php_stack') /\ php_stack'[i].t_in <= stack'[i].t_in
      BY DEF FrameNotOlderThanCall
    <2>1. i \in 1..n /\ stack'[i] = stack[i] /\ i \in 1..(p - 1)
      BY <1>4, StackNumbers
    <2>2. php_stack[i].t_in <= stack[i].t_in
      BY <2>1 DEF StackInv, FrameNotOlderThanCall
    <2>. QED  BY <1>3, <2>1, <2>2
  <1>9. PairingUntilCapDrop'
    <2>. SUFFICES ASSUME ~cap_dropped', NEW i \in 1..Len(stack')
                  PROVE  /\ stack'[i].t_in = php_stack'[i].t_in
                         /\ stack'[i].depth = i - 1
                         /\ stack'[i].fn_id = intern'[php_stack'[i].fn]
      BY Zenon DEF PairingUntilCapDrop
    <2>1. i \in 1..n /\ stack'[i] = stack[i] /\ i \in 1..(p - 1)
      BY <1>4, StackNumbers, SMTT(30)
    <2>2. ~cap_dropped
      BY <1>2, Zenon
    <2>3. /\ stack[i].t_in = php_stack[i].t_in
          /\ stack[i].depth = i - 1
          /\ stack[i].fn_id = intern[php_stack[i].fn]
      BY <2>1, <2>2, Zenon DEF StackInv, PairingUntilCapDrop
    <2>. QED  BY <1>1, <1>3, <2>1, <2>3
  <1>10. OnlyDeepCallsDropped'
    <2>. SUFFICES ASSUME ~cap_dropped', dropped_begins' > 0
                  PROVE  Len(stack') >= MaxDepth
      BY Zenon DEF OnlyDeepCallsDropped
    <2>1. dropped_begins > 0 /\ Len(stack') = n
      BY <1>4
    <2>2. n >= MaxDepth
      BY <1>2, <2>1, Zenon DEF StackInv, OnlyDeepCallsDropped
    <2>. QED  BY <2>1, <2>2
  <1>. QED  BY <1>5, <1>6, <1>7, <1>8, <1>9, <1>10 DEF StackInv

LEMMA StackInit ==
    ASSUME Init
    PROVE  StackInv
  <1>1. stack = <<>> /\ php_stack = <<>> /\ virtual_depth = 0 /\ dropped_begins = 0
    BY DEF Init, EmptyTrace
  <1>2. LifoCount
    BY <1>1 DEF LifoCount
  <1>3. StackChain /\ FrameNotOlderThanCall /\ CallsStarted
    BY <1>1, ConfigFacts DEF StackChain, FrameNotOlderThanCall, CallsStarted
  <1>4. PairingUntilCapDrop
    <2>1. \A i \in 1..Len(stack) : FALSE
      BY <1>1
    <2>. QED  BY <2>1, Zenon DEF PairingUntilCapDrop
  <1>5. OnlyDeepCallsDropped
    <2>1. ~(dropped_begins > 0)
      BY <1>1
    <2>. QED  BY <2>1, Zenon DEF OnlyDeepCallsDropped
  <1>. QED  BY <1>2, <1>3, <1>4, <1>5 DEF StackInv

\* Every step of every actor keeps the pairing invariant.
LEMMA StackStep ==
    ASSUME TypeOK, StackInv, [Next]_vars
    PROVE  StackInv'
  <1>1. CASE RInit
    <2>1. stack' = <<>> /\ php_stack' = <<>> /\ virtual_depth' = 0 /\ dropped_begins' = 0
      BY <1>1 DEF RInit, ResetTrace
    <2>. QED  BY <2>1, StackEmpty
  <1>2. CASE Begin
    <2>1. PICK fn \in Functions :
            BeginDroppedByDepth(fn) \/ BeginDroppedByCap(fn) \/ BeginAccepted(fn)
      BY <1>2 DEF Begin
    <2>. QED  BY <2>1, StackBeginDropped, StackBeginAccepted
  <1>3. CASE End
    BY <1>3, StackEnd
  <1>4. CASE RShutdown
    <2>1. stack' = <<>> /\ php_stack' = <<>> /\ virtual_depth' = 0 /\ dropped_begins' = 0
      BY <1>4 DEF RShutdown, ResetTrace
    <2>. QED  BY <2>1, StackEmpty
  <1>5. CASE DiscardRefused \/ Shipper
    <2>1. UNCHANGED <<trace_vars, env_vars>>
      BY <1>5, Zenon DEF DiscardRefused, Shipper, ShipperReceives, ShipperCountsDrop,
                         ShipperReleases, ShipperPanics
    <2>. QED  BY <2>1, StackUntouched
  <1>6. CASE UNCHANGED vars
    <2>1. UNCHANGED <<trace_vars, env_vars>>
      BY <1>6, Zenon DEF vars
    <2>. QED  BY <2>1, StackUntouched
  <1>. QED  BY <1>1, <1>2, <1>3, <1>4, <1>5, <1>6 DEF Next, RequestThread

\* Begins and ends never drift apart, whatever the gates drop: the counters
\* agree with the engine's nesting, frames form a chain no deeper than
\* max_depth, no frame is older than the call whose end will close it, and
\* until the budget gate drops a begin each end closes its own begin's frame.
THEOREM PairingCorrect ==
    Spec => [](StackConsistent /\ PairingUntilCapDrop)
  <1>1. Init => StackInv
    BY StackInit
  <1>2. TypeOK /\ StackInv /\ [Next]_vars => StackInv'
    BY StackStep
  <1>3. StackInv => StackConsistent /\ PairingUntilCapDrop
    BY DEF StackInv, StackConsistent
  <1>. QED  BY <1>1, <1>2, <1>3, TypeCorrect, PTL DEF Spec

\* The half of it that needs no condition: counters, chain and ages are those of
\* the engine's own nesting, whatever either gate drops.
THEOREM StackCorrect == Spec => []StackConsistent
BY PairingCorrect, PTL

-----------------------------------------------------------------------------
(* The memory budget.  What can still be billed without another gate is one *)
(* record per open frame; the bound says bytes plus that reserve never      *)
(* grows past the cap by more than the frames below the newest one.         *)

LEMMA ReserveNotGrown ==
    ASSUME BudgetBound, bytes_in_memory \in Int, Len(stack) \in Nat,
           bytes_in_memory' \in Int, Len(stack') \in Nat,
           bytes_in_memory' + CALL_RECORD_FIXED_BYTES * Len(stack')
                <= bytes_in_memory + CALL_RECORD_FIXED_BYTES * Len(stack)
    PROVE  BudgetBound'
  BY ConfigFacts DEF BudgetBound, CALL_RECORD_FIXED_BYTES

\* A send bills the batch once and may give it back.
LEMMA SendBills ==
    ASSUME NEW batch \in Batches, NEW bytes \in Int, TrySendBatch(batch, bytes)
    PROVE  bytes_in_memory' \in Int /\ bytes_in_memory' <= bytes
  <1>1. batch.size_estimate \in Nat
    BY DEF Batches
  <1>. QED  BY <1>1 DEF TrySendBatch

LEMMA BudgetBeginAccepted ==
    ASSUME TypeOK, StackInv, BudgetBound, NEW fn \in Functions, BeginAccepted(fn)
    PROVE  BudgetBound'
  <1>1. Len(stack') = Len(stack) + 1
    BY StackFacts, AppendProperties DEF BeginAccepted
  <1>2. DictMissCost(fn) \in Nat
    BY MissCostIsNat
  <1>3. bytes_in_memory' = bytes_in_memory + DictMissCost(fn)
        /\ ~(bytes_in_memory + CALL_RECORD_FIXED_BYTES + DictMissCost(fn) > BufferCap)
        /\ ~(virtual_depth + 1 > MaxDepth)
    BY DEF BeginAccepted, CapGate, DepthGate
  <1>4. Len(stack) + 1 <= MaxDepth
    BY <1>3, StackNumbers, ConfigFacts DEF StackInv, LifoCount
  <1>5. bytes_in_memory \in Int /\ Len(stack) \in Nat /\ MaxDepth \in Nat /\ BufferCap \in Nat
    BY SharedFacts, StackNumbers, ConfigFacts
  <1>. QED  BY <1>1, <1>2, <1>3, <1>4, <1>5, SMTT(30) DEF BudgetBound, CALL_RECORD_FIXED_BYTES

LEMMA BudgetEndAccepted ==
    ASSUME TypeOK, StackInv, BudgetBound, NEW threw \in Throws, EndAccepted(threw)
    PROVE  BudgetBound'
  <1>. DEFINE calls == Append(buffer, RecordOf(Last(stack), now, threw))
              size  == buffer_estimated_bytes + CALL_RECORD_FIXED_BYTES
              bytes == bytes_in_memory + CALL_RECORD_FIXED_BYTES
  <1>1. EngineEnds /\ dropped_begins = 0
    BY DEF EndAccepted
  <1>2. Len(stack) >= 1 /\ stack # <<>>
    <2>1. Len(stack) >= 1
      BY <1>1, EndShape, StackNumbers DEF StackInv, LifoCount
    <2>. QED  BY <2>1
  <1>3. Len(stack') = Len(stack) - 1
    BY <1>2, StackFacts, FrontProperties DEF EndAccepted
  <1>4. bytes_in_memory \in Int /\ bytes \in Int
    BY SharedFacts DEF CALL_RECORD_FIXED_BYTES
  <1>5. bytes_in_memory' \in Int /\ bytes_in_memory' <= bytes
    <2>1. CASE FlushDue(calls, size)
      <3>1. TrySendBatch(PendingBatch(calls, size), bytes)
        BY <1>2, <2>1 DEF EndAccepted
      <3>2. PendingBatch(calls, size) \in Batches
        <4>1. Last(stack) \in Frames /\ threw \in BOOLEAN
          BY <1>2, StackFacts, FrontProperties, ConfigFacts
        <4>2. RecordOf(Last(stack), now, threw) \in Records
          BY <4>1, StackNumbers, TypeRecordOf
        <4>3. calls \in Seq(Records)
          BY <4>2, AppendProperties DEF TypeOK, TraceTypeOK
        <4>4. size \in Nat
          BY DEF TypeOK, TraceTypeOK, CALL_RECORD_FIXED_BYTES
        <4>. QED  BY <1>1, <4>3, <4>4, TypeEngineEnds, TypePendingBatch
      <3>. QED  BY <1>4, <3>1, <3>2, SendBills
    <2>2. CASE ~FlushDue(calls, size)
      <3>1. bytes_in_memory' = bytes
        BY <1>2, <2>2 DEF EndAccepted
      <3>. QED  BY <1>4, <3>1
    <2>. QED  BY <2>1, <2>2
  <1>. QED  BY <1>2, <1>3, <1>4, <1>5, StackNumbers, ReserveNotGrown
            DEF CALL_RECORD_FIXED_BYTES

LEMMA BudgetRShutdown ==
    ASSUME TypeOK, BudgetBound, RShutdown
    PROVE  BudgetBound'
  <1>. DEFINE calls == buffer \o DrainedRecords
              added == CALL_RECORD_FIXED_BYTES * Len(stack)
              size  == buffer_estimated_bytes + added
              bytes == bytes_in_memory + added
  <1>0. bytes_in_memory \in Int /\ buffer_estimated_bytes \in Nat
    BY SharedFacts DEF TypeOK, TraceTypeOK
  <1>1. Len(stack') = 0
    BY DEF RShutdown, ResetTrace
  <1>2. added \in Nat
    BY StackNumbers DEF CALL_RECORD_FIXED_BYTES
  <1>. HIDE DEF added
  <1>3. size \in Nat /\ bytes \in Int
    BY <1>0, <1>2
  <1>4. bytes_in_memory' \in Int /\ bytes_in_memory' <= bytes
    <2>1. CASE calls # <<>>
      <3>1. TrySendBatch(PendingBatch(calls, size), bytes)
        BY <2>1 DEF RShutdown, added
      <3>2. PendingBatch(calls, size) \in Batches
        <4>1. trace_live
          BY Zenon DEF RShutdown, OnRequestThread
        <4>2. calls \in Seq(Records)
          <5>1. buffer \in Seq(Records) /\ DrainedRecords \in Seq(Records)
            BY TypeDrainedRecords DEF TypeOK, TraceTypeOK
          <5>. QED  BY <5>1, ConcatProperties
        <4>. QED  BY <1>3, <4>1, <4>2, TypePendingBatch
      <3>. QED  BY <1>3, <3>1, <3>2, SendBills
    <2>2. CASE calls = <<>>
      <3>1. bytes_in_memory' = bytes - size
        BY <2>2 DEF RShutdown, added
      <3>. HIDE DEF bytes, size
      <3>. QED  BY <1>3, <3>1
    <2>. QED  BY <2>1, <2>2
  <1>5. bytes_in_memory' + CALL_RECORD_FIXED_BYTES * Len(stack')
            <= bytes_in_memory + CALL_RECORD_FIXED_BYTES * Len(stack)
    BY <1>0, <1>1, <1>2, <1>4 DEF CALL_RECORD_FIXED_BYTES, added
  <1>. QED  BY <1>0, <1>1, <1>4, <1>5, StackNumbers, ReserveNotGrown

\* Steps that leave the stack alone only ever give bytes back.
LEMMA BudgetReleased ==
    ASSUME TypeOK, BudgetBound, Len(stack') = Len(stack),
           bytes_in_memory' \in Int, bytes_in_memory' <= bytes_in_memory
    PROVE  BudgetBound'
  BY SharedFacts, StackNumbers, ReserveNotGrown, SMTT(30) DEF CALL_RECORD_FIXED_BYTES

LEMMA BudgetStep ==
    ASSUME TypeOK, StackInv, BudgetBound, [Next]_vars
    PROVE  BudgetBound'
  <1>1. CASE RInit
    <2>1. bytes_in_memory' = bytes_in_memory /\ Len(stack') = 0
      BY <1>1 DEF RInit, ResetTrace, shared_vars
    <2>. QED  BY <2>1, SharedFacts, StackNumbers, ReserveNotGrown DEF CALL_RECORD_FIXED_BYTES
  <1>2. CASE Begin
    <2>1. PICK fn \in Functions :
            BeginDroppedByDepth(fn) \/ BeginDroppedByCap(fn) \/ BeginAccepted(fn)
      BY <1>2 DEF Begin
    <2>2. CASE BeginDroppedByDepth(fn) \/ BeginDroppedByCap(fn)
      BY <2>2, SharedFacts, BudgetReleased
         DEF BeginDroppedByDepth, BeginDroppedByCap, RecordDrop
    <2>. QED  BY <2>1, <2>2, BudgetBeginAccepted
  <1>3. CASE EndOfDroppedBegin
    BY <1>3, SharedFacts, BudgetReleased DEF EndOfDroppedBegin
  <1>4. CASE \E threw \in Throws : EndAccepted(threw)
    BY <1>4, BudgetEndAccepted
  <1>5. CASE RShutdown
    BY <1>5, BudgetRShutdown
  <1>6. CASE DiscardRefused
    <2>1. refused # <<>> /\ stack' = stack
          /\ bytes_in_memory' = bytes_in_memory - Head(refused).size_estimate
      BY <1>6 DEF DiscardRefused, trace_vars
    <2>2. Head(refused).size_estimate \in Nat
      <3>1. Head(refused) \in Batches
        BY <2>1, SharedFacts, HeadTailProperties
      <3>. QED  BY <3>1 DEF Batches
    <2>. QED  BY <2>1, <2>2, SharedFacts, BudgetReleased
  <1>7. CASE ShipperReceives \/ ShipperCountsDrop \/ ShipperPanics
    <2>1. stack' = stack /\ bytes_in_memory' = bytes_in_memory
      BY <1>7 DEF ShipperReceives, ShipperCountsDrop, ShipperPanics, trace_vars
    <2>. QED  BY <2>1, SharedFacts, BudgetReleased
  <1>8. CASE ShipperReleases
    <2>1. in_flight # <<>> /\ stack' = stack
          /\ bytes_in_memory' = bytes_in_memory - Head(in_flight).size_estimate
      BY <1>8 DEF ShipperReleases, trace_vars
    <2>2. Head(in_flight).size_estimate \in Nat
      <3>1. Head(in_flight) \in Batches
        BY <2>1, SharedFacts, HeadTailProperties
      <3>. QED  BY <3>1 DEF Batches
    <2>. QED  BY <2>1, <2>2, SharedFacts, BudgetReleased
  <1>9. CASE UNCHANGED vars
    <2>1. stack' = stack /\ bytes_in_memory' = bytes_in_memory
      BY <1>9 DEF vars, trace_vars, shared_vars
    <2>. QED  BY <2>1, SharedFacts, BudgetReleased
  <1>. QED  BY <1>1, <1>2, <1>3, <1>4, <1>5, <1>6, <1>7, <1>8, <1>9
            DEF Next, RequestThread, Shipper, End

\* The cap is soft, but not unboundedly: whatever the interleaving of
\* requests, refusals and shipper steps, the budget overshoots
\* buffer_cap_bytes by at most one record per frame that max_depth allows.
THEOREM BudgetBounded == Spec => []BudgetBound
  <1>1. Init => BudgetBound
    BY ConfigFacts DEF Init, EmptyTrace, BudgetBound, CALL_RECORD_FIXED_BYTES
  <1>2. TypeOK /\ StackInv /\ BudgetBound /\ [Next]_vars => BudgetBound'
    BY BudgetStep
  <1>3. Init => StackInv
    BY StackInit
  <1>4. TypeOK /\ StackInv /\ [Next]_vars => StackInv'
    BY StackStep
  <1>. QED  BY <1>1, <1>2, <1>3, <1>4, TypeCorrect, PTL DEF Spec

-----------------------------------------------------------------------------
(* An end and RSHUTDOWN, case by case: a batch goes out, or none does.     *)

\* The record an accepted end makes of the top frame.
EndRecord(threw) == RecordOf(Last(stack), now, threw)

LEMMA EndCases ==
    ASSUME TypeOK, LifoCount, NEW threw \in Throws, EndAccepted(threw)
    PROVE  LET calls == Append(buffer, EndRecord(threw))
               size  == buffer_estimated_bytes + CALL_RECORD_FIXED_BYTES
               bytes == bytes_in_memory + CALL_RECORD_FIXED_BYTES
           IN /\ EngineEnds /\ dropped_begins = 0 /\ dropped_begins' = 0
              /\ trace_live /\ refused = <<>>
              /\ stack # <<>> /\ stack' = Front(stack)
              /\ EndRecord(threw) \in Records /\ calls \in Seq(Records)
              /\ size \in Nat /\ bytes \in Int /\ PendingBatch(calls, size) \in Batches
              /\ \/ /\ buffer' = <<>> /\ new_entries' = <<>> /\ buffer_estimated_bytes' = 0
                    /\ TrySendBatch(PendingBatch(calls, size), bytes)
                 \/ /\ buffer' = calls /\ buffer_estimated_bytes' = size
                    /\ bytes_in_memory' = bytes
                    /\ UNCHANGED <<new_entries, queue, refused, flushed, fate>>
  <1>. DEFINE calls == Append(buffer, EndRecord(threw))
              size  == buffer_estimated_bytes + CALL_RECORD_FIXED_BYTES
              bytes == bytes_in_memory + CALL_RECORD_FIXED_BYTES
  <1>1. EngineEnds /\ dropped_begins = 0 /\ dropped_begins' = 0
    BY DEF EndAccepted
  <1>2. trace_live /\ refused = <<>>
    BY <1>1, TypeEngineEnds
  <1>3. stack # <<>>
    <2>1. Len(stack) >= 1
      BY <1>1, EndShape, StackNumbers DEF LifoCount
    <2>. QED  BY <2>1
  <1>4. stack' = Front(stack)
    BY <1>3 DEF EndAccepted
  <1>5. EndRecord(threw) \in Records
    <2>1. Last(stack) \in Frames /\ threw \in BOOLEAN /\ now \in Nat
      BY <1>3, StackFacts, FrontProperties, ConfigFacts
    <2>. QED  BY <2>1, TypeRecordOf DEF EndRecord
  <1>6. /\ buffer \in Seq(Records) /\ buffer_estimated_bytes \in Nat /\ bytes_in_memory \in Int
    BY DEF TypeOK, TraceTypeOK, SharedTypeOK
  <1>7. calls \in Seq(Records)
    BY <1>5, <1>6, AppendProperties
  <1>8. size \in Nat /\ bytes \in Int
    BY <1>6 DEF CALL_RECORD_FIXED_BYTES
  <1>9. PendingBatch(calls, size) \in Batches
    BY <1>2, <1>7, <1>8, TypePendingBatch
  <1>10. CASE FlushDue(calls, size)
    <2>1. /\ buffer' = <<>> /\ new_entries' = <<>> /\ buffer_estimated_bytes' = 0
          /\ TrySendBatch(PendingBatch(calls, size), bytes)
      BY <1>3, <1>10 DEF EndAccepted, EndRecord
    <2>. QED  BY <1>1, <1>2, <1>3, <1>4, <1>5, <1>7, <1>8, <1>9, <2>1
  <1>11. CASE ~FlushDue(calls, size)
    <2>1. /\ buffer' = calls /\ buffer_estimated_bytes' = size
          /\ bytes_in_memory' = bytes
          /\ UNCHANGED <<new_entries, queue, refused, flushed, fate>>
      BY <1>3, <1>11 DEF EndAccepted, EndRecord
    <2>. QED  BY <1>1, <1>2, <1>3, <1>4, <1>5, <1>7, <1>8, <1>9, <2>1
  <1>. QED  BY <1>10, <1>11

LEMMA ShutdownCases ==
    ASSUME TypeOK, RShutdown
    PROVE  LET calls == buffer \o DrainedRecords
               added == CALL_RECORD_FIXED_BYTES * Len(stack)
               size  == buffer_estimated_bytes + added
               bytes == bytes_in_memory + added
           IN /\ trace_live /\ refused = <<>>
              /\ DrainedRecords \in Seq(Records) /\ Len(DrainedRecords) = Len(stack)
              /\ calls \in Seq(Records) /\ Len(calls) = Len(buffer) + Len(stack)
              /\ added \in Nat /\ size \in Nat /\ bytes \in Int
              /\ PendingBatch(calls, size) \in Batches
              /\ ~trace_live' /\ ResetTrace
              /\ UNCHANGED <<request, begun, drop_counter, channel, in_flight, counted>>
              /\ \/ TrySendBatch(PendingBatch(calls, size), bytes)
                 \/ /\ Len(calls) = 0
                    /\ bytes_in_memory' = bytes - size
                    /\ UNCHANGED <<queue, refused, flushed, fate>>
  <1>. DEFINE calls == buffer \o DrainedRecords
              added == CALL_RECORD_FIXED_BYTES * Len(stack)
              size  == buffer_estimated_bytes + added
              bytes == bytes_in_memory + added
  <1>1. trace_live /\ refused = <<>>
    BY Zenon DEF RShutdown, OnRequestThread
  <1>2. /\ buffer \in Seq(Records) /\ buffer_estimated_bytes \in Nat /\ bytes_in_memory \in Int
        /\ Len(stack) \in Nat
    BY StackNumbers DEF TypeOK, TraceTypeOK, SharedTypeOK
  <1>3. DrainedRecords \in Seq(Records)
    BY TypeDrainedRecords
  <1>4. Len(DrainedRecords) = Len(stack)
    BY <1>2 DEF DrainedRecords
  <1>5. calls \in Seq(Records) /\ Len(calls) = Len(buffer) + Len(stack)
    <2>. DEFINE drained == DrainedRecords
    <2>1. drained \in Seq(Records) /\ Len(drained) = Len(stack)
      BY <1>3, <1>4
    <2>. HIDE DEF drained
    <2>2. buffer \o drained \in Seq(Records) /\ Len(buffer \o drained) = Len(buffer) + Len(drained)
      BY <1>2, <2>1, ConcatProperties
    <2>. QED  BY <2>1, <2>2 DEF drained
  <1>6. added \in Nat
    BY <1>2 DEF CALL_RECORD_FIXED_BYTES
  <1>. HIDE DEF added
  <1>7. size \in Nat /\ bytes \in Int
    BY <1>2, <1>6
  <1>8. PendingBatch(calls, size) \in Batches
    BY <1>1, <1>5, <1>7, TypePendingBatch
  <1>9. ~trace_live' /\ ResetTrace
        /\ UNCHANGED <<request, begun, drop_counter, channel, in_flight, counted>>
    BY Zenon DEF RShutdown
  <1>10. CASE calls # <<>>
    <2>1. TrySendBatch(PendingBatch(calls, size), bytes)
      BY <1>10 DEF RShutdown, added
    <2>. QED  BY <1>1, <1>3, <1>4, <1>5, <1>6, <1>7, <1>8, <1>9, <2>1 DEF added
  <1>11. CASE calls = <<>>
    <2>1. bytes_in_memory' = bytes - size /\ UNCHANGED <<queue, refused, flushed, fate>>
      BY <1>11 DEF RShutdown, added
    <2>2. Len(calls) = 0
      BY <1>11
    <2>. QED  BY <1>1, <1>3, <1>4, <1>5, <1>6, <1>7, <1>8, <1>9, <2>1, <2>2 DEF added
  <1>. QED  BY <1>10, <1>11

\* Everything try_send_batch leaves behind.
LEMMA SendShape ==
    ASSUME TypeOK, NEW batch \in Batches, NEW bytes \in Int, refused = <<>>,
           TrySendBatch(batch, bytes)
    PROVE  LET m == Len(flushed) + 1
           IN /\ Len(flushed) \in Nat /\ Len(queue) \in Nat
              /\ flushed' \in Seq(Batches) /\ Len(flushed') = m /\ flushed'[m] = batch
              /\ Len(fate') = m
              /\ \A i \in 1..Len(flushed) : flushed'[i] = flushed[i] /\ fate'[i] = fate[i]
              /\ \/ /\ channel = "open" /\ fate'[m] = "queued"
                    /\ Len(queue') = Len(queue) + 1 /\ queue'[Len(queue) + 1] = batch
                    /\ \A k \in 1..Len(queue) : queue'[k] = queue[k]
                    /\ refused' = <<>> /\ bytes_in_memory' = bytes
                 \/ /\ channel = "open" /\ fate'[m] = "refusing"
                    /\ queue' = queue /\ refused' = <<batch>> /\ bytes_in_memory' = bytes
                 \/ /\ channel # "open" /\ fate'[m] = "unsent"
                    /\ queue' = queue /\ refused' = <<>>
                    /\ bytes_in_memory' = bytes - batch.size_estimate
  <1>. DEFINE m == Len(flushed) + 1
  <1>1. /\ flushed \in Seq(Batches) /\ fate \in Seq(Fates) /\ Len(fate) = Len(flushed)
        /\ queue \in Seq(Batches) /\ Len(flushed) \in Nat /\ Len(queue) \in Nat
    BY SharedFacts, LenProperties
  <1>2. ASSUME NEW what \in Fates, Flushed(batch, what)
        PROVE  /\ flushed' \in Seq(Batches) /\ Len(flushed') = m /\ flushed'[m] = batch
               /\ Len(fate') = m /\ fate'[m] = what
               /\ \A i \in 1..Len(flushed) : flushed'[i] = flushed[i] /\ fate'[i] = fate[i]
    BY <1>1, <1>2, AppendProperties DEF Flushed
  <1>3. "queued" \in Fates /\ "refusing" \in Fates /\ "unsent" \in Fates
    BY DEF Fates
  <1>4. CASE /\ channel = "open" /\ Len(queue) < QueueDepth
             /\ queue' = Append(queue, batch)
             /\ bytes_in_memory' = bytes
             /\ Flushed(batch, "queued")
             /\ UNCHANGED refused
    <2>1. Len(queue') = Len(queue) + 1 /\ queue'[Len(queue) + 1] = batch
          /\ \A k \in 1..Len(queue) : queue'[k] = queue[k]
      BY <1>1, <1>4, AppendProperties
    <2>. QED  BY <1>1, <1>2, <1>3, <1>4, <2>1
  <1>5. CASE /\ channel = "open" /\ Len(queue) >= QueueDepth
             /\ refused' = <<batch>>
             /\ bytes_in_memory' = bytes
             /\ Flushed(batch, "refusing")
             /\ UNCHANGED queue
    BY <1>1, <1>2, <1>3, <1>5
  <1>6. CASE /\ channel \in {"no_sender", "disconnected"}
             /\ bytes_in_memory' = bytes - batch.size_estimate
             /\ Flushed(batch, "unsent")
             /\ UNCHANGED <<queue, refused>>
    BY <1>1, <1>2, <1>3, <1>6
  <1>. QED  BY <1>4, <1>5, <1>6 DEF TrySendBatch

\* What history and shared state undergo: nothing, a flush, or one of the
\* steps on a batch that already is in the history.
LEMMA StepKinds ==
    ASSUME TypeOK, LifoCount, [Next]_vars
    PROVE  \/ UNCHANGED <<channel, queue, refused, in_flight, counted, flushed, fate>>
           \/ /\ \E batch \in Batches, bytes \in Int :
                    batch.no = Len(flushed) + 1 /\ TrySendBatch(batch, bytes)
              /\ refused = <<>> /\ UNCHANGED <<channel, in_flight, counted, drop_counter>>
           \/ DiscardRefused
           \/ ShipperReceives \/ ShipperCountsDrop \/ ShipperReleases \/ ShipperPanics
  <1>1. CASE RInit
    BY <1>1 DEF RInit, shared_vars
  <1>2. CASE Begin
    BY <1>2 DEF Begin, BeginDroppedByDepth, BeginDroppedByCap, BeginAccepted, EngineBegins
  <1>3. CASE EndOfDroppedBegin
    BY <1>3 DEF EndOfDroppedBegin, EngineEnds
  <1>4. ASSUME NEW threw \in Throws, EndAccepted(threw)
        PROVE  \/ UNCHANGED <<channel, queue, refused, in_flight, counted, flushed, fate>>
               \/ /\ \E batch \in Batches, bytes \in Int :
                        batch.no = Len(flushed) + 1 /\ TrySendBatch(batch, bytes)
                  /\ refused = <<>> /\ UNCHANGED <<channel, in_flight, counted, drop_counter>>
    <2>. DEFINE batch == PendingBatch(Append(buffer, EndRecord(threw)),
                                      buffer_estimated_bytes + CALL_RECORD_FIXED_BYTES)
    <2>1. batch.no = Len(flushed) + 1
      BY DEF PendingBatch
    <2>2. UNCHANGED <<channel, in_flight, counted, drop_counter>>
      BY <1>4, Zenon DEF EndAccepted, EngineEnds
    <2>. HIDE DEF batch
    <2>. QED  BY <1>4, <2>1, <2>2, EndCases DEF batch
  <1>5. CASE RShutdown
    <2>. DEFINE batch == PendingBatch(buffer \o DrainedRecords,
                            buffer_estimated_bytes + CALL_RECORD_FIXED_BYTES * Len(stack))
    <2>1. batch.no = Len(flushed) + 1
      BY DEF PendingBatch
    <2>. HIDE DEF batch
    <2>. QED  BY <1>5, <2>1, ShutdownCases DEF batch
  <1>6. CASE UNCHANGED vars
    BY <1>6 DEF vars, shared_vars
  <1>. QED  BY <1>1, <1>2, <1>3, <1>4, <1>5, <1>6 DEF Next, RequestThread, Shipper, End

-----------------------------------------------------------------------------
(* Nothing is staged where nothing can be: outside a request, or when no   *)
(* frame and no record is there to name the function an entry announces.   *)

\* Between requests there is no trace.
IdleInv ==
    ~trace_live => /\ stack = <<>> /\ buffer = <<>> /\ new_entries = <<>>
                   /\ buffer_estimated_bytes = 0

\* An entry comes with a frame, and the frame's record with the entry's batch
\* or later.
StagedInv == stack = <<>> /\ buffer = <<>> => new_entries = <<>>

LEMMA IdleInit == Init => IdleInv
  BY DEF Init, EmptyTrace, IdleInv

LEMMA IdleStep ==
    ASSUME TypeOK, IdleInv, [Next]_vars
    PROVE  IdleInv'
  <1>1. CASE RInit
    BY <1>1, Zenon DEF RInit, IdleInv
  <1>2. CASE Begin
    <2>1. PICK fn \in Functions : EngineBegins(fn)
      BY <1>2 DEF Begin, BeginDroppedByDepth, BeginDroppedByCap, BeginAccepted
    <2>2. trace_live'
      BY <2>1, Zenon DEF EngineBegins, OnRequestThread
    <2>. QED  BY <2>2, Zenon DEF IdleInv
  <1>3. CASE End
    <2>1. EngineEnds
      BY <1>3 DEF End, EndOfDroppedBegin, EndAccepted
    <2>2. trace_live'
      BY <2>1, Zenon DEF EngineEnds, OnRequestThread
    <2>. QED  BY <2>2, Zenon DEF IdleInv
  <1>4. CASE RShutdown
    BY <1>4, ShutdownCases DEF ResetTrace, IdleInv
  <1>5. CASE DiscardRefused \/ Shipper \/ UNCHANGED vars
    <2>1. UNCHANGED trace_vars
      BY <1>5, Zenon DEF DiscardRefused, Shipper, ShipperReceives, ShipperCountsDrop,
                         ShipperReleases, ShipperPanics, vars
    <2>2. (trace_live' <=> trace_live)
          /\ UNCHANGED <<stack, buffer, new_entries, buffer_estimated_bytes>>
      BY <2>1, Zenon DEF trace_vars
    <2>. QED  BY <2>2, Zenon DEF IdleInv
  <1>. QED  BY <1>1, <1>2, <1>3, <1>4, <1>5 DEF Next, RequestThread

LEMMA StagedInit == Init => StagedInv
  BY DEF Init, EmptyTrace, StagedInv

LEMMA StagedStep ==
    ASSUME TypeOK, LifoCount, StagedInv, [Next]_vars
    PROVE  StagedInv'
  <1>1. CASE RInit
    BY <1>1 DEF RInit, ResetTrace, StagedInv
  <1>2. CASE Begin
    <2>1. PICK fn \in Functions :
              BeginDroppedByDepth(fn) \/ BeginDroppedByCap(fn) \/ BeginAccepted(fn)
      BY <1>2 DEF Begin
    <2>2. CASE BeginDroppedByDepth(fn) \/ BeginDroppedByCap(fn)
      <3>1. UNCHANGED <<stack, buffer, new_entries>>
        BY <2>2 DEF BeginDroppedByDepth, BeginDroppedByCap, EngineBegins, RecordDrop
      <3>. QED  BY <3>1 DEF StagedInv
    <2>3. CASE BeginAccepted(fn)
      <3>1. PICK frame : stack' = Append(stack, frame)
        BY <2>3 DEF BeginAccepted
      <3>2. stack \in Seq(Frames)
        BY StackFacts
      <3>3. stack' # <<>>
        BY <3>1, <3>2
      <3>. QED  BY <3>3 DEF StagedInv
    <2>. QED  BY <2>1, <2>2, <2>3
  <1>3. CASE EndOfDroppedBegin
    BY <1>3 DEF EndOfDroppedBegin, StagedInv
  <1>4. ASSUME NEW threw \in Throws, EndAccepted(threw)
        PROVE  StagedInv'
    <2>1. \/ new_entries' = <<>>
          \/ buffer' = Append(buffer, EndRecord(threw))
      BY <1>4, EndCases
    <2>2. buffer \in Seq(Records) /\ EndRecord(threw) \in Records
      BY <1>4, EndCases DEF TypeOK, TraceTypeOK
    <2>3. Append(buffer, EndRecord(threw)) # <<>>
      BY <2>2, AppendProperties
    <2>. QED  BY <2>1, <2>3 DEF StagedInv
  <1>5. CASE RShutdown
    BY <1>5, ShutdownCases DEF ResetTrace, StagedInv
  <1>6. CASE DiscardRefused \/ Shipper \/ UNCHANGED vars
    <2>1. UNCHANGED <<stack, buffer, new_entries>>
      BY <1>6 DEF DiscardRefused, Shipper, ShipperReceives, ShipperCountsDrop,
                  ShipperReleases, ShipperPanics, vars, trace_vars
    <2>. QED  BY <2>1 DEF StagedInv
  <1>. QED  BY <1>1, <1>2, <1>3, <1>4, <1>5, <1>6 DEF Next, RequestThread, End
-----------------------------------------------------------------------------
(* Where the records and the dictionary entries of a trace are.  The batch *)
(* the live trace stages is the next one: a flush moves nothing, an end or *)
(* RSHUTDOWN adds places behind all others.                                *)

CallPlace(r, b, i) ==
    \/ b \in 1..Len(flushed) /\ flushed[b].trace = r /\ i \in 1..Len(flushed[b].calls)
    \/ b = Len(flushed) + 1 /\ IsCurrent(r) /\ i \in 1..Len(buffer)

EntryPlace(r, b, i) ==
    \/ b \in 1..Len(flushed) /\ flushed[b].trace = r /\ i \in 1..Len(flushed[b].dict)
    \/ b = Len(flushed) + 1 /\ IsCurrent(r) /\ i \in 1..Len(new_entries)

\* The types the lemmas below use.
LEMMA PlaceTypes ==
    ASSUME TypeOK
    PROVE  /\ Len(flushed) \in Nat /\ DOMAIN flushed = 1..Len(flushed)
           /\ Len(buffer) \in Nat /\ DOMAIN buffer = 1..Len(buffer)
           /\ Len(new_entries) \in Nat /\ DOMAIN new_entries = 1..Len(new_entries)
           /\ \A i \in 1..Len(buffer) : buffer[i] \in Records
           /\ \A i \in 1..Len(new_entries) : new_entries[i] \in DictEntries
           /\ \A b \in 1..Len(flushed) :
                /\ Len(flushed[b].calls) \in Nat
                /\ DOMAIN flushed[b].calls = 1..Len(flushed[b].calls)
                /\ \A i \in 1..Len(flushed[b].calls) : flushed[b].calls[i] \in Records
                /\ Len(flushed[b].dict) \in Nat
                /\ DOMAIN flushed[b].dict = 1..Len(flushed[b].dict)
                /\ \A i \in 1..Len(flushed[b].dict) : flushed[b].dict[i] \in DictEntries
  <1>1. /\ flushed \in Seq(Batches) /\ buffer \in Seq(Records)
        /\ new_entries \in Seq(DictEntries)
    BY DEF TypeOK, TraceTypeOK, SharedTypeOK
  <1>2. \A b \in 1..Len(flushed) :
            flushed[b].calls \in Seq(Records) /\ flushed[b].dict \in Seq(DictEntries)
    <2>. TAKE b \in 1..Len(flushed)
    <2>1. flushed[b] \in Batches
      BY <1>1, ElementOfSeq
    <2>. QED  BY <2>1 DEF Batches
  <1>. QED  BY <1>1, <1>2, LenProperties, ElementOfSeq

\* Places are what these say, and where a record or an entry is found there.
LEMMA PlacesAre ==
    ASSUME TypeOK, NEW r
    PROVE  /\ \A p \in CallPlaces(r) : \E b, i : p = <<b, i>> /\ CallPlace(r, b, i)
           /\ \A b, i : CallPlace(r, b, i) => <<b, i>> \in CallPlaces(r)
           /\ \A p \in EntryPlaces(r) : \E b, i : p = <<b, i>> /\ EntryPlace(r, b, i)
           /\ \A b, i : EntryPlace(r, b, i) => <<b, i>> \in EntryPlaces(r)
  <1>0. Len(flushed) \in Nat /\ Len(flushed) + 1 \notin 1..Len(flushed)
    BY PlaceTypes
  <1>1. \A b : b \in BatchesOf(r) <=> \/ b \in 1..Len(flushed) /\ flushed[b].trace = r
                                      \/ b = Len(flushed) + 1 /\ IsCurrent(r)
    BY PlaceTypes DEF BatchesOf, Staged
  <1>2. /\ DOMAIN CallsOf(Len(flushed) + 1) = 1..Len(buffer)
        /\ DOMAIN DictOf(Len(flushed) + 1) = 1..Len(new_entries)
        /\ \A b \in 1..Len(flushed) : /\ DOMAIN CallsOf(b) = 1..Len(flushed[b].calls)
                                      /\ DOMAIN DictOf(b) = 1..Len(flushed[b].dict)
    BY <1>0, PlaceTypes DEF CallsOf, DictOf, Staged
  <1>3. \A p : p \in CallPlaces(r) <=>
                \E b \in BatchesOf(r) : \E i \in DOMAIN CallsOf(b) : p = <<b, i>>
    BY DEF CallPlaces
  <1>4. \A p : p \in EntryPlaces(r) <=>
                \E b \in BatchesOf(r) : \E i \in DOMAIN DictOf(b) : p = <<b, i>>
    BY DEF EntryPlaces
  <1>5. \A b, i : CallPlace(r, b, i) <=> b \in BatchesOf(r) /\ i \in DOMAIN CallsOf(b)
    BY <1>0, <1>1, <1>2 DEF CallPlace
  <1>6. \A b, i : EntryPlace(r, b, i) <=> b \in BatchesOf(r) /\ i \in DOMAIN DictOf(b)
    BY <1>0, <1>1, <1>2 DEF EntryPlace
  <1>. QED  BY <1>3, <1>4, <1>5, <1>6

LEMMA PlacesWillBe ==
    TypeOK' => \A r :
        /\ \A p \in CallPlaces(r)' : \E b, i : p = <<b, i>> /\ CallPlace(r, b, i)'
        /\ \A b, i : CallPlace(r, b, i)' => <<b, i>> \in CallPlaces(r)'
        /\ \A p \in EntryPlaces(r)' : \E b, i : p = <<b, i>> /\ EntryPlace(r, b, i)'
        /\ \A b, i : EntryPlace(r, b, i)' => <<b, i>> \in EntryPlaces(r)'
  <1>. DEFINE Facts == \A r :
            /\ \A p \in CallPlaces(r) : \E b, i : p = <<b, i>> /\ CallPlace(r, b, i)
            /\ \A b, i : CallPlace(r, b, i) => <<b, i>> \in CallPlaces(r)
            /\ \A p \in EntryPlaces(r) : \E b, i : p = <<b, i>> /\ EntryPlace(r, b, i)
            /\ \A b, i : EntryPlace(r, b, i) => <<b, i>> \in EntryPlaces(r)
  <1>1. TypeOK => Facts
    BY PlacesAre
  <1>2. TypeOK' => Facts'
    BY <1>1, PTL
  <1>. QED  BY <1>2

\* What is found at a place.
LEMMA FoundAt ==
    ASSUME TypeOK, NEW r, NEW b, NEW i
    PROVE  /\ CallPlace(r, b, i) =>
                /\ b \in Nat \ {0} /\ b <= Len(flushed) + 1 /\ i \in Nat \ {0}
                /\ CallAt(<<b, i>>) \in Records
                /\ CallAt(<<b, i>>) = IF b = Len(flushed) + 1 THEN buffer[i]
                                      ELSE flushed[b].calls[i]
           /\ EntryPlace(r, b, i) =>
                /\ b \in Nat \ {0} /\ b <= Len(flushed) + 1 /\ i \in Nat \ {0}
                /\ EntryAt(<<b, i>>) \in DictEntries
                /\ EntryAt(<<b, i>>) = IF b = Len(flushed) + 1 THEN new_entries[i]
                                       ELSE flushed[b].dict[i]
  <1>0. Len(flushed) \in Nat /\ Len(flushed) + 1 \notin 1..Len(flushed)
    BY PlaceTypes
  <1>1. /\ CallAt(<<b, i>>) = IF b = Len(flushed) + 1 THEN buffer[i] ELSE flushed[b].calls[i]
        /\ EntryAt(<<b, i>>) = IF b = Len(flushed) + 1 THEN new_entries[i] ELSE flushed[b].dict[i]
    BY DEF CallAt, EntryAt, CallsOf, DictOf, Staged
  <1>2. ASSUME CallPlace(r, b, i)
        PROVE  /\ b \in Nat \ {0} /\ b <= Len(flushed) + 1 /\ i \in Nat \ {0}
               /\ CallAt(<<b, i>>) \in Records
    <2>1. CASE b \in 1..Len(flushed) /\ i \in 1..Len(flushed[b].calls)
      BY <1>0, <1>1, <2>1, PlaceTypes
    <2>2. CASE b = Len(flushed) + 1 /\ i \in 1..Len(buffer)
      BY <1>0, <1>1, <2>2, PlaceTypes
    <2>. QED  BY <1>2, <2>1, <2>2 DEF CallPlace
  <1>3. ASSUME EntryPlace(r, b, i)
        PROVE  /\ b \in Nat \ {0} /\ b <= Len(flushed) + 1 /\ i \in Nat \ {0}
               /\ EntryAt(<<b, i>>) \in DictEntries
    <2>1. CASE b \in 1..Len(flushed) /\ i \in 1..Len(flushed[b].dict)
      BY <1>0, <1>1, <2>1, PlaceTypes
    <2>2. CASE b = Len(flushed) + 1 /\ i \in 1..Len(new_entries)
      BY <1>0, <1>1, <2>2, PlaceTypes
    <2>. QED  BY <1>3, <2>1, <2>2 DEF EntryPlace
  <1>. QED  BY <1>1, <1>2, <1>3

\* What the live trace had staged stays staged, goes out in a batch, or was
\* nothing; calls and dict are what it stages by then.
Moved(calls, dict) ==
    \/ UNCHANGED flushed /\ buffer' = calls /\ new_entries' = dict /\ trace_live'
    \/ /\ Len(flushed') = Len(flushed) + 1
       /\ \A i \in 1..Len(flushed) : flushed'[i] = flushed[i]
       /\ flushed'[Len(flushed) + 1].trace = request
       /\ flushed'[Len(flushed) + 1].calls = calls
       /\ flushed'[Len(flushed) + 1].dict = dict
       /\ buffer' = <<>> /\ new_entries' = <<>>
    \/ UNCHANGED flushed /\ Len(calls) = 0 /\ Len(dict) = 0 /\ ~trace_live'

\* The places after the step: those before it and n behind the buffer.
LEMMA CallsMoved ==
    ASSUME TypeOK, trace_live, UNCHANGED request, NEW calls \in Seq(Records), NEW dict,
           NEW n \in Nat, Len(calls) = Len(buffer) + n,
           \A i \in 1..Len(buffer) : calls[i] = buffer[i], Moved(calls, dict)
    PROVE  \A r, b, i :
            /\ CallPlace(r, b, i)' <=>
                    \/ CallPlace(r, b, i)
                    \/ r = request /\ b = Len(flushed) + 1 /\ i \in (Len(buffer) + 1)..(Len(buffer) + n)
            /\ CallPlace(r, b, i) => CallAt(<<b, i>>)' = CallAt(<<b, i>>)
            /\ (b = Len(flushed) + 1 /\ i \in (Len(buffer) + 1)..(Len(buffer) + n))
                    => CallAt(<<b, i>>)' = calls[i]
  <1>. TAKE r, b, i
  <1>. DEFINE m == Len(flushed) + 1
  <1>0. Len(flushed) \in Nat /\ Len(buffer) \in Nat /\ m \notin 1..Len(flushed)
        /\ (IsCurrent(r) <=> r = request)
    <2>1. IsCurrent(r) <=> r = request
      BY Zenon DEF IsCurrent
    <2>2. Len(flushed) \in Nat /\ Len(buffer) \in Nat
      BY PlaceTypes
    <2>. QED  BY <2>1, <2>2
  <1>1. /\ CallAt(<<b, i>>) = IF b = m THEN buffer[i] ELSE flushed[b].calls[i]
        /\ CallAt(<<b, i>>)' = IF b = Len(flushed') + 1 THEN buffer'[i] ELSE flushed'[b].calls[i]
    BY DEF CallAt, CallsOf, Staged
  <1>2. CallPlace(r, b, i) <=>
            \/ b \in 1..Len(flushed) /\ flushed[b].trace = r /\ i \in 1..Len(flushed[b].calls)
            \/ b = m /\ r = request /\ i \in 1..Len(buffer)
    BY <1>0 DEF CallPlace
  <1>3. CallPlace(r, b, i)' <=>
            \/ b \in 1..Len(flushed') /\ flushed'[b].trace = r /\ i \in 1..Len(flushed'[b].calls)
            \/ b = Len(flushed') + 1 /\ IsCurrent(r)' /\ i \in 1..Len(buffer')
    BY DEF CallPlace
  <1>4. i \in 1..Len(calls) <=> i \in 1..Len(buffer) \/ i \in (Len(buffer) + 1)..(Len(buffer) + n)
    BY <1>0
  <1>5. CASE UNCHANGED flushed /\ buffer' = calls /\ trace_live'
    <2>1. IsCurrent(r)' <=> r = request
      BY <1>5, Zenon DEF IsCurrent
    <2>. QED  BY <1>0, <1>1, <1>2, <1>3, <1>4, <1>5, <2>1
  <1>6. CASE /\ Len(flushed') = m
             /\ \A k \in 1..Len(flushed) : flushed'[k] = flushed[k]
             /\ flushed'[m].trace = request
             /\ flushed'[m].calls = calls
             /\ buffer' = <<>>
    <2>1. b \in 1..Len(flushed') <=> b \in 1..Len(flushed) \/ b = m
      BY <1>0, <1>6
    <2>2. ~(i \in 1..Len(buffer'))
      BY <1>6
    <2>3. CallPlace(r, b, i)' <=>
            \/ b \in 1..Len(flushed) /\ flushed[b].trace = r /\ i \in 1..Len(flushed[b].calls)
            \/ b = m /\ r = request /\ i \in 1..Len(calls)
      BY <1>0, <1>3, <1>6, <2>1, <2>2
    <2>4. b \in 1..Len(flushed) => b # m /\ b # m + 1
      BY <1>0
    <2>5. m # m + 1
      BY <1>0
    <2>. QED  BY <1>1, <1>2, <1>4, <1>6, <2>3, <2>4, <2>5
  <1>7. CASE UNCHANGED flushed /\ Len(calls) = 0 /\ ~trace_live'
    <2>1. ~IsCurrent(r)'
      BY <1>7, Zenon DEF IsCurrent
    <2>2. ~(i \in 1..Len(calls))
      BY <1>7
    <2>. QED  BY <1>0, <1>1, <1>2, <1>3, <1>4, <1>7, <2>1, <2>2
  <1>. QED  BY <1>5, <1>6, <1>7 DEF Moved

LEMMA EntriesMoved ==
    ASSUME TypeOK, trace_live, UNCHANGED request, NEW calls, NEW dict \in Seq(DictEntries),
           NEW n \in Nat, Len(dict) = Len(new_entries) + n,
           \A i \in 1..Len(new_entries) : dict[i] = new_entries[i], Moved(calls, dict)
    PROVE  \A r, b, i :
            /\ EntryPlace(r, b, i)' <=>
                    \/ EntryPlace(r, b, i)
                    \/ /\ r = request /\ b = Len(flushed) + 1
                       /\ i \in (Len(new_entries) + 1)..(Len(new_entries) + n)
            /\ EntryPlace(r, b, i) => EntryAt(<<b, i>>)' = EntryAt(<<b, i>>)
            /\ (b = Len(flushed) + 1 /\ i \in (Len(new_entries) + 1)..(Len(new_entries) + n))
                    => EntryAt(<<b, i>>)' = dict[i]
  <1>. TAKE r, b, i
  <1>. DEFINE m == Len(flushed) + 1
  <1>0. Len(flushed) \in Nat /\ Len(new_entries) \in Nat /\ m \notin 1..Len(flushed)
        /\ (IsCurrent(r) <=> r = request)
    <2>1. IsCurrent(r) <=> r = request
      BY Zenon DEF IsCurrent
    <2>2. Len(flushed) \in Nat /\ Len(new_entries) \in Nat
      BY PlaceTypes
    <2>. QED  BY <2>1, <2>2
  <1>1. /\ EntryAt(<<b, i>>) = IF b = m THEN new_entries[i] ELSE flushed[b].dict[i]
        /\ EntryAt(<<b, i>>)' = IF b = Len(flushed') + 1 THEN new_entries'[i]
                                ELSE flushed'[b].dict[i]
    BY DEF EntryAt, DictOf, Staged
  <1>2. EntryPlace(r, b, i) <=>
            \/ b \in 1..Len(flushed) /\ flushed[b].trace = r /\ i \in 1..Len(flushed[b].dict)
            \/ b = m /\ r = request /\ i \in 1..Len(new_entries)
    BY <1>0 DEF EntryPlace
  <1>3. EntryPlace(r, b, i)' <=>
            \/ b \in 1..Len(flushed') /\ flushed'[b].trace = r /\ i \in 1..Len(flushed'[b].dict)
            \/ b = Len(flushed') + 1 /\ IsCurrent(r)' /\ i \in 1..Len(new_entries')
    BY DEF EntryPlace
  <1>4. i \in 1..Len(dict) <=>
            i \in 1..Len(new_entries) \/ i \in (Len(new_entries) + 1)..(Len(new_entries) + n)
    BY <1>0
  <1>5. CASE UNCHANGED flushed /\ new_entries' = dict /\ trace_live'
    <2>1. IsCurrent(r)' <=> r = request
      BY <1>5, Zenon DEF IsCurrent
    <2>. QED  BY <1>0, <1>1, <1>2, <1>3, <1>4, <1>5, <2>1
  <1>6. CASE /\ Len(flushed') = m
             /\ \A k \in 1..Len(flushed) : flushed'[k] = flushed[k]
             /\ flushed'[m].trace = request
             /\ flushed'[m].dict = dict
             /\ new_entries' = <<>>
    <2>1. b \in 1..Len(flushed') <=> b \in 1..Len(flushed) \/ b = m
      BY <1>0, <1>6
    <2>2. ~(i \in 1..Len(new_entries'))
      BY <1>6
    <2>3. EntryPlace(r, b, i)' <=>
            \/ b \in 1..Len(flushed) /\ flushed[b].trace = r /\ i \in 1..Len(flushed[b].dict)
            \/ b = m /\ r = request /\ i \in 1..Len(dict)
      BY <1>0, <1>3, <1>6, <2>1, <2>2
    <2>4. b \in 1..Len(flushed) => b # m /\ b # m + 1
      BY <1>0
    <2>5. m # m + 1
      BY <1>0
    <2>. QED  BY <1>1, <1>2, <1>4, <1>6, <2>3, <2>4, <2>5
  <1>7. CASE UNCHANGED flushed /\ Len(dict) = 0 /\ ~trace_live'
    <2>1. ~IsCurrent(r)'
      BY <1>7, Zenon DEF IsCurrent
    <2>2. ~(i \in 1..Len(dict))
      BY <1>7
    <2>. QED  BY <1>0, <1>1, <1>2, <1>3, <1>4, <1>7, <2>1, <2>2
  <1>. QED  BY <1>5, <1>6, <1>7 DEF Moved

-----------------------------------------------------------------------------
(* The tree.  To the two properties of Recorder the inductive invariant    *)
(* adds that the live trace has issued exactly the ids up to call_id_seq,  *)
(* that no batch is of a request to come, and that no call ends later than *)
(* now.                                                                    *)

TracesInv == \A b \in 1..Len(flushed) : flushed[b].trace <= request

\* The ids a trace has issued, all of them met in a record or an open frame.
Issued(r, n) ==
    /\ IsCurrent(r) => n = call_id_seq
    /\ r > request => n = 0
    /\ \A p \in CallPlaces(r) : CallAt(p).call_id <= n
    /\ \A k \in 1..n : \/ \E p \in CallPlaces(r) : CallAt(p).call_id = k
                       \/ \E i \in 1..Len(stack) : IsCurrent(r) /\ stack[i].call_id = k

IssuedInv == \A r \in Requests : \E n \in 0..begun[r] : Issued(r, n)

\* Each id is met once.
OnceInv ==
    \A r \in Requests : \A p \in CallPlaces(r) :
        /\ \A q \in CallPlaces(r) : CallAt(p).call_id = CallAt(q).call_id => p = q
        /\ \A i \in 1..Len(stack) : IsCurrent(r) => CallAt(p).call_id # stack[i].call_id

EndedInv == \A r \in Requests : \A p \in CallPlaces(r) : CallAt(p).t_out < now

\* The parent's record comes later, or the parent is still open.
ParentOf(r, c, p) ==
    \/ \E i \in 1..Len(stack) :
            IsCurrent(r) /\ stack[i].call_id = c.parent /\ stack[i].t_in < c.t_in
    \/ \E q \in CallPlaces(r) :
            /\ Before(p, q) /\ CallAt(q).call_id = c.parent
            /\ CallAt(q).t_in < c.t_in /\ c.t_out <= CallAt(q).t_out

ParentInv ==
    \A r \in Requests : \A p \in CallPlaces(r) :
        CallAt(p).parent # 0 => ParentOf(r, CallAt(p), p)

\* StackChain says it of neighbours.
FrameIdsGrow ==
    \A i, k \in 1..Len(stack) : i < k => stack[i].call_id < stack[k].call_id

TreeInv == FrameIdsGrow /\ TracesInv /\ IssuedInv /\ OnceInv /\ EndedInv /\ ParentInv

LEMMA TreeIsATree ==
    ASSUME TypeOK, StackChain, TreeInv
    PROVE  RecordsFormATree
  <1>1. \A r : \A i : i \in DOMAIN OpenFrames(r) <=> IsCurrent(r) /\ i \in 1..Len(stack)
    BY StackFacts DEF OpenFrames
  <1>2. \A r : IsCurrent(r) => OpenFrames(r) = stack
    BY DEF OpenFrames
  <1>3. \A r : IdsOf(OpenFrames(r)) = {stack[i].call_id : i \in {j \in 1..Len(stack) : IsCurrent(r)}}
    BY <1>1, <1>2 DEF IdsOf
  <1>4. ASSUME NEW r \in Requests
        PROVE  \E n \in 0..begun[r] :
                    {CallAt(p).call_id : p \in CallPlaces(r)} \cup IdsOf(OpenFrames(r)) = 1..n
    <2>1. PICK n \in 0..begun[r] : Issued(r, n)
      BY DEF TreeInv, IssuedInv
    <2>2. n \in Nat
      BY DEF TypeOK, EnvTypeOK
    <2>3. ASSUME NEW p \in CallPlaces(r)
          PROVE  CallAt(p).call_id \in 1..n
      <3>1. CallAt(p) \in Records
        BY PlacesAre, FoundAt
      <3>2. CallAt(p).call_id \in Nat \ {0} /\ CallAt(p).call_id <= n
        BY <2>1, <3>1 DEF Issued, Records
      <3>. QED  BY <2>2, <3>2
    <2>4. ASSUME NEW k \in IdsOf(OpenFrames(r))
          PROVE  k \in 1..n
      <3>1. PICK i \in 1..Len(stack) : IsCurrent(r) /\ k = stack[i].call_id
        BY <1>3
      <3>2. n = call_id_seq
        BY <2>1, <3>1 DEF Issued
      <3>3. k \in Nat \ {0} /\ k <= n
        BY <3>1, <3>2, StackFacts DEF StackChain
      <3>. QED  BY <2>2, <3>3
    <2>5. ASSUME NEW k \in 1..n
          PROVE  k \in {CallAt(p).call_id : p \in CallPlaces(r)} \cup IdsOf(OpenFrames(r))
      BY <1>3, <2>1 DEF Issued
    <2>6. {CallAt(p).call_id : p \in CallPlaces(r)} \cup IdsOf(OpenFrames(r)) = 1..n
      BY <2>3, <2>4, <2>5
    <2>. QED  BY <2>6
  <1>5. EveryFrameEmittedOnce
    BY <1>3, <1>4 DEF EveryFrameEmittedOnce, TreeInv, OnceInv
  <1>6. ChildrenBeforeParent
    BY <1>1, <1>2 DEF ChildrenBeforeParent, TreeInv, ParentInv, ParentOf
  <1>. QED  BY <1>5, <1>6 DEF RecordsFormATree

\* A step of the live trace t adds n records behind the l of the batch m staged.
Recorded(t, m, l, n, calls, dict) ==
    /\ t = request /\ t = request' /\ m = Staged /\ l = Len(buffer)
    /\ calls \in Seq(Records) /\ n \in Nat /\ Len(calls) = l + n
    /\ \A i \in 1..l : calls[i] = buffer[i]
    /\ Moved(calls, dict)

LEMMA PoppedPlaces ==
    ASSUME TypeOK, TypeOK', trace_live, NEW calls, NEW dict, NEW n, NEW t, NEW m, NEW l,
           Recorded(t, m, l, n, calls, dict)
    PROVE  /\ \A r : \A p \in CallPlaces(r) :
                /\ p \in CallPlaces(r)' /\ CallAt(p)' = CallAt(p)
                /\ \A j \in 1..n : r = t => p # <<m, l + j>> /\ Before(p, <<m, l + j>>)
           /\ \A r : \A p \in CallPlaces(r)' :
                p \in CallPlaces(r) \/ (r = t /\ \E j \in 1..n : p = <<m, l + j>>)
           /\ \A j \in 1..n : <<m, l + j>> \in CallPlaces(t)' /\ CallAt(<<m, l + j>>)' = calls[l + j]
  <1>0. /\ Len(flushed) \in Nat /\ l \in Nat /\ m = Len(flushed) + 1
        /\ l = Len(buffer) /\ n \in Nat
    BY PlaceTypes DEF Staged, Recorded
  <1>1. \A r, b, i :
            /\ CallPlace(r, b, i)' <=>
                    CallPlace(r, b, i) \/ (r = t /\ b = m /\ i \in (l + 1)..(l + n))
            /\ CallPlace(r, b, i) => CallAt(<<b, i>>)' = CallAt(<<b, i>>)
            /\ (b = m /\ i \in (l + 1)..(l + n)) => CallAt(<<b, i>>)' = calls[i]
    <2>1. Len(calls) = Len(buffer) + n /\ (\A i \in 1..Len(buffer) : calls[i] = buffer[i])
          /\ UNCHANGED request /\ calls \in Seq(Records) /\ n \in Nat /\ Moved(calls, dict)
          /\ t = request /\ l = Len(buffer)
      BY DEF Recorded
    <2>2. \A r, b, i :
            /\ CallPlace(r, b, i)' <=>
                    \/ CallPlace(r, b, i)
                    \/ /\ r = request /\ b = Len(flushed) + 1
                       /\ i \in (Len(buffer) + 1)..(Len(buffer) + n)
            /\ CallPlace(r, b, i) => CallAt(<<b, i>>)' = CallAt(<<b, i>>)
            /\ (b = Len(flushed) + 1 /\ i \in (Len(buffer) + 1)..(Len(buffer) + n))
                    => CallAt(<<b, i>>)' = calls[i]
      BY <2>1, CallsMoved
    <2>. QED  BY <1>0, <2>1, <2>2, Zenon
  <1>2. \A i : i \in (l + 1)..(l + n) <=> \E j \in 1..n : i = l + j
    <2>1. ASSUME NEW i \in (l + 1)..(l + n)
          PROVE  \E j \in 1..n : i = l + j
      <3>1. i - l \in 1..n /\ i = l + (i - l)
        BY <1>0
      <3>. QED  BY <3>1
    <2>2. ASSUME NEW j \in 1..n
          PROVE  l + j \in (l + 1)..(l + n)
      BY <1>0
    <2>. QED  BY <2>1, <2>2
  <1>3. ASSUME NEW r, NEW p \in CallPlaces(r)
        PROVE  /\ p \in CallPlaces(r)' /\ CallAt(p)' = CallAt(p)
               /\ \A j \in 1..n : r = t => p # <<m, l + j>> /\ Before(p, <<m, l + j>>)
    <2>1. PICK b, i : p = <<b, i>> /\ CallPlace(r, b, i)
      BY PlacesAre
    <2>2. CallPlace(r, b, i)'
      BY <1>1, <2>1
    <2>3. p \in CallPlaces(r)' /\ CallAt(p)' = CallAt(p)
      BY <1>1, <2>1, <2>2, PlacesWillBe
    <2>4. ASSUME NEW j \in 1..n
          PROVE  p # <<m, l + j>> /\ Before(p, <<m, l + j>>)
      <3>1. b < m \/ (b = m /\ i < l + j)
        BY <1>0, <2>1, PlaceTypes DEF CallPlace
      <3>2. b \in Nat /\ i \in Nat
        BY <2>1, FoundAt
      <3>. QED  BY <1>0, <2>1, <3>1, <3>2 DEF Before
    <2>. QED  BY <2>3, <2>4
  <1>4. ASSUME NEW r, NEW p \in CallPlaces(r)'
        PROVE  p \in CallPlaces(r) \/ (r = t /\ \E j \in 1..n : p = <<m, l + j>>)
    <2>1. PICK b, i : p = <<b, i>> /\ CallPlace(r, b, i)'
      BY PlacesWillBe
    <2>2. CallPlace(r, b, i) \/ (r = t /\ b = m /\ i \in (l + 1)..(l + n))
      BY <1>1, <2>1
    <2>3. CallPlace(r, b, i) => p \in CallPlaces(r)
      BY <2>1, PlacesAre
    <2>. QED  BY <1>2, <2>1, <2>2, <2>3, Zenon
  <1>5. ASSUME NEW j \in 1..n
        PROVE  <<m, l + j>> \in CallPlaces(t)' /\ CallAt(<<m, l + j>>)' = calls[l + j]
    <2>1. l + j \in (l + 1)..(l + n)
      BY <1>2
    <2>2. CallPlace(t, m, l + j)'
      BY <1>1, <2>1
    <2>3. <<m, l + j>> \in CallPlaces(t)'
      BY <2>2, PlacesWillBe
    <2>. QED  BY <1>1, <2>1, <2>3
  <1>. QED  BY <1>3, <1>4, <1>5

\* The frames popped, from the top, and those that stay.
LEMMA FramesSplit ==
    ASSUME NEW d \in Nat, NEW n \in 0..d
    PROVE  /\ d - n \in 0..d
           /\ \A j \in 1..n : /\ d + 1 - j \in 1..d /\ ~(d + 1 - j \in 1..(d - n))
                              /\ d - j \in 1..d => \/ d - j = d - n
                                                   \/ j + 1 \in 1..n /\ d - j = d + 1 - (j + 1)
                              /\ d + 1 - j - 1 = d - j
                              /\ d + 1 - j > 1 => d - j \in 1..d
           /\ \A i \in 1..d : i \in 1..(d - n) \/ \E j \in 1..n : i = d + 1 - j
  <1>1. ASSUME NEW i \in 1..d, ~(i \in 1..(d - n))
        PROVE  \E j \in 1..n : i = d + 1 - j
    <2>1. d + 1 - i \in 1..n /\ i = d + 1 - (d + 1 - i)
      BY <1>1
    <2>. QED  BY <2>1
  <1>2. ASSUME NEW j \in 1..n
        PROVE  /\ d + 1 - j \in 1..d /\ ~(d + 1 - j \in 1..(d - n))
               /\ d - j \in 1..d => \/ d - j = d - n
                                    \/ j + 1 \in 1..n /\ d - j = d + 1 - (j + 1)
               /\ d + 1 - j - 1 = d - j
               /\ d + 1 - j > 1 => d - j \in 1..d
    OBVIOUS
  <1>. QED  BY <1>1, <1>2

\* n frames leave the stack, top first, and their records come behind all
\* others: an end, with n = 1, and RSHUTDOWN, with all of them.
LEMMA TreePopped ==
    ASSUME TypeOK, TypeOK', StackChain, TreeInv, trace_live,
           NEW calls, NEW dict, NEW n \in 0..Len(stack), NEW t, NEW m, NEW l,
           Recorded(t, m, l, n, calls, dict),
           \A j \in 1..n : /\ calls[l + j].call_id = stack[Len(stack) + 1 - j].call_id
                           /\ calls[l + j].parent = stack[Len(stack) + 1 - j].parent
                           /\ calls[l + j].t_in = stack[Len(stack) + 1 - j].t_in
                           /\ calls[l + j].t_out = now,
           now' = now + 1, UNCHANGED begun,
           \/ /\ trace_live' /\ call_id_seq' = call_id_seq
              /\ Len(stack') = Len(stack) - n
              /\ \A i \in 1..(Len(stack) - n) : stack'[i] = stack[i]
           \/ ~trace_live' /\ n = Len(stack) /\ stack' = <<>>
    PROVE  TreeInv'
  <1>a. /\ \A r : \A p \in CallPlaces(r) :
                /\ p \in CallPlaces(r)' /\ CallAt(p)' = CallAt(p)
                /\ \A j \in 1..n : r = t => p # <<m, l + j>> /\ Before(p, <<m, l + j>>)
        /\ \A r : \A p \in CallPlaces(r)' :
                p \in CallPlaces(r) \/ (r = t /\ \E j \in 1..n : p = <<m, l + j>>)
        /\ \A j \in 1..n : <<m, l + j>> \in CallPlaces(t)' /\ CallAt(<<m, l + j>>)' = calls[l + j]
    BY PoppedPlaces
  <1>. DEFINE d == Len(stack)
              New(j) == <<m, l + j>>
              frame(j) == stack[d + 1 - j]
  <1>0. /\ d \in Nat /\ n \in Nat /\ now \in Nat /\ l \in Nat /\ t \in Nat
        /\ t = request /\ t = request'
        /\ \A r : IsCurrent(r) <=> r = t
    <2>1. d \in Nat /\ now \in Nat
      BY StackNumbers
    <2>2. t \in Nat /\ t = request
      BY DEF TypeOK, EnvTypeOK, Recorded
    <2>3. l \in Nat
      BY PlaceTypes DEF Recorded
    <2>4. \A r : IsCurrent(r) <=> r = t
      BY <2>2, Zenon DEF IsCurrent
    <2>. QED  BY <2>1, <2>2, <2>3, <2>4 DEF Recorded
  <1>1. /\ \A i \in 1..d : i \in 1..(d - n) \/ \E j \in 1..n : i = d + 1 - j
        /\ \A j \in 1..n : d + 1 - j \in 1..d
    BY <1>0, FramesSplit
  <1>2. /\ \A r : \A p \in CallPlaces(r) :
                /\ p \in CallPlaces(r)' /\ CallAt(p)' = CallAt(p)
                /\ \A j \in 1..n : r = t => p # New(j) /\ Before(p, New(j))
        /\ \A r : \A p \in CallPlaces(r)' :
                p \in CallPlaces(r) \/ (r = t /\ \E j \in 1..n : p = New(j))
        /\ \A j \in 1..n : New(j) \in CallPlaces(t)' /\ CallAt(New(j))' = calls[l + j]
    BY <1>a
  <1>3. \A j \in 1..n : /\ CallAt(New(j))'.call_id = frame(j).call_id
                        /\ CallAt(New(j))'.parent = frame(j).parent
                        /\ CallAt(New(j))'.t_in = frame(j).t_in
                        /\ CallAt(New(j))'.t_out = now
    BY <1>2
  <1>4. \A r, i : IsCurrent(r)' /\ i \in 1..Len(stack')
                    => r = t /\ i \in 1..(d - n) /\ i \in 1..d /\ stack'[i] = stack[i]
    <2>. SUFFICES ASSUME NEW r, NEW i, IsCurrent(r)', i \in 1..Len(stack')
                  PROVE  r = t /\ i \in 1..(d - n) /\ i \in 1..d /\ stack'[i] = stack[i]
      OBVIOUS
    <2>1. trace_live' /\ r = t
      BY <1>0, Zenon DEF IsCurrent
    <2>2. Len(stack') = d - n /\ \A k \in 1..(d - n) : stack'[k] = stack[k]
      BY <2>1
    <2>. QED  BY <1>0, <2>1, <2>2
  <1>5. \A i \in 1..(d - n) : /\ IsCurrent(t)' /\ i \in 1..Len(stack') /\ stack'[i] = stack[i]
                              /\ i \in 1..d
    <2>. SUFFICES ASSUME NEW i \in 1..(d - n)
                  PROVE  /\ IsCurrent(t)' /\ i \in 1..Len(stack') /\ stack'[i] = stack[i]
                         /\ i \in 1..d
      OBVIOUS
    <2>1. n # d
      BY <1>0
    <2>2. trace_live' /\ Len(stack') = d - n /\ \A k \in 1..(d - n) : stack'[k] = stack[k]
      BY <2>1
    <2>3. IsCurrent(t)'
      BY <1>0, <2>2, Zenon DEF IsCurrent
    <2>. QED  BY <1>0, <2>2, <2>3
  <1>6. \A i \in 1..d : i \in 1..(d - n) \/ \E j \in 1..n : stack[i] = frame(j)
    BY <1>1
  <1>7. /\ FrameIdsGrow /\ TracesInv /\ IssuedInv /\ OnceInv /\ EndedInv /\ ParentInv
    BY DEF TreeInv
  <1>8. FrameIdsGrow'
    <2>1. CASE trace_live'
      <3>1. Len(stack') = d - n /\ \A i \in 1..(d - n) : stack'[i] = stack[i] /\ i \in 1..d
        BY <1>0, <2>1
      <3>. QED  BY <1>7, <3>1 DEF FrameIdsGrow
    <2>2. CASE ~trace_live'
      <3>1. \A i \in 1..Len(stack') : FALSE
        BY <2>2
      <3>. QED  BY <3>1 DEF FrameIdsGrow
    <2>. QED  BY <2>1, <2>2
  <1>9. TracesInv'
    <2>1. \/ flushed' = flushed
          \/ /\ Len(flushed') = Len(flushed) + 1
             /\ \A i \in 1..Len(flushed) : flushed'[i] = flushed[i]
             /\ flushed'[Len(flushed) + 1].trace = t
      BY DEF Moved, Recorded
    <2>2. Len(flushed) \in Nat
      BY PlaceTypes
    <2>. QED  BY <1>0, <1>7, <2>1, <2>2 DEF TracesInv
  <1>. HIDE DEF New, frame, d
  <1>10. IssuedInv'
    <2>. SUFFICES ASSUME NEW r \in Requests, NEW k \in 0..begun[r], Issued(r, k)
                  PROVE  Issued(r, k)'
      BY <1>7 DEF IssuedInv
    <2>1. IsCurrent(r)' => k = call_id_seq'
      <3>1. IsCurrent(r)' => trace_live' /\ r = t
        BY <1>0, Zenon DEF IsCurrent
      <3>. QED  BY <1>0, <3>1 DEF Issued
    <2>2. \A p \in CallPlaces(r)' : CallAt(p)'.call_id <= k
      <3>. TAKE p \in CallPlaces(r)'
      <3>1. CASE p \in CallPlaces(r)
        BY <1>2, <3>1 DEF Issued
      <3>2. ASSUME r = t, NEW j \in 1..n, p = New(j)
            PROVE  CallAt(p)'.call_id <= k
        <4>1. d + 1 - j \in 1..Len(stack)
          BY <1>1 DEF d
        <4>2. frame(j).call_id <= call_id_seq
          BY <4>1 DEF StackChain, frame, d
        <4>3. k = call_id_seq
          BY <1>0, <3>2 DEF Issued
        <4>. QED  BY <1>3, <3>2, <4>2, <4>3
      <3>. QED  BY <1>2, <3>1, <3>2
    <2>3. ASSUME NEW i \in 1..k
          PROVE  \/ \E p \in CallPlaces(r)' : CallAt(p)'.call_id = i
                 \/ \E f \in 1..Len(stack') : IsCurrent(r)' /\ stack'[f].call_id = i
      <3>1. CASE \E p \in CallPlaces(r) : CallAt(p).call_id = i
        BY <1>2, <3>1
      <3>2. CASE \E f \in 1..Len(stack) : IsCurrent(r) /\ stack[f].call_id = i
        <4>1. PICK f \in 1..Len(stack) : IsCurrent(r) /\ stack[f].call_id = i
          BY <3>2
        <4>2. r = t
          BY <1>0, <4>1
        <4>3. CASE f \in 1..(d - n)
          BY <1>5, <4>1, <4>2, <4>3
        <4>4. ASSUME NEW j \in 1..n, stack[f] = frame(j)
              PROVE  \E p \in CallPlaces(r)' : CallAt(p)'.call_id = i
          BY <1>2, <1>3, <4>1, <4>2, <4>4
        <4>5. f \in 1..d
          BY DEF d
        <4>. QED  BY <1>6, <4>3, <4>4, <4>5
      <3>. QED  BY <3>1, <3>2 DEF Issued
    <2>4. r > request' => k = 0
      BY <1>0 DEF Issued
    <2>. QED  BY <2>1, <2>2, <2>3, <2>4 DEF Issued
  <1>11. OnceInv'
    <2>. SUFFICES ASSUME NEW r \in Requests, NEW p \in CallPlaces(r)'
                  PROVE  /\ \A q \in CallPlaces(r)' :
                                CallAt(p)'.call_id = CallAt(q)'.call_id => p = q
                         /\ \A i \in 1..Len(stack') :
                                IsCurrent(r)' => CallAt(p)'.call_id # stack'[i].call_id
      BY DEF OnceInv
    <2>1. \A q, x : q \in CallPlaces(r) /\ r = t /\ x \in 1..d => CallAt(q).call_id # stack[x].call_id
      BY <1>0, <1>7 DEF OnceInv, d
    <2>2. \A j \in 1..n : d + 1 - j \in 1..d /\ frame(j) = stack[d + 1 - j]
      BY <1>1 DEF frame
    <2>3. ASSUME NEW q \in CallPlaces(r), r = t, NEW j \in 1..n
          PROVE  CallAt(q)'.call_id # CallAt(New(j))'.call_id
      <3>1. CallAt(q).call_id # frame(j).call_id
        <4>1. d + 1 - j \in 1..d /\ frame(j) = stack[d + 1 - j]
          BY <2>2
        <4>2. CallAt(q).call_id # stack[d + 1 - j].call_id
          BY <2>1, <2>3, <4>1
        <4>. QED  BY <4>1, <4>2
      <3>2. CallAt(q)' = CallAt(q) /\ CallAt(New(j))'.call_id = frame(j).call_id
        BY <1>2, <1>3
      <3>. QED  BY <3>1, <3>2
    <2>4. \A i, k \in 1..d : i # k => stack[i].call_id # stack[k].call_id
      <3>. SUFFICES ASSUME NEW i \in 1..d, NEW k \in 1..d, i # k
                    PROVE  stack[i].call_id # stack[k].call_id
        OBVIOUS
      <3>1. i < k \/ k < i
        BY <1>0
      <3>2. stack[i].call_id < stack[k].call_id \/ stack[k].call_id < stack[i].call_id
        BY <1>7, <3>1 DEF FrameIdsGrow, d
      <3>3. stack[i].call_id \in Nat /\ stack[k].call_id \in Nat
        BY StackNumbers DEF d
      <3>. QED  BY <3>2, <3>3
    <2>5. ASSUME NEW j \in 1..n, NEW k \in 1..n, frame(j).call_id = frame(k).call_id
          PROVE  j = k
      <3>1. d + 1 - j = d + 1 - k
        <4>1. /\ d + 1 - j \in 1..d /\ frame(j) = stack[d + 1 - j]
              /\ d + 1 - k \in 1..d /\ frame(k) = stack[d + 1 - k]
          BY <2>2
        <4>2. stack[d + 1 - j].call_id = stack[d + 1 - k].call_id
          BY <2>5, <4>1
        <4>. QED  BY <2>4, <4>1, <4>2
      <3>. QED  BY <1>0, <3>1
    <2>6. ASSUME NEW q \in CallPlaces(r)', CallAt(p)'.call_id = CallAt(q)'.call_id
          PROVE  p = q
      <3>1. CASE p \in CallPlaces(r) /\ q \in CallPlaces(r)
        BY <1>2, <1>7, <2>6, <3>1 DEF OnceInv
      <3>2. CASE ~(p \in CallPlaces(r)) /\ q \in CallPlaces(r)
        BY <1>2, <2>3, <2>6, <3>2
      <3>3. CASE p \in CallPlaces(r) /\ ~(q \in CallPlaces(r))
        BY <1>2, <2>3, <2>6, <3>3
      <3>4. CASE ~(p \in CallPlaces(r)) /\ ~(q \in CallPlaces(r))
        <4>1. PICK j \in 1..n : p = New(j)
          BY <1>2, <3>4
        <4>2. PICK k \in 1..n : q = New(k)
          BY <1>2, <3>4
        <4>3. frame(j).call_id = frame(k).call_id
          BY <1>3, <2>6, <4>1, <4>2
        <4>. QED  BY <2>5, <4>1, <4>2, <4>3
      <3>. QED  BY <3>1, <3>2, <3>3, <3>4
    <2>7. ASSUME NEW i \in 1..Len(stack'), IsCurrent(r)'
          PROVE  CallAt(p)'.call_id # stack'[i].call_id
      <3>1. r = t /\ i \in 1..(d - n) /\ i \in 1..d /\ stack'[i] = stack[i]
        BY <1>4, <2>7
      <3>2. CASE p \in CallPlaces(r)
        <4>1. CallAt(p).call_id # stack[i].call_id
          BY <2>1, <3>1, <3>2
        <4>2. CallAt(p)' = CallAt(p)
          BY <1>2, <3>2
        <4>. QED  BY <3>1, <4>1, <4>2
      <3>3. ASSUME NEW j \in 1..n, p = New(j)
            PROVE  CallAt(p)'.call_id # stack'[i].call_id
        <4>1. d + 1 - j \in 1..d /\ d + 1 - j # i
          BY <1>0, <3>1, FramesSplit
        <4>2. stack[d + 1 - j].call_id # stack[i].call_id /\ frame(j) = stack[d + 1 - j]
          BY <2>2, <2>4, <3>1, <4>1
        <4>3. CallAt(p)'.call_id = frame(j).call_id
          BY <1>3, <3>3
        <4>. QED  BY <3>1, <4>2, <4>3
      <3>. QED  BY <1>2, <3>2, <3>3
    <2>. QED  BY <2>6, <2>7
  <1>12. EndedInv'
    <2>. SUFFICES ASSUME NEW r \in Requests, NEW p \in CallPlaces(r)'
                  PROVE  CallAt(p)'.t_out < now + 1
      BY DEF EndedInv
    <2>1. CASE p \in CallPlaces(r)
      <3>1. CallAt(p) \in Records
        BY <2>1, PlacesAre, FoundAt
      <3>2. CallAt(p).t_out \in Nat /\ CallAt(p).t_out < now
        BY <1>7, <2>1, <3>1 DEF EndedInv, Records
      <3>. QED  BY <1>0, <1>2, <2>1, <3>2
    <2>2. ASSUME NEW j \in 1..n, p = New(j)
          PROVE  CallAt(p)'.t_out < now + 1
      BY <1>0, <1>3, <2>2
    <2>. QED  BY <1>2, <2>1, <2>2
  <1>13. ParentInv'
    <2>. SUFFICES ASSUME NEW r \in Requests, NEW p \in CallPlaces(r)', CallAt(p)'.parent # 0
                  PROVE  ParentOf(r, CallAt(p), p)'
      BY DEF ParentInv
    <2>1. ASSUME NEW i \in 1..(d - n), r = t, stack[i].call_id = CallAt(p)'.parent,
                 stack[i].t_in < CallAt(p)'.t_in
          PROVE  ParentOf(r, CallAt(p), p)'
      BY <1>5, <2>1 DEF ParentOf
    <2>2. ASSUME NEW j \in 1..n, r = t, Before(p, New(j)),
                 frame(j).call_id = CallAt(p)'.parent, frame(j).t_in < CallAt(p)'.t_in,
                 CallAt(p)'.t_out <= now
          PROVE  ParentOf(r, CallAt(p), p)'
      BY <1>2, <1>3, <2>2 DEF ParentOf
    <2>3. CASE p \in CallPlaces(r)
      <3>1. CallAt(p)' = CallAt(p) /\ ParentOf(r, CallAt(p), p)
        BY <1>2, <1>7, <2>3 DEF ParentInv
      <3>2. CASE \E i \in 1..Len(stack) : /\ IsCurrent(r) /\ stack[i].call_id = CallAt(p).parent
                                         /\ stack[i].t_in < CallAt(p).t_in
        <4>1. PICK i \in 1..d : /\ IsCurrent(r) /\ stack[i].call_id = CallAt(p).parent
                                /\ stack[i].t_in < CallAt(p).t_in
          BY <3>2 DEF d
        <4>2. r = t
          BY <1>0, <4>1
        <4>3. CASE i \in 1..(d - n)
          BY <2>1, <3>1, <4>1, <4>2, <4>3
        <4>4. ASSUME NEW j \in 1..n, stack[i] = frame(j)
              PROVE  ParentOf(r, CallAt(p), p)'
          <5>1. Before(p, New(j))
            BY <1>2, <2>3, <4>2
          <5>2. CallAt(p)'.t_out <= now
            <6>1. CallAt(p) \in Records /\ CallAt(p).t_out < now
              BY <1>7, <2>3, PlacesAre, FoundAt DEF EndedInv
            <6>2. CallAt(p).t_out \in Nat
              BY <6>1 DEF Records
            <6>. QED  BY <1>0, <3>1, <6>1, <6>2
          <5>. QED  BY <2>2, <3>1, <4>1, <4>2, <4>4, <5>1, <5>2
        <4>. QED  BY <1>6, <4>3, <4>4
      <3>3. CASE \E q \in CallPlaces(r) :
                    /\ Before(p, q) /\ CallAt(q).call_id = CallAt(p).parent
                    /\ CallAt(q).t_in < CallAt(p).t_in /\ CallAt(p).t_out <= CallAt(q).t_out
        <4>1. PICK q \in CallPlaces(r) :
                    /\ Before(p, q) /\ CallAt(q).call_id = CallAt(p).parent
                    /\ CallAt(q).t_in < CallAt(p).t_in /\ CallAt(p).t_out <= CallAt(q).t_out
          BY <3>3
        <4>2. q \in CallPlaces(r)' /\ CallAt(q)' = CallAt(q)
          BY <1>2
        <4>3. /\ Before(p, q) /\ CallAt(q)'.call_id = CallAt(p)'.parent
              /\ CallAt(q)'.t_in < CallAt(p)'.t_in /\ CallAt(p)'.t_out <= CallAt(q)'.t_out
          BY <3>1, <4>1, <4>2
        <4>. QED  BY <4>2, <4>3 DEF ParentOf
      <3>. QED  BY <3>1, <3>2, <3>3 DEF ParentOf
    <2>4. ASSUME NEW j \in 1..n, p = New(j), r = t
          PROVE  ParentOf(r, CallAt(p), p)'
      <3>. DEFINE i == d + 1 - j
      <3>1. /\ i \in 1..d /\ frame(j) = stack[i] /\ i - 1 = d - j
            /\ i > 1 => d - j \in 1..d
            /\ d - j \in 1..d => (d - j = d - n \/ (j + 1 \in 1..n /\ d - j = d + 1 - (j + 1)))
        <4>1. d \in Nat /\ n \in 0..d
          BY <1>0 DEF d
        <4>2. frame(j) = stack[i]
          BY DEF frame
        <4>. HIDE DEF d
        <4>. QED  BY <4>1, <4>2, FramesSplit
      <3>2. /\ CallAt(p)'.parent = stack[i].parent /\ CallAt(p)'.t_in = stack[i].t_in
            /\ CallAt(p)'.t_out = now
        BY <1>3, <2>4, <3>1, Zenon
      <3>3. /\ stack[i].parent = IF i = 1 THEN 0 ELSE stack[i - 1].call_id
            /\ i > 1 => stack[i - 1].t_in < stack[i].t_in
        BY <3>1, Zenon DEF StackChain, d
      <3>. HIDE DEF i
      <3>4. i > 1
        <4>1. i # 1 /\ i \in Nat
          BY <3>1, <3>2, <3>3
        <4>. QED  BY <3>1, <4>1
      <3>5. /\ CallAt(p)'.parent = stack[d - j].call_id /\ stack[d - j].t_in < CallAt(p)'.t_in
            /\ d - j \in 1..d
        <4>1. i # 1
          BY <3>4
        <4>. QED  BY <3>1, <3>2, <3>3, <3>4, <4>1
      <3>6. CASE d - j = d - n
        <4>1. d - j \in 1..(d - n)
          BY <1>0, <3>5, <3>6
        <4>. QED  BY <2>1, <2>4, <3>5, <4>1
      <3>7. CASE j + 1 \in 1..n /\ d - j = d + 1 - (j + 1)
        <4>1. frame(j + 1) = stack[d - j]
          BY <3>7 DEF frame
        <4>2. Before(p, New(j + 1))
          BY <1>0, <2>4 DEF Before, New
        <4>3. CallAt(p)'.t_out <= now
          BY <1>0, <3>2
        <4>. QED  BY <2>2, <2>4, <3>5, <3>7, <4>1, <4>2, <4>3
      <3>. QED  BY <3>1, <3>5, <3>6, <3>7
    <2>. QED  BY <1>2, <2>3, <2>4
  <1>. QED  BY <1>8, <1>9, <1>10, <1>11, <1>12, <1>13 DEF TreeInv

\* Steps that move no record: RINIT, a begin, an end of a dropped begin, and
\* what the shipper and DiscardRefused do.
LEMMA CallsStay ==
    ASSUME TypeOK, TypeOK', UNCHANGED <<flushed, buffer>>,
           \A r : (IsCurrent(r)' <=> IsCurrent(r)) \/ buffer = <<>>
    PROVE  /\ \A r : CallPlaces(r)' = CallPlaces(r)
           /\ \A p : CallAt(p)' = CallAt(p)
  <1>1. Staged' = Staged
    BY DEF Staged
  <1>2. \A p : CallAt(p)' = CallAt(p)
    BY <1>1 DEF CallAt, CallsOf
  <1>3. buffer = <<>> => \A i : ~(i \in 1..Len(buffer))
    OBVIOUS
  <1>4. \A r, b, i : CallPlace(r, b, i)' <=> CallPlace(r, b, i)
    BY <1>3 DEF CallPlace
  <1>5. \A r : CallPlaces(r)' = CallPlaces(r)
    <2>. TAKE r
    <2>1. \A p \in CallPlaces(r)' : p \in CallPlaces(r)
      BY <1>4, PlacesAre, PlacesWillBe
    <2>2. \A p \in CallPlaces(r) : p \in CallPlaces(r)'
      BY <1>4, PlacesAre, PlacesWillBe
    <2>. QED  BY <2>1, <2>2
  <1>. QED  BY <1>2, <1>5

LEMMA EntriesStay ==
    ASSUME TypeOK, TypeOK', UNCHANGED <<flushed, new_entries>>,
           \A r : (IsCurrent(r)' <=> IsCurrent(r)) \/ new_entries = <<>>
    PROVE  /\ \A r : EntryPlaces(r)' = EntryPlaces(r)
           /\ \A p : EntryAt(p)' = EntryAt(p)
  <1>1. Staged' = Staged
    BY DEF Staged
  <1>2. \A p : EntryAt(p)' = EntryAt(p)
    BY <1>1 DEF EntryAt, DictOf
  <1>3. new_entries = <<>> => \A i : ~(i \in 1..Len(new_entries))
    OBVIOUS
  <1>4. \A r, b, i : EntryPlace(r, b, i)' <=> EntryPlace(r, b, i)
    BY <1>3 DEF EntryPlace
  <1>5. \A r : EntryPlaces(r)' = EntryPlaces(r)
    <2>. TAKE r
    <2>1. \A p \in EntryPlaces(r)' : p \in EntryPlaces(r)
      BY <1>4, PlacesAre, PlacesWillBe
    <2>2. \A p \in EntryPlaces(r) : p \in EntryPlaces(r)'
      BY <1>4, PlacesAre, PlacesWillBe
    <2>. QED  BY <2>1, <2>2
  <1>. QED  BY <1>2, <1>5

\* The frames and the clock are left alone too.
LEMMA TreeUntouched ==
    ASSUME TypeOK, TypeOK', TreeInv,
           UNCHANGED <<flushed, buffer, stack, call_id_seq, request>>,
           trace_live' <=> trace_live, now' \in {now, now + 1},
           \A r \in Requests : begun'[r] \in {begun[r], begun[r] + 1}
    PROVE  TreeInv'
  <1>1. \A r : IsCurrent(r)' <=> IsCurrent(r)
    BY Zenon DEF IsCurrent
  <1>2. /\ \A r : CallPlaces(r)' = CallPlaces(r)
        /\ \A p : CallAt(p)' = CallAt(p)
    BY <1>1, CallsStay
  <1>3. FrameIdsGrow' /\ TracesInv'
    BY DEF TreeInv, FrameIdsGrow, TracesInv
  <1>4. \A r, n : Issued(r, n) => Issued(r, n)'
    BY <1>1, <1>2 DEF Issued
  <1>5. IssuedInv'
    <2>1. \A r \in Requests : begun[r] \in Nat
      BY DEF TypeOK, EnvTypeOK
    <2>2. ASSUME NEW r \in Requests
          PROVE  \E n \in 0..begun'[r] : Issued(r, n)'
      <3>1. PICK n \in 0..begun[r] : Issued(r, n)
        BY DEF TreeInv, IssuedInv
      <3>2. n \in 0..begun'[r]
        BY <2>1
      <3>. QED  BY <1>4, <3>1, <3>2
    <2>. QED  BY <2>2 DEF IssuedInv
  <1>6. OnceInv'
    BY <1>1, <1>2 DEF TreeInv, OnceInv
  <1>7. EndedInv'
    <2>. SUFFICES ASSUME NEW r \in Requests, NEW p \in CallPlaces(r)
                  PROVE  CallAt(p).t_out < now'
      BY <1>2 DEF EndedInv
    <2>1. CallAt(p) \in Records /\ CallAt(p).t_out < now /\ now \in Nat
      BY PlacesAre, FoundAt, StackNumbers DEF TreeInv, EndedInv
    <2>2. CallAt(p).t_out \in Nat
      BY <2>1 DEF Records
    <2>. QED  BY <2>1, <2>2
  <1>8. ParentInv'
    <2>1. \A r, c, p : ParentOf(r, c, p) => ParentOf(r, c, p)'
      BY <1>1, <1>2 DEF ParentOf
    <2>. QED  BY <1>2, <2>1 DEF TreeInv, ParentInv
  <1>. QED  BY <1>3, <1>5, <1>6, <1>7, <1>8 DEF TreeInv

\* A frame is pushed, with the next id.
LEMMA TreePushed ==
    ASSUME TypeOK, TypeOK', StackChain, TreeInv, trace_live, trace_live',
           UNCHANGED <<flushed, buffer, request>>, call_id_seq' = call_id_seq + 1,
           now' = now + 1, NEW frame, stack' = Append(stack, frame),
           frame.call_id = call_id_seq + 1,
           begun' = [begun EXCEPT ![request] = @ + 1]
    PROVE  TreeInv'
  <1>. DEFINE d == Len(stack)
  <1>0. d \in Nat /\ call_id_seq \in Nat /\ now \in Nat /\ request \in Requests
        /\ stack \in Seq(Frames)
    BY StackFacts, Zenon DEF TypeOK, EnvTypeOK
  <1>1. \A r : IsCurrent(r)' <=> IsCurrent(r)
    BY Zenon DEF IsCurrent
  <1>2. /\ \A r : CallPlaces(r)' = CallPlaces(r)
        /\ \A p : CallAt(p)' = CallAt(p)
    BY <1>1, CallsStay
  <1>3. /\ Len(stack') = d + 1 /\ stack'[d + 1] = frame /\ d + 1 \in 1..(d + 1)
        /\ \A i \in 1..d : stack'[i] = stack[i] /\ i \in 1..(d + 1)
        /\ \A i \in 1..(d + 1) : i \in 1..d \/ i = d + 1
    BY <1>0, StackFacts
  <1>4. \A i \in 1..d : stack[i].call_id \in Nat /\ stack[i].call_id <= call_id_seq
    BY StackNumbers DEF StackChain
  <1>5. FrameIdsGrow'
    <2>. SUFFICES ASSUME NEW i \in 1..(d + 1), NEW k \in 1..(d + 1), i < k
                  PROVE  stack'[i].call_id < stack'[k].call_id
      BY <1>3 DEF FrameIdsGrow
    <2>1. i \in 1..d
      BY <1>0
    <2>2. CASE k = d + 1
      <3>1. stack'[k].call_id = call_id_seq + 1
        BY <1>3, <2>2
      <3>2. stack'[i].call_id = stack[i].call_id
        BY <1>3, <2>1
      <3>. QED  BY <1>0, <1>4, <2>1, <3>1, <3>2
    <2>3. CASE k \in 1..d
      BY <1>3, <2>1, <2>3 DEF TreeInv, FrameIdsGrow
    <2>. QED  BY <1>3, <2>2, <2>3
  <1>6. TracesInv'
    BY DEF TreeInv, TracesInv
  <1>7. ASSUME NEW r \in Requests, NEW p \in CallPlaces(r), IsCurrent(r)
        PROVE  CallAt(p).call_id \in Nat /\ CallAt(p).call_id <= call_id_seq
    <2>1. PICK n \in 0..begun[r] : Issued(r, n)
      BY DEF TreeInv, IssuedInv
    <2>2. CallAt(p) \in Records
      BY PlacesAre, FoundAt
    <2>. QED  BY <1>7, <2>1, <2>2 DEF Issued, Records
  <1>8. IssuedInv'
    <2>. SUFFICES ASSUME NEW r \in Requests
                  PROVE  \E n \in 0..begun'[r] : Issued(r, n)'
      BY DEF IssuedInv
    <2>1. PICK n \in 0..begun[r] : Issued(r, n)
      BY DEF TreeInv, IssuedInv
    <2>2. begun \in [Requests -> Nat]
      BY DEF TypeOK, EnvTypeOK
    <2>3. CASE r = request
      <3>1. IsCurrent(r) /\ n = call_id_seq
        BY <2>1, <2>3, Zenon DEF IsCurrent, Issued
      <3>2. \A p \in CallPlaces(r) : CallAt(p).call_id <= n + 1
        BY <1>0, <1>7, <3>1
      <3>3. ASSUME NEW k \in 1..(n + 1)
            PROVE  \/ \E p \in CallPlaces(r) : CallAt(p).call_id = k
                   \/ \E i \in 1..(d + 1) : stack'[i].call_id = k
        <4>1. CASE k = n + 1
          BY <1>3, <3>1, <4>1
        <4>2. CASE k \in 1..n
          BY <1>3, <2>1, <4>2 DEF Issued
        <4>. QED  BY <2>2, <4>1, <4>2
      <3>4. Issued(r, n + 1)'
        <4>1. request \in Nat
          BY ConfigFacts DEF TypeOK, EnvTypeOK
        <4>2. ~(r > request')
          BY <2>3, <4>1
        <4>. QED  BY <1>1, <1>2, <1>3, <3>1, <3>2, <3>3, <4>2 DEF Issued
      <3>5. n + 1 \in 0..begun'[r]
        BY <2>2, <2>3
      <3>. QED  BY <3>4, <3>5
    <2>4. CASE r # request
      <3>1. ~IsCurrent(r)
        BY <2>4 DEF IsCurrent
      <3>2. Issued(r, n)'
        BY <1>1, <1>2, <2>1, <3>1 DEF Issued
      <3>3. begun'[r] = begun[r]
        BY <2>2, <2>4
      <3>. QED  BY <3>2, <3>3
    <2>. QED  BY <2>3, <2>4
  <1>9. OnceInv'
    <2>. SUFFICES ASSUME NEW r \in Requests, NEW p \in CallPlaces(r)
                  PROVE  /\ \A q \in CallPlaces(r) : CallAt(p).call_id = CallAt(q).call_id => p = q
                         /\ \A i \in 1..(d + 1) :
                                IsCurrent(r) => CallAt(p).call_id # stack'[i].call_id
      BY <1>1, <1>2, <1>3 DEF OnceInv
    <2>1. \A q \in CallPlaces(r) : CallAt(p).call_id = CallAt(q).call_id => p = q
      BY DEF TreeInv, OnceInv
    <2>2. ASSUME NEW i \in 1..(d + 1), IsCurrent(r)
          PROVE  CallAt(p).call_id # stack'[i].call_id
      <3>1. CASE i \in 1..d
        BY <1>3, <2>2, <3>1 DEF TreeInv, OnceInv
      <3>2. CASE i = d + 1
        <4>1. stack'[i].call_id = call_id_seq + 1
          BY <1>3, <3>2
        <4>. QED  BY <1>0, <1>7, <2>2, <4>1
      <3>. QED  BY <1>3, <3>1, <3>2
    <2>. QED  BY <2>1, <2>2
  <1>10. EndedInv'
    <2>. SUFFICES ASSUME NEW r \in Requests, NEW p \in CallPlaces(r)
                  PROVE  CallAt(p).t_out < now'
      BY <1>2 DEF EndedInv
    <2>1. CallAt(p) \in Records /\ CallAt(p).t_out < now
      BY PlacesAre, FoundAt DEF TreeInv, EndedInv
    <2>2. CallAt(p).t_out \in Nat
      BY <2>1 DEF Records
    <2>. QED  BY <1>0, <2>1, <2>2
  <1>11. ParentInv'
    <2>1. \A r, c, p : ParentOf(r, c, p) => ParentOf(r, c, p)'
      BY <1>1, <1>2, <1>3 DEF ParentOf
    <2>. QED  BY <1>2, <2>1 DEF TreeInv, ParentInv
  <1>. QED  BY <1>5, <1>6, <1>8, <1>9, <1>10, <1>11 DEF TreeInv

\* RINIT: the next trace has issued nothing, and nothing is staged.
LEMMA TreeRInit ==
    ASSUME TypeOK, TypeOK', TreeInv, IdleInv, RInit
    PROVE  TreeInv'
  <1>1. /\ request' = request + 1 /\ stack' = <<>> /\ call_id_seq' = 0
        /\ UNCHANGED <<flushed, begun, now, buffer>> /\ buffer = <<>>
        /\ request \in Nat /\ request' \in Nat
    BY ConfigFacts DEF RInit, ResetTrace, IdleInv, shared_vars, TypeOK, EnvTypeOK
  <1>2. ~trace_live
    BY Zenon DEF RInit
  <1>3. \A r : ~IsCurrent(r)
    BY <1>2, Zenon DEF IsCurrent
  <1>4. \A r : IsCurrent(r)' => r = request + 1
    BY <1>1 DEF IsCurrent
  <1>5. /\ \A r : CallPlaces(r)' = CallPlaces(r)
        /\ \A p : CallAt(p)' = CallAt(p)
    BY <1>1, CallsStay
  <1>6. \A i : ~(i \in 1..Len(stack'))
    BY <1>1
  <1>7. FrameIdsGrow'
    BY <1>6 DEF FrameIdsGrow
  <1>8. TracesInv'
    <2>1. \A b \in 1..Len(flushed) : flushed[b].trace \in Nat /\ flushed[b].trace <= request
      <3>. TAKE b \in 1..Len(flushed)
      <3>1. flushed[b] \in Batches
        BY ElementOfSeq DEF TypeOK, SharedTypeOK
      <3>2. flushed[b].trace \in Nat
        BY <3>1 DEF Batches, Requests
      <3>. QED  BY <3>2 DEF TreeInv, TracesInv
    <2>. QED  BY <1>1, <2>1 DEF TracesInv
  <1>9. IssuedInv'
    <2>. SUFFICES ASSUME NEW r \in Requests, NEW n \in 0..begun[r], Issued(r, n)
                  PROVE  Issued(r, n)'
      BY <1>1 DEF TreeInv, IssuedInv
    <2>1. r \in Nat /\ (r = request + 1 => r > request) /\ (r > request' => r > request)
      BY <1>1 DEF Requests
    <2>. QED  BY <1>1, <1>3, <1>4, <1>5, <2>1 DEF Issued
  <1>10. OnceInv'
    BY <1>5, <1>6 DEF TreeInv, OnceInv
  <1>11. EndedInv'
    BY <1>1, <1>5 DEF TreeInv, EndedInv
  <1>12. ParentInv'
    <2>1. \A r, c, p : ParentOf(r, c, p) => ParentOf(r, c, p)'
      BY <1>3, <1>5 DEF ParentOf
    <2>. QED  BY <1>5, <2>1 DEF TreeInv, ParentInv
  <1>. QED  BY <1>7, <1>8, <1>9, <1>10, <1>11, <1>12 DEF TreeInv

\* An end and RSHUTDOWN add what they record behind what was staged.
LEMMA SendMoves ==
    ASSUME TypeOK, NEW calls \in Seq(Records), NEW size \in Nat, NEW bytes \in Int,
           PendingBatch(calls, size) \in Batches, refused = <<>>,
           TrySendBatch(PendingBatch(calls, size), bytes),
           buffer' = <<>>, new_entries' = <<>>
    PROVE  Moved(calls, new_entries)
  <1>1. /\ PendingBatch(calls, size).trace = request
        /\ PendingBatch(calls, size).calls = calls
        /\ PendingBatch(calls, size).dict = new_entries
    BY DEF PendingBatch
  <1>2. /\ Len(flushed') = Len(flushed) + 1
        /\ flushed'[Len(flushed) + 1] = PendingBatch(calls, size)
        /\ \A i \in 1..Len(flushed) : flushed'[i] = flushed[i]
    BY SendShape
  <1>. QED  BY <1>1, <1>2 DEF Moved

LEMMA EndRecords ==
    ASSUME TypeOK, LifoCount, NEW threw \in Throws, EndAccepted(threw)
    PROVE  Recorded(request, Staged, Len(buffer), 1, Append(buffer, EndRecord(threw)),
                    new_entries)
  <1>. DEFINE calls == Append(buffer, EndRecord(threw))
              size  == buffer_estimated_bytes + CALL_RECORD_FIXED_BYTES
              bytes == bytes_in_memory + CALL_RECORD_FIXED_BYTES
  <1>1. /\ trace_live /\ refused = <<>> /\ EngineEnds
        /\ calls \in Seq(Records) /\ size \in Nat /\ bytes \in Int
        /\ PendingBatch(calls, size) \in Batches
        /\ \/ /\ buffer' = <<>> /\ new_entries' = <<>>
              /\ TrySendBatch(PendingBatch(calls, size), bytes)
           \/ buffer' = calls /\ UNCHANGED <<new_entries, flushed>>
    BY EndCases
  <1>2. UNCHANGED request /\ trace_live'
    BY <1>1, Zenon DEF EngineEnds
  <1>3. buffer \in Seq(Records)
    BY DEF TypeOK, TraceTypeOK
  <1>4. Len(calls) = Len(buffer) + 1 /\ \A i \in 1..Len(buffer) : calls[i] = buffer[i]
    BY <1>1, <1>3
  <1>. HIDE DEF calls, size, bytes
  <1>5. Moved(calls, new_entries)
    <2>1. CASE buffer' = calls /\ UNCHANGED <<new_entries, flushed>>
      BY <1>2, <2>1 DEF Moved
    <2>2. CASE /\ buffer' = <<>> /\ new_entries' = <<>>
               /\ TrySendBatch(PendingBatch(calls, size), bytes)
      BY <1>1, <2>2, SendMoves
    <2>. QED  BY <1>1, <2>1, <2>2
  <1>. QED  BY <1>1, <1>2, <1>4, <1>5 DEF Recorded, calls

LEMMA ShutdownRecords ==
    ASSUME TypeOK, StagedInv, RShutdown
    PROVE  Recorded(request, Staged, Len(buffer), Len(stack), buffer \o DrainedRecords,
                    new_entries)
  <1>. DEFINE calls == buffer \o DrainedRecords
              size  == buffer_estimated_bytes + CALL_RECORD_FIXED_BYTES * Len(stack)
              bytes == bytes_in_memory + CALL_RECORD_FIXED_BYTES * Len(stack)
  <1>1. /\ trace_live /\ refused = <<>> /\ ~trace_live' /\ ResetTrace /\ UNCHANGED request
        /\ DrainedRecords \in Seq(Records) /\ Len(DrainedRecords) = Len(stack)
        /\ calls \in Seq(Records) /\ Len(calls) = Len(buffer) + Len(stack)
        /\ size \in Nat /\ bytes \in Int /\ PendingBatch(calls, size) \in Batches
        /\ \/ TrySendBatch(PendingBatch(calls, size), bytes)
           \/ Len(calls) = 0 /\ UNCHANGED flushed
    BY ShutdownCases
  <1>2. buffer \in Seq(Records) /\ Len(buffer) \in Nat /\ Len(stack) \in Nat
        /\ stack \in Seq(Frames)
    BY StackFacts, LenProperties DEF TypeOK, TraceTypeOK
  <1>3. \A i \in 1..Len(buffer) : calls[i] = buffer[i]
    <2>. DEFINE drained == DrainedRecords
    <2>1. drained \in Seq(Records) /\ calls = buffer \o drained
      BY <1>1
    <2>. HIDE DEF drained, calls
    <2>. QED  BY <1>2, <2>1
  <1>4. buffer' = <<>> /\ new_entries' = <<>>
    BY <1>1 DEF ResetTrace
  <1>. HIDE DEF calls, size, bytes
  <1>5. Moved(calls, new_entries)
    <2>1. CASE Len(calls) = 0 /\ UNCHANGED flushed
      <3>0. Len(buffer) + Len(stack) = 0
        BY <1>1, <2>1, Zenon
      <3>1. Len(buffer) = 0 /\ Len(stack) = 0
        BY <1>2, <3>0
      <3>2. stack = <<>> /\ buffer = <<>>
        BY <1>2, <3>1
      <3>3. Len(new_entries) = 0
        BY <3>2 DEF StagedInv
      <3>. QED  BY <1>1, <1>4, <2>1, <3>3 DEF Moved
    <2>2. CASE TrySendBatch(PendingBatch(calls, size), bytes)
      BY <1>1, <1>4, <2>2, SendMoves
    <2>. QED  BY <1>1, <2>1, <2>2
  <1>. QED  BY <1>1, <1>2, <1>3, <1>5 DEF Recorded, calls

LEMMA TreeEndAccepted ==
    ASSUME TypeOK, TypeOK', LifoCount, StackChain, TreeInv, NEW threw \in Throws,
           EndAccepted(threw)
    PROVE  TreeInv'
  <1>. DEFINE calls == Append(buffer, EndRecord(threw))
              l == Len(buffer)
  <1>1. /\ trace_live /\ EngineEnds /\ stack # <<>> /\ stack' = Front(stack)
        /\ EndRecord(threw) \in Records /\ buffer \in Seq(Records)
    BY EndCases DEF TypeOK, TraceTypeOK
  <1>2. trace_live' /\ UNCHANGED <<call_id_seq, begun>> /\ now' = now + 1
    BY <1>1, Zenon DEF EngineEnds
  <1>3. stack \in Seq(Frames) /\ Len(stack) \in Nat
    BY StackFacts
  <1>4. /\ Len(stack) >= 1 /\ Len(stack') = Len(stack) - 1
        /\ \A i \in 1..(Len(stack) - 1) : stack'[i] = stack[i]
        /\ Last(stack) = stack[Len(stack)]
    BY <1>1, <1>3, FrontProperties DEF Last
  <1>5. /\ EndRecord(threw).call_id = stack[Len(stack)].call_id
        /\ EndRecord(threw).parent = stack[Len(stack)].parent
        /\ EndRecord(threw).t_in = stack[Len(stack)].t_in
        /\ EndRecord(threw).t_out = now
    BY <1>4 DEF EndRecord, RecordOf
  <1>6. calls[l + 1] = EndRecord(threw)
    BY <1>1
  <1>. HIDE DEF calls
  <1>7. \A j \in 1..1 : /\ calls[l + j].call_id = stack[Len(stack) + 1 - j].call_id
                        /\ calls[l + j].parent = stack[Len(stack) + 1 - j].parent
                        /\ calls[l + j].t_in = stack[Len(stack) + 1 - j].t_in
                        /\ calls[l + j].t_out = now
    <2>1. \A j \in 1..1 : j = 1 /\ Len(stack) + 1 - j = Len(stack)
      BY <1>3
    <2>. QED  BY <1>5, <1>6, <2>1
  <1>8. Recorded(request, Staged, l, 1, calls, new_entries)
    BY EndRecords DEF calls
  <1>9. 1 \in 0..Len(stack)
    BY <1>3, <1>4
  <1>. HIDE DEF l
  <1>. QED  BY <1>1, <1>2, <1>4, <1>7, <1>8, <1>9, TreePopped

LEMMA TreeRShutdown ==
    ASSUME TypeOK, TypeOK', StackChain, StagedInv, TreeInv, RShutdown
    PROVE  TreeInv'
  <1>. DEFINE calls == buffer \o DrainedRecords
              l == Len(buffer)
              n == Len(stack)
  <1>1. /\ trace_live /\ ~trace_live' /\ ResetTrace /\ UNCHANGED begun
        /\ DrainedRecords \in Seq(Records) /\ Len(DrainedRecords) = n
        /\ calls \in Seq(Records)
    BY ShutdownCases
  <1>2. now' = now + 1 /\ stack' = <<>>
    BY <1>1 DEF RShutdown, ResetTrace
  <1>3. buffer \in Seq(Records) /\ l \in Nat /\ n \in Nat
    BY StackFacts, LenProperties DEF TypeOK, TraceTypeOK
  <1>4. \A j \in 1..n : calls[l + j] = RecordOf(stack[n + 1 - j], now, TRUE)
    <2>. DEFINE drained == DrainedRecords
    <2>1. drained \in Seq(Records) /\ calls = buffer \o drained /\ Len(drained) = n
      BY <1>1
    <2>2. \A j \in 1..n : drained[j] = RecordOf(stack[n + 1 - j], now, TRUE)
      BY DEF DrainedRecords
    <2>. HIDE DEF drained, calls, n
    <2>3. \A j \in 1..n : calls[l + j] = drained[j]
      BY <1>3, <2>1
    <2>. QED  BY <2>2, <2>3
  <1>5. \A j \in 1..n : /\ calls[l + j].call_id = stack[n + 1 - j].call_id
                        /\ calls[l + j].parent = stack[n + 1 - j].parent
                        /\ calls[l + j].t_in = stack[n + 1 - j].t_in
                        /\ calls[l + j].t_out = now
    <2>. HIDE DEF calls, l, n
    <2>. SUFFICES ASSUME NEW j \in 1..n
                  PROVE  /\ calls[l + j].call_id = stack[n + 1 - j].call_id
                         /\ calls[l + j].parent = stack[n + 1 - j].parent
                         /\ calls[l + j].t_in = stack[n + 1 - j].t_in
                         /\ calls[l + j].t_out = now
      OBVIOUS
    <2>. DEFINE record == RecordOf(stack[n + 1 - j], now, TRUE)
    <2>1. calls[l + j] = record
      BY <1>4
    <2>2. /\ record.call_id = stack[n + 1 - j].call_id
          /\ record.parent = stack[n + 1 - j].parent
          /\ record.t_in = stack[n + 1 - j].t_in
          /\ record.t_out = now
      BY DEF RecordOf
    <2>. HIDE DEF record
    <2>. QED  BY <2>1, <2>2
  <1>6. Recorded(request, Staged, l, n, calls, new_entries)
    BY ShutdownRecords
  <1>7. n \in 0..Len(stack)
    BY <1>3
  <1>. HIDE DEF calls, l
  <1>. QED  BY <1>1, <1>2, <1>5, <1>6, <1>7, TreePopped, SMTT(30)

LEMMA TreeInit ==
    ASSUME Init
    PROVE  TreeInv
  <1>1. TypeOK /\ flushed = <<>> /\ stack = <<>>
    BY TypeInit DEF Init, EmptyTrace
  <1>2. ~trace_live
    BY Zenon DEF Init
  <1>3. \A r : ~IsCurrent(r)
    BY <1>2, Zenon DEF IsCurrent
  <1>4. \A r, b, i : ~CallPlace(r, b, i)
    BY <1>1, <1>3 DEF CallPlace
  <1>5. \A r : \A p : p \notin CallPlaces(r)
    BY <1>1, <1>4, PlacesAre
  <1>6. IssuedInv
    <2>1. \A r \in Requests : 0 \in 0..begun[r]
      BY <1>1 DEF TypeOK, EnvTypeOK
    <2>2. \A r : Issued(r, 0)
      BY <1>3, <1>5 DEF Issued
    <2>. QED  BY <2>1, <2>2 DEF IssuedInv
  <1>7. FrameIdsGrow /\ TracesInv
    BY <1>1 DEF FrameIdsGrow, TracesInv
  <1>8. OnceInv /\ EndedInv /\ ParentInv
    BY <1>5 DEF OnceInv, EndedInv, ParentInv
  <1>. QED  BY <1>6, <1>7, <1>8 DEF TreeInv

LEMMA TreeBegin ==
    ASSUME TypeOK, TypeOK', StackChain, TreeInv, Begin
    PROVE  TreeInv'
  <1>1. PICK fn \in Functions :
            BeginDroppedByDepth(fn) \/ BeginDroppedByCap(fn) \/ BeginAccepted(fn)
    BY DEF Begin
  <1>2. EngineBegins(fn)
    BY <1>1 DEF BeginDroppedByDepth, BeginDroppedByCap, BeginAccepted
  <1>3. /\ UNCHANGED <<request, buffer, flushed>>
        /\ now' = now + 1 /\ begun' = [begun EXCEPT ![request] = @ + 1]
    BY <1>2 DEF EngineBegins
  <1>4. trace_live /\ trace_live'
    BY <1>2, Zenon DEF EngineBegins, OnRequestThread
  <1>5. CASE BeginDroppedByDepth(fn) \/ BeginDroppedByCap(fn)
    <2>1. UNCHANGED <<stack, call_id_seq>>
      BY <1>5 DEF BeginDroppedByDepth, BeginDroppedByCap, RecordDrop
    <2>2. \A r \in Requests : begun'[r] \in {begun[r], begun[r] + 1}
      BY <1>3 DEF TypeOK, EnvTypeOK
    <2>3. UNCHANGED <<flushed, buffer, stack, call_id_seq, request>>
          /\ now' \in {now, now + 1}
      BY <1>3, <2>1
    <2>. QED  BY <1>4, <2>2, <2>3, TreeUntouched
  <1>6. CASE BeginAccepted(fn)
    <2>1. PICK frame : /\ stack' = Append(stack, frame)
                       /\ frame.call_id = call_id_seq + 1
                       /\ call_id_seq' = call_id_seq + 1
      BY <1>6 DEF BeginAccepted
    <2>. QED  BY <1>3, <1>4, <2>1, TreePushed
  <1>. QED  BY <1>1, <1>5, <1>6

\* The steps that are neither RINIT, nor a begin, nor an accepted end, nor
\* RSHUTDOWN.
LEMMA LiveUntouched ==
    ASSUME EndOfDroppedBegin \/ DiscardRefused \/ Shipper \/ UNCHANGED vars
    PROVE  trace_live' <=> trace_live
  <1>1. CASE EndOfDroppedBegin
    BY <1>1, Zenon DEF EndOfDroppedBegin, EngineEnds
  <1>2. CASE DiscardRefused \/ Shipper \/ UNCHANGED vars
    <2>1. UNCHANGED trace_vars
      BY <1>2, Zenon DEF DiscardRefused, Shipper, ShipperReceives, ShipperCountsDrop,
                         ShipperReleases, ShipperPanics, vars
    <2>. QED  BY <2>1, Zenon DEF trace_vars
  <1>. QED  BY <1>1, <1>2

LEMMA TreeStep ==
    ASSUME TypeOK, TypeOK', StackInv, IdleInv, StagedInv, TreeInv, [Next]_vars
    PROVE  TreeInv'
  <1>0. LifoCount /\ StackChain
    BY DEF StackInv
  <1>1. CASE EndOfDroppedBegin \/ DiscardRefused \/ Shipper \/ UNCHANGED vars
    <2>1. UNCHANGED <<flushed, buffer, stack, call_id_seq, request>>
          /\ now' \in {now, now + 1} /\ UNCHANGED begun
      BY <1>1 DEF EndOfDroppedBegin, EngineEnds, DiscardRefused, Shipper, ShipperReceives,
                  ShipperCountsDrop, ShipperReleases, ShipperPanics, vars, trace_vars,
                  env_vars, shared_vars
    <2>2. trace_live' <=> trace_live
      BY <1>1, LiveUntouched
    <2>3. \A r \in Requests : begun'[r] \in {begun[r], begun[r] + 1}
      BY <2>1
    <2>. QED  BY <2>1, <2>2, <2>3, TreeUntouched
  <1>2. CASE RInit
    BY <1>2, TreeRInit
  <1>3. CASE Begin
    BY <1>0, <1>3, TreeBegin
  <1>4. ASSUME NEW threw \in Throws, EndAccepted(threw)
        PROVE  TreeInv'
    BY <1>0, <1>4, TreeEndAccepted
  <1>5. CASE RShutdown
    BY <1>0, <1>5, TreeRShutdown
  <1>. QED  BY <1>1, <1>2, <1>3, <1>4, <1>5 DEF Next, RequestThread, End

LEMMA TreeAlways == Spec => [](TypeOK /\ StackInv /\ IdleInv /\ StagedInv /\ TreeInv)
  <1>1. Init => StackInv /\ IdleInv /\ StagedInv /\ TreeInv
    BY StackInit, IdleInit, StagedInit, TreeInit
  <1>2. /\ TypeOK /\ TypeOK' /\ StackInv /\ IdleInv /\ StagedInv /\ TreeInv /\ [Next]_vars
        => StackInv' /\ IdleInv' /\ StagedInv' /\ TreeInv'
    <2>1. TypeOK /\ StackInv => LifoCount
      BY DEF StackInv
    <2>. QED  BY <2>1, StackStep, IdleStep, StagedStep, TreeStep
  <1>. QED  BY <1>1, <1>2, TypeCorrect, PTL DEF Spec

\* Whatever is flushed early, refused or drained, the records of a trace are a
\* tree in the order of its ends: no id is lost, none is recorded twice, and a
\* parent is still open or recorded after its children.
THEOREM TreeCorrect == Spec => []RecordsFormATree
  <1>1. TypeOK /\ StackInv /\ TreeInv => RecordsFormATree
    BY TreeIsATree DEF StackInv
  <1>. QED  BY <1>1, TreeAlways, PTL

-----------------------------------------------------------------------------
(* The dictionary.  To DictionaryAnnounced the invariant adds that the     *)
(* live trace has numbered exactly the ids below next_fn_id and that       *)
(* intern is what its entries say.                                         *)

\* The fn_ids a trace has given, all of them met in an entry.
FnIdsUpTo(r, n) ==
    /\ IsCurrent(r) => n = next_fn_id - 1
    /\ r > request => n = 0
    /\ \A p \in EntryPlaces(r) : EntryAt(p).fn_id <= n
    /\ \A k \in 1..n : \E p \in EntryPlaces(r) : EntryAt(p).fn_id = k

NumberedInv == \A r \in Requests : \E n \in 0..begun[r] : FnIdsUpTo(r, n)

OrderedInv ==
    \A r \in Requests : \A p, q \in EntryPlaces(r) :
        /\ Before(p, q) => EntryAt(p).fn_id < EntryAt(q).fn_id
        /\ EntryAt(p).fn = EntryAt(q).fn => p = q

\* intern and the entries of the live trace say the same.
InternedInv ==
    \A r \in Requests : IsCurrent(r) =>
        /\ \A p \in EntryPlaces(r) : intern[EntryAt(p).fn] = EntryAt(p).fn_id
        /\ \A fn \in Functions : Interned(fn) =>
                \E p \in EntryPlaces(r) : EntryAt(p).fn_id = intern[fn]

\* The function of a record or an open frame is announced, not later than it.
NamedInv ==
    \A r \in Requests :
        /\ \A p \in CallPlaces(r) : \E q \in EntryPlaces(r) :
                q[1] <= p[1] /\ EntryAt(q).fn_id = CallAt(p).fn_id
        /\ \A i \in 1..Len(stack) : IsCurrent(r) =>
                \E q \in EntryPlaces(r) : EntryAt(q).fn_id = stack[i].fn_id

DictInv == NumberedInv /\ OrderedInv /\ InternedInv /\ NamedInv

LEMMA DictIsAnnounced ==
    ASSUME TypeOK, DictInv
    PROVE  DictionaryAnnounced
  <1>1. \A r : \A i : i \in DOMAIN OpenFrames(r) <=> IsCurrent(r) /\ i \in 1..Len(stack)
    BY StackFacts DEF OpenFrames
  <1>2. \A r : IsCurrent(r) => OpenFrames(r) = stack
    BY DEF OpenFrames
  <1>3. ASSUME NEW r \in Requests
        PROVE  \E n \in 0..begun[r] : {EntryAt(p).fn_id : p \in EntryPlaces(r)} = 1..n
    <2>1. PICK n \in 0..begun[r] : FnIdsUpTo(r, n)
      BY DEF DictInv, NumberedInv
    <2>2. n \in Nat
      BY DEF TypeOK, EnvTypeOK
    <2>3. ASSUME NEW p \in EntryPlaces(r)
          PROVE  EntryAt(p).fn_id \in 1..n
      <3>1. EntryAt(p) \in DictEntries
        BY PlacesAre, FoundAt
      <3>2. EntryAt(p).fn_id \in Nat \ {0} /\ EntryAt(p).fn_id <= n
        BY <2>1, <3>1 DEF FnIdsUpTo, DictEntries
      <3>. QED  BY <2>2, <3>2
    <2>4. \A k \in 1..n : \E p \in EntryPlaces(r) : EntryAt(p).fn_id = k
      BY <2>1 DEF FnIdsUpTo
    <2>5. {EntryAt(p).fn_id : p \in EntryPlaces(r)} = 1..n
      BY <2>3, <2>4
    <2>. QED  BY <2>5
  <1>4. ASSUME NEW r \in Requests
        PROVE  /\ \A p, q \in EntryPlaces(r) :
                    /\ Before(p, q) => EntryAt(p).fn_id < EntryAt(q).fn_id
                    /\ EntryAt(p).fn = EntryAt(q).fn => p = q
               /\ \A p \in CallPlaces(r) : \E q \in EntryPlaces(r) :
                    q[1] <= p[1] /\ EntryAt(q).fn_id = CallAt(p).fn_id
               /\ \A i \in DOMAIN OpenFrames(r) : \E q \in EntryPlaces(r) :
                    EntryAt(q).fn_id = OpenFrames(r)[i].fn_id
    BY <1>1, <1>2 DEF DictInv, OrderedInv, NamedInv
  <1>. QED  BY <1>3, <1>4 DEF DictionaryAnnounced

LEMMA DictInit ==
    ASSUME Init
    PROVE  DictInv
  <1>1. TypeOK /\ flushed = <<>> /\ stack = <<>>
    BY TypeInit DEF Init, EmptyTrace
  <1>2. ~trace_live
    BY Zenon DEF Init
  <1>3. \A r : ~IsCurrent(r)
    BY <1>2, Zenon DEF IsCurrent
  <1>4. \A r, b, i : ~CallPlace(r, b, i) /\ ~EntryPlace(r, b, i)
    BY <1>1, <1>3 DEF CallPlace, EntryPlace
  <1>5. \A r : \A p : p \notin CallPlaces(r) /\ p \notin EntryPlaces(r)
    BY <1>1, <1>4, PlacesAre
  <1>6. NumberedInv
    <2>1. \A r \in Requests : 0 \in 0..begun[r]
      BY <1>1 DEF TypeOK, EnvTypeOK
    <2>2. \A r : FnIdsUpTo(r, 0)
      BY <1>3, <1>5 DEF FnIdsUpTo
    <2>. QED  BY <2>1, <2>2 DEF NumberedInv
  <1>7. OrderedInv /\ InternedInv /\ NamedInv
    BY <1>3, <1>5 DEF OrderedInv, InternedInv, NamedInv
  <1>. QED  BY <1>6, <1>7 DEF DictInv

\* RINIT: the next trace has numbered nothing.
LEMMA DictRInit ==
    ASSUME TypeOK, TypeOK', DictInv, IdleInv, RInit
    PROVE  DictInv'
  <1>1. /\ request' = request + 1 /\ stack' = <<>> /\ next_fn_id' = 1
        /\ intern' = [fn \in Functions |-> 0]
        /\ UNCHANGED <<flushed, begun, buffer, new_entries>>
        /\ buffer = <<>> /\ new_entries = <<>>
        /\ request \in Nat /\ request' \in Nat
    BY ConfigFacts DEF RInit, ResetTrace, IdleInv, shared_vars, TypeOK, EnvTypeOK
  <1>2. ~trace_live
    BY Zenon DEF RInit
  <1>3. \A r : ~IsCurrent(r)
    BY <1>2, Zenon DEF IsCurrent
  <1>4. \A r : IsCurrent(r)' => r = request + 1
    BY <1>1 DEF IsCurrent
  <1>5. /\ \A r : CallPlaces(r)' = CallPlaces(r)
        /\ \A p : CallAt(p)' = CallAt(p)
    BY <1>1, CallsStay
  <1>6. /\ \A r : EntryPlaces(r)' = EntryPlaces(r)
        /\ \A p : EntryAt(p)' = EntryAt(p)
    BY <1>1, EntriesStay
  <1>7. \A i : ~(i \in 1..Len(stack'))
    BY <1>1
  <1>8. \A r \in Requests : r \in Nat
    BY DEF Requests
  <1>9. NumberedInv'
    <2>. SUFFICES ASSUME NEW r \in Requests, NEW n \in 0..begun[r], FnIdsUpTo(r, n)
                  PROVE  FnIdsUpTo(r, n)'
      BY <1>1 DEF DictInv, NumberedInv
    <2>1. (r = request + 1 => r > request) /\ (r > request' => r > request)
      BY <1>1, <1>8
    <2>. QED  BY <1>1, <1>3, <1>4, <1>6, <2>1 DEF FnIdsUpTo
  <1>10. OrderedInv'
    BY <1>6 DEF DictInv, OrderedInv
  <1>11. InternedInv'
    <2>. SUFFICES ASSUME NEW r \in Requests, IsCurrent(r)'
                  PROVE  /\ \A p : p \notin EntryPlaces(r)
                         /\ \A fn \in Functions : ~Interned(fn)'
      BY <1>6 DEF InternedInv
    <2>1. r > request
      BY <1>1, <1>4
    <2>2. FnIdsUpTo(r, 0)
      <3>1. PICK n \in 0..begun[r] : FnIdsUpTo(r, n)
        BY DEF DictInv, NumberedInv
      <3>2. n = 0
        BY <2>1, <3>1 DEF FnIdsUpTo
      <3>. QED  BY <3>1, <3>2
    <2>3. ASSUME NEW p \in EntryPlaces(r)
          PROVE  FALSE
      <3>1. EntryAt(p) \in DictEntries
        BY PlacesAre, FoundAt
      <3>2. EntryAt(p).fn_id \in Nat \ {0} /\ EntryAt(p).fn_id <= 0
        BY <2>2, <3>1 DEF DictEntries, FnIdsUpTo
      <3>. QED  BY <3>2
    <2>. QED  BY <1>1, <2>3 DEF Interned
  <1>12. NamedInv'
    BY <1>5, <1>6, <1>7 DEF DictInv, NamedInv
  <1>. QED  BY <1>9, <1>10, <1>11, <1>12 DEF DictInv

\* The dictionary and the records are left alone, and what is pushed is known.
LEMMA DictUntouched ==
    ASSUME TypeOK, TypeOK', DictInv,
           UNCHANGED <<flushed, buffer, new_entries, request, intern, next_fn_id>>,
           trace_live' <=> trace_live,
           \A r \in Requests : begun'[r] \in {begun[r], begun[r] + 1},
           \A i \in 1..Len(stack') :
                \/ i \in 1..Len(stack) /\ stack'[i].fn_id = stack[i].fn_id
                \/ \E fn \in Functions : Interned(fn) /\ stack'[i].fn_id = intern[fn]
    PROVE  DictInv'
  <1>1. \A r : IsCurrent(r)' <=> IsCurrent(r)
    BY Zenon DEF IsCurrent
  <1>2. /\ \A r : CallPlaces(r)' = CallPlaces(r)
        /\ \A p : CallAt(p)' = CallAt(p)
    BY <1>1, CallsStay
  <1>3. /\ \A r : EntryPlaces(r)' = EntryPlaces(r)
        /\ \A p : EntryAt(p)' = EntryAt(p)
    BY <1>1, EntriesStay
  <1>4. NumberedInv'
    <2>1. \A r \in Requests : begun[r] \in Nat
      BY DEF TypeOK, EnvTypeOK
    <2>2. ASSUME NEW r \in Requests
          PROVE  \E n \in 0..begun'[r] : FnIdsUpTo(r, n)'
      <3>1. PICK n \in 0..begun[r] : FnIdsUpTo(r, n)
        BY DEF DictInv, NumberedInv
      <3>2. n \in 0..begun'[r]
        BY <2>1
      <3>3. FnIdsUpTo(r, n)'
        BY <1>1, <1>3, <3>1 DEF FnIdsUpTo
      <3>. QED  BY <3>2, <3>3
    <2>. QED  BY <2>2 DEF NumberedInv
  <1>5. OrderedInv'
    BY <1>3 DEF DictInv, OrderedInv
  <1>6. InternedInv'
    BY <1>1, <1>3 DEF DictInv, InternedInv, Interned
  <1>7. NamedInv'
    <2>. SUFFICES ASSUME NEW r \in Requests
                  PROVE  /\ \A p \in CallPlaces(r) : \E q \in EntryPlaces(r) :
                                q[1] <= p[1] /\ EntryAt(q).fn_id = CallAt(p).fn_id
                         /\ \A i \in 1..Len(stack') : IsCurrent(r) =>
                                \E q \in EntryPlaces(r) : EntryAt(q).fn_id = stack'[i].fn_id
      BY <1>1, <1>2, <1>3 DEF NamedInv
    <2>1. ASSUME NEW i \in 1..Len(stack'), IsCurrent(r)
          PROVE  \E q \in EntryPlaces(r) : EntryAt(q).fn_id = stack'[i].fn_id
      <3>1. CASE i \in 1..Len(stack) /\ stack'[i].fn_id = stack[i].fn_id
        BY <2>1, <3>1 DEF DictInv, NamedInv
      <3>2. CASE \E fn \in Functions : Interned(fn) /\ stack'[i].fn_id = intern[fn]
        BY <2>1, <3>2 DEF DictInv, InternedInv
      <3>. QED  BY <3>1, <3>2
    <2>. QED  BY <2>1 DEF DictInv, NamedInv
  <1>. QED  BY <1>4, <1>5, <1>6, <1>7 DEF DictInv

\* Records move no entry.
LEMMA EntriesKept ==
    ASSUME TypeOK, TypeOK', trace_live, NEW calls, NEW n, NEW t, NEW m, NEW l,
           Recorded(t, m, l, n, calls, new_entries)
    PROVE  /\ \A r : EntryPlaces(r)' = EntryPlaces(r)
           /\ \A r : \A p \in EntryPlaces(r) : EntryAt(p)' = EntryAt(p)
  <1>1. PICK k \in Nat, dict \in Seq(DictEntries) : k = 0 /\ dict = new_entries
    BY DEF TypeOK, TraceTypeOK
  <1>2. /\ UNCHANGED request /\ dict \in Seq(DictEntries)
        /\ Len(dict) = Len(new_entries) + k
        /\ \A i \in 1..Len(new_entries) : dict[i] = new_entries[i]
        /\ Moved(calls, dict) /\ calls \in Seq(Records)
    BY <1>1, PlaceTypes DEF Recorded, TypeOK, TraceTypeOK
  <1>3. \A r, b, i :
            /\ EntryPlace(r, b, i)' <=>
                    \/ EntryPlace(r, b, i)
                    \/ /\ r = request /\ b = Len(flushed) + 1
                       /\ i \in (Len(new_entries) + 1)..(Len(new_entries) + k)
            /\ EntryPlace(r, b, i) => EntryAt(<<b, i>>)' = EntryAt(<<b, i>>)
            /\ /\ b = Len(flushed) + 1
               /\ i \in (Len(new_entries) + 1)..(Len(new_entries) + k)
               => EntryAt(<<b, i>>)' = dict[i]
    BY <1>2, EntriesMoved
  <1>0. \A i : ~(i \in (Len(new_entries) + 1)..(Len(new_entries) + k))
    BY <1>1, PlaceTypes
  <1>4. \A r, b, i : /\ EntryPlace(r, b, i)' <=> EntryPlace(r, b, i)
                     /\ EntryPlace(r, b, i) => EntryAt(<<b, i>>)' = EntryAt(<<b, i>>)
    BY <1>0, <1>3
  <1>5. ASSUME NEW r, NEW p \in EntryPlaces(r)
        PROVE  p \in EntryPlaces(r)' /\ EntryAt(p)' = EntryAt(p)
    <2>1. PICK b, i : p = <<b, i>> /\ EntryPlace(r, b, i)
      BY PlacesAre
    <2>2. EntryPlace(r, b, i)'
      BY <1>4, <2>1
    <2>. QED  BY <1>4, <2>1, <2>2, PlacesWillBe
  <1>6. ASSUME NEW r, NEW p \in EntryPlaces(r)'
        PROVE  p \in EntryPlaces(r)
    <2>1. PICK b, i : p = <<b, i>> /\ EntryPlace(r, b, i)'
      BY PlacesWillBe
    <2>2. EntryPlace(r, b, i)
      BY <1>4, <2>1
    <2>3. <<b, i>> \in EntryPlaces(r)
      BY <2>2, PlacesAre
    <2>. QED  BY <2>1, <2>3
  <1>7. \A r : EntryPlaces(r)' = EntryPlaces(r)
    <2>. TAKE r
    <2>1. \A p \in EntryPlaces(r) : p \in EntryPlaces(r)'
      BY <1>5
    <2>2. \A p \in EntryPlaces(r)' : p \in EntryPlaces(r)
      BY <1>6
    <2>. QED  BY <2>1, <2>2
  <1>. QED  BY <1>5, <1>7

\* Frames become records: their functions are announced in the batch of the
\* record or earlier.
LEMMA DictPopped ==
    ASSUME TypeOK, TypeOK', DictInv, trace_live,
           NEW calls, NEW n \in 0..Len(stack), NEW t, NEW m, NEW l,
           Recorded(t, m, l, n, calls, new_entries),
           \A j \in 1..n : calls[l + j].fn_id = stack[Len(stack) + 1 - j].fn_id,
           UNCHANGED begun,
           \/ /\ trace_live' /\ UNCHANGED <<intern, next_fn_id>>
              /\ \A i \in 1..Len(stack') : i \in 1..Len(stack) /\ stack'[i] = stack[i]
           \/ ~trace_live' /\ stack' = <<>>
    PROVE  DictInv'
  <1>1. /\ \A r : EntryPlaces(r)' = EntryPlaces(r)
        /\ \A r : \A p \in EntryPlaces(r) : EntryAt(p)' = EntryAt(p)
    BY EntriesKept
  <1>2. /\ \A r : \A p \in CallPlaces(r) : CallAt(p)' = CallAt(p)
        /\ \A r : \A p \in CallPlaces(r)' :
                p \in CallPlaces(r) \/ (r = t /\ \E j \in 1..n : p = <<m, l + j>>)
        /\ \A j \in 1..n : CallAt(<<m, l + j>>)' = calls[l + j]
    BY PoppedPlaces
  <1>3. /\ t = request /\ t = request' /\ m = Len(flushed) + 1
    BY DEF Recorded, Staged
  <1>4. \A r : IsCurrent(r) <=> r = t
    BY <1>3, Zenon DEF IsCurrent
  <1>5. \A r : IsCurrent(r)' => r = t /\ trace_live'
    BY <1>3, Zenon DEF IsCurrent
  <1>6. NumberedInv'
    <2>. SUFFICES ASSUME NEW r \in Requests, NEW k \in 0..begun[r], FnIdsUpTo(r, k)
                  PROVE  FnIdsUpTo(r, k)'
      BY DEF DictInv, NumberedInv
    <2>1. IsCurrent(r)' => k = next_fn_id' - 1
      <3>. SUFFICES ASSUME IsCurrent(r)'
                    PROVE  k = next_fn_id' - 1
        OBVIOUS
      <3>1. trace_live' /\ IsCurrent(r)
        BY <1>4, <1>5
      <3>2. UNCHANGED next_fn_id
        BY <3>1
      <3>. QED  BY <3>1, <3>2 DEF FnIdsUpTo
    <2>. QED  BY <1>1, <1>3, <2>1 DEF FnIdsUpTo
  <1>7. OrderedInv'
    BY <1>1 DEF DictInv, OrderedInv
  <1>8. InternedInv'
    <2>. SUFFICES ASSUME NEW r \in Requests, IsCurrent(r)'
                  PROVE  /\ \A p \in EntryPlaces(r) : intern'[EntryAt(p).fn] = EntryAt(p).fn_id
                         /\ \A fn \in Functions : Interned(fn)' =>
                                \E p \in EntryPlaces(r) : EntryAt(p).fn_id = intern'[fn]
      BY <1>1 DEF InternedInv
    <2>1. trace_live' /\ IsCurrent(r)
      BY <1>4, <1>5
    <2>2. UNCHANGED intern
      BY <2>1
    <2>. QED  BY <2>1, <2>2 DEF DictInv, InternedInv, Interned
  <1>9. NamedInv'
    <2>. SUFFICES ASSUME NEW r \in Requests
                  PROVE  /\ \A p \in CallPlaces(r)' : \E q \in EntryPlaces(r) :
                                q[1] <= p[1] /\ EntryAt(q).fn_id = CallAt(p)'.fn_id
                         /\ \A i \in 1..Len(stack') : IsCurrent(r)' =>
                                \E q \in EntryPlaces(r) : EntryAt(q).fn_id = stack'[i].fn_id
      BY <1>1, ZenonT(60) DEF NamedInv
    <2>1. ASSUME NEW p \in CallPlaces(r)'
          PROVE  \E q \in EntryPlaces(r) :
                    q[1] <= p[1] /\ EntryAt(q).fn_id = CallAt(p)'.fn_id
      <3>1. CASE p \in CallPlaces(r)
        BY <1>2, <3>1 DEF DictInv, NamedInv
      <3>2. ASSUME NEW j \in 1..n, r = t, p = <<m, l + j>>
            PROVE  \E q \in EntryPlaces(r) :
                        q[1] <= p[1] /\ EntryAt(q).fn_id = CallAt(p)'.fn_id
        <4>1. CallAt(p)'.fn_id = stack[Len(stack) + 1 - j].fn_id
          BY <1>2, <3>2
        <4>2. Len(stack) + 1 - j \in 1..Len(stack)
          BY StackNumbers
        <4>3. PICK q \in EntryPlaces(r) : EntryAt(q).fn_id = stack[Len(stack) + 1 - j].fn_id
          BY <1>4, <3>2, <4>2 DEF DictInv, NamedInv
        <4>4. q[1] <= m
          BY <1>3, PlacesAre, FoundAt
        <4>. QED  BY <3>2, <4>1, <4>3, <4>4
      <3>. QED  BY <1>2, <3>1, <3>2
    <2>2. ASSUME NEW i \in 1..Len(stack'), IsCurrent(r)'
          PROVE  \E q \in EntryPlaces(r) : EntryAt(q).fn_id = stack'[i].fn_id
      <3>1. trace_live' /\ IsCurrent(r)
        BY <1>4, <1>5, <2>2
      <3>2. i \in 1..Len(stack) /\ stack'[i] = stack[i]
        BY <3>1
      <3>. QED  BY <3>1, <3>2 DEF DictInv, NamedInv
    <2>. QED  BY <2>1, <2>2
  <1>. QED  BY <1>6, <1>7, <1>8, <1>9 DEF DictInv

\* A first sighting adds one entry behind all others.
LEMMA EntryPushed ==
    ASSUME TypeOK, TypeOK', trace_live, trace_live', UNCHANGED <<flushed, buffer, request>>,
           NEW entry \in DictEntries, new_entries' = Append(new_entries, entry),
           NEW t, t = request, NEW last, last = <<Staged, Len(new_entries) + 1>>
    PROVE  /\ \A r : \A p \in EntryPlaces(r) :
                /\ p \in EntryPlaces(r)' /\ EntryAt(p)' = EntryAt(p)
                /\ r = t => p # last /\ Before(p, last) /\ ~Before(last, p)
           /\ \A r : \A p \in EntryPlaces(r)' : p \in EntryPlaces(r) \/ (r = t /\ p = last)
           /\ last \in EntryPlaces(t)' /\ EntryAt(last)' = entry
  <1>1. /\ Len(flushed) \in Nat /\ Len(new_entries) \in Nat
        /\ new_entries \in Seq(DictEntries) /\ buffer \in Seq(Records)
    BY PlaceTypes DEF TypeOK, TraceTypeOK
  <1>2. PICK m, k, dict : /\ m = Len(flushed) + 1 /\ k = Len(new_entries)
                          /\ dict = Append(new_entries, entry)
    OBVIOUS
  <1>. PICK n \in Nat : n = 1
    OBVIOUS
  <1>3. /\ UNCHANGED request /\ Moved(buffer, dict) /\ dict \in Seq(DictEntries)
        /\ Len(dict) = Len(new_entries) + n
        /\ \A i \in 1..Len(new_entries) : dict[i] = new_entries[i]
    BY <1>1, <1>2, AppendProperties DEF Moved
  <1>4. \A r, b, i :
            /\ EntryPlace(r, b, i)' <=>
                    \/ EntryPlace(r, b, i)
                    \/ /\ r = request /\ b = Len(flushed) + 1
                       /\ i \in (Len(new_entries) + 1)..(Len(new_entries) + n)
            /\ EntryPlace(r, b, i) => EntryAt(<<b, i>>)' = EntryAt(<<b, i>>)
            /\ /\ b = Len(flushed) + 1
               /\ i \in (Len(new_entries) + 1)..(Len(new_entries) + n)
               => EntryAt(<<b, i>>)' = dict[i]
    BY <1>3, EntriesMoved
  <1>5. /\ \A r, b, i :
            /\ EntryPlace(r, b, i)' <=>
                    EntryPlace(r, b, i) \/ (r = t /\ b = m /\ i = k + 1)
            /\ EntryPlace(r, b, i) => EntryAt(<<b, i>>)' = EntryAt(<<b, i>>)
        /\ EntryAt(<<m, k + 1>>)' = entry
        /\ last = <<m, k + 1>> /\ m \in Nat /\ k \in Nat
    <2>1. \A i : i \in (Len(new_entries) + 1)..(Len(new_entries) + n) <=> i = k + 1
      BY <1>1, <1>2
    <2>2. dict[k + 1] = entry
      BY <1>1, <1>2, AppendProperties
    <2>3. EntryAt(<<m, k + 1>>)' = dict[k + 1]
      BY <1>2, <1>4, <2>1
    <2>4. last = <<m, k + 1>> /\ m \in Nat /\ k \in Nat
      BY <1>1, <1>2 DEF Staged
    <2>. QED  BY <1>2, <1>4, <2>1, <2>2, <2>3, <2>4
  <1>6. ASSUME NEW r, NEW p \in EntryPlaces(r)
        PROVE  /\ p \in EntryPlaces(r)' /\ EntryAt(p)' = EntryAt(p)
               /\ r = t => p # last /\ Before(p, last) /\ ~Before(last, p)
    <2>1. PICK b, i : p = <<b, i>> /\ EntryPlace(r, b, i)
      BY PlacesAre
    <2>2. EntryPlace(r, b, i)'
      BY <1>5, <2>1
    <2>3. p \in EntryPlaces(r)' /\ EntryAt(p)' = EntryAt(p)
      BY <1>5, <2>1, <2>2, PlacesWillBe
    <2>4. b \in Nat /\ i \in Nat
      BY <2>1, FoundAt
    <2>5. b < m \/ (b = m /\ i < k + 1)
      BY <1>1, <1>2, <2>1 DEF EntryPlace
    <2>6. p # last /\ Before(p, last) /\ ~Before(last, p)
      BY <1>5, <2>1, <2>4, <2>5 DEF Before
    <2>. QED  BY <2>3, <2>6
  <1>7. ASSUME NEW r, NEW p \in EntryPlaces(r)'
        PROVE  p \in EntryPlaces(r) \/ (r = t /\ p = last)
    <2>1. PICK b, i : p = <<b, i>> /\ EntryPlace(r, b, i)'
      BY PlacesWillBe
    <2>2. EntryPlace(r, b, i) \/ (r = t /\ b = m /\ i = k + 1)
      BY <1>5, <2>1
    <2>3. EntryPlace(r, b, i) => <<b, i>> \in EntryPlaces(r)
      BY PlacesAre
    <2>. QED  BY <1>5, <2>1, <2>2, <2>3
  <1>8. last \in EntryPlaces(t)' /\ EntryAt(last)' = entry
    <2>1. EntryPlace(t, m, k + 1)'
      BY <1>5
    <2>2. <<m, k + 1>> \in EntryPlaces(t)'
      BY <2>1, PlacesWillBe
    <2>. QED  BY <1>5, <2>2
  <1>. QED  BY <1>6, <1>7, <1>8

LEMMA DictPushed ==
    ASSUME TypeOK, TypeOK', DictInv, trace_live, trace_live',
           UNCHANGED <<flushed, buffer, request>>,
           begun' = [begun EXCEPT ![request] = @ + 1],
           NEW fn \in Functions, ~Interned(fn),
           intern' = [intern EXCEPT ![fn] = next_fn_id], next_fn_id' = next_fn_id + 1,
           new_entries' = Append(new_entries, [fn_id |-> next_fn_id, fn |-> fn]),
           \A i \in 1..Len(stack') :
                \/ i \in 1..Len(stack) /\ stack'[i].fn_id = stack[i].fn_id
                \/ stack'[i].fn_id = next_fn_id
    PROVE  DictInv'
  <1>0. /\ next_fn_id \in Nat \ {0} /\ request \in Nat /\ request \in Requests
        /\ begun \in [Requests -> Nat] /\ intern \in [Functions -> Nat]
    <2>1. request \in Requests
      BY Zenon DEF TypeOK, EnvTypeOK
    <2>2. request \in Nat
      BY <2>1, ConfigFacts DEF Requests
    <2>. QED  BY <2>1, <2>2, Zenon DEF TypeOK, TraceTypeOK, EnvTypeOK
  <1>1. PICK entry \in DictEntries : entry = [fn_id |-> next_fn_id, fn |-> fn]
    BY <1>0 DEF DictEntries
  <1>2. PICK t : t = request
    OBVIOUS
  <1>3. PICK last : last = <<Staged, Len(new_entries) + 1>>
    OBVIOUS
  <1>4. /\ \A r : \A p \in EntryPlaces(r) :
                /\ p \in EntryPlaces(r)' /\ EntryAt(p)' = EntryAt(p)
                /\ r = t => p # last /\ Before(p, last) /\ ~Before(last, p)
        /\ \A r : \A p \in EntryPlaces(r)' : p \in EntryPlaces(r) \/ (r = t /\ p = last)
        /\ last \in EntryPlaces(t)' /\ EntryAt(last)' = entry
    BY <1>1, <1>2, <1>3, EntryPushed
  <1>5. \A r : (IsCurrent(r)' <=> r = t) /\ (IsCurrent(r) <=> r = t)
    BY <1>2, Zenon DEF IsCurrent
  <1>6. /\ \A r : CallPlaces(r)' = CallPlaces(r)
        /\ \A p : CallAt(p)' = CallAt(p)
    <2>1. \A r : IsCurrent(r)' <=> IsCurrent(r)
      BY <1>5
    <2>. QED  BY <2>1, CallsStay
  <1>7. entry.fn_id = next_fn_id /\ entry.fn = fn
    BY <1>1
  <1>8. \A r : \A p \in EntryPlaces(r) : EntryAt(p).fn_id \in Nat \ {0} /\ EntryAt(p).fn \in Functions
    <2>. SUFFICES ASSUME NEW r, NEW p \in EntryPlaces(r)
                  PROVE  EntryAt(p).fn_id \in Nat \ {0} /\ EntryAt(p).fn \in Functions
      OBVIOUS
    <2>1. EntryAt(p) \in DictEntries
      BY PlacesAre, FoundAt
    <2>. QED  BY <2>1 DEF DictEntries
  <1>9. \A r \in Requests : r = t => \A p \in EntryPlaces(r) :
            EntryAt(p).fn_id < next_fn_id /\ EntryAt(p).fn # fn
    <2>. SUFFICES ASSUME NEW r \in Requests, r = t, NEW p \in EntryPlaces(r)
                  PROVE  EntryAt(p).fn_id < next_fn_id /\ EntryAt(p).fn # fn
      OBVIOUS
    <2>1. PICK n \in 0..begun[r] : FnIdsUpTo(r, n)
      BY DEF DictInv, NumberedInv
    <2>2. EntryAt(p).fn_id <= next_fn_id - 1
      BY <1>5, <2>1 DEF FnIdsUpTo
    <2>3. intern[EntryAt(p).fn] = EntryAt(p).fn_id
      BY <1>5 DEF DictInv, InternedInv
    <2>4. intern[fn] = 0
      BY DEF Interned
    <2>5. EntryAt(p).fn_id \in Nat \ {0}
      BY <1>8
    <2>. QED  BY <1>0, <2>2, <2>3, <2>4, <2>5
  <1>10. NumberedInv'
    <2>. SUFFICES ASSUME NEW r \in Requests
                  PROVE  \E n \in 0..begun'[r] : FnIdsUpTo(r, n)'
      BY DEF NumberedInv
    <2>1. PICK n \in 0..begun[r] : FnIdsUpTo(r, n)
      BY DEF DictInv, NumberedInv
    <2>2. n \in Nat
      BY <1>0
    <2>3. CASE r = t
      <3>1. n = next_fn_id - 1
        BY <1>5, <2>1, <2>3 DEF FnIdsUpTo
      <3>2. \A p \in EntryPlaces(r)' : EntryAt(p)'.fn_id <= n + 1
        <4>. SUFFICES ASSUME NEW p \in EntryPlaces(r)'
                      PROVE  EntryAt(p)'.fn_id <= n + 1
          OBVIOUS
        <4>1. CASE p \in EntryPlaces(r)
          <5>1. EntryAt(p)' = EntryAt(p) /\ EntryAt(p).fn_id \in Nat
            BY <1>4, <1>8, <4>1
          <5>2. EntryAt(p).fn_id <= n
            BY <2>1, <4>1 DEF FnIdsUpTo
          <5>. QED  BY <2>2, <5>1, <5>2
        <4>2. CASE p = last
          <5>1. EntryAt(p)'.fn_id = next_fn_id
            BY <1>4, <1>7, <4>2
          <5>. QED  BY <1>0, <3>1, <5>1
        <4>. QED  BY <1>4, <4>1, <4>2
      <3>3. ASSUME NEW k \in 1..(n + 1)
            PROVE  \E p \in EntryPlaces(r)' : EntryAt(p)'.fn_id = k
        <4>1. CASE k = n + 1
          <5>1. last \in EntryPlaces(r)' /\ EntryAt(last)'.fn_id = next_fn_id
            BY <1>4, <1>7, <2>3
          <5>. QED  BY <1>0, <3>1, <4>1, <5>1
        <4>2. CASE k \in 1..n
          <5>1. PICK p \in EntryPlaces(r) : EntryAt(p).fn_id = k
            BY <2>1, <4>2 DEF FnIdsUpTo
          <5>. QED  BY <1>4, <5>1
        <4>. QED  BY <2>2, <4>1, <4>2
      <3>4. n + 1 = next_fn_id' - 1
        BY <1>0, <3>1
      <3>5. ~(r > request')
        BY <1>0, <1>2, <2>3
      <3>6. FnIdsUpTo(r, n + 1)'
        BY <3>2, <3>3, <3>4, <3>5 DEF FnIdsUpTo
      <3>7. n + 1 \in 0..begun'[r]
        BY <1>0, <1>2, <2>3
      <3>. QED  BY <3>6, <3>7
    <2>4. CASE r # t
      <3>1. ~IsCurrent(r)'
        BY <1>5, <2>4
      <3>2. FnIdsUpTo(r, n)'
        BY <1>4, <2>1, <2>4, <3>1 DEF FnIdsUpTo
      <3>3. begun'[r] = begun[r]
        BY <1>0, <1>2, <2>4
      <3>. QED  BY <3>2, <3>3
    <2>. QED  BY <2>3, <2>4
  <1>11. OrderedInv'
    <2>. SUFFICES ASSUME NEW r \in Requests, NEW p \in EntryPlaces(r)', NEW q \in EntryPlaces(r)'
                  PROVE  /\ Before(p, q) => EntryAt(p)'.fn_id < EntryAt(q)'.fn_id
                         /\ EntryAt(p)'.fn = EntryAt(q)'.fn => p = q
      BY DEF OrderedInv, Before
    <2>1. CASE p \in EntryPlaces(r) /\ q \in EntryPlaces(r)
      <3>1. EntryAt(p)' = EntryAt(p) /\ EntryAt(q)' = EntryAt(q)
        BY <1>4, <2>1
      <3>. QED  BY <2>1, <3>1 DEF DictInv, OrderedInv
    <2>2. CASE p \in EntryPlaces(r) /\ r = t /\ q = last
      <3>1. EntryAt(p)' = EntryAt(p) /\ EntryAt(q)'.fn_id = next_fn_id /\ EntryAt(q)'.fn = fn
        BY <1>4, <1>7, <2>2
      <3>2. EntryAt(p).fn_id < next_fn_id /\ EntryAt(p).fn # fn
        BY <1>9, <2>2
      <3>. QED  BY <3>1, <3>2
    <2>3. CASE r = t /\ p = last /\ q \in EntryPlaces(r)
      <3>1. EntryAt(q)' = EntryAt(q) /\ EntryAt(p)'.fn = fn
        BY <1>4, <1>7, <2>3
      <3>2. EntryAt(q).fn # fn /\ ~Before(p, q)
        BY <1>4, <1>9, <2>3
      <3>. QED  BY <3>1, <3>2
    <2>4. CASE p = last /\ q = last
      <3>1. ~Before(last, last)
        BY <1>3, PlaceTypes DEF Before, Staged
      <3>. QED  BY <2>4, <3>1
    <2>. QED  BY <1>4, <2>1, <2>2, <2>3, <2>4
  <1>12. InternedInv'
    <2>. SUFFICES ASSUME NEW r \in Requests, r = t
                  PROVE  /\ \A p \in EntryPlaces(r)' : intern'[EntryAt(p)'.fn] = EntryAt(p)'.fn_id
                         /\ \A f \in Functions : intern'[f] # 0 =>
                                \E p \in EntryPlaces(r)' : EntryAt(p)'.fn_id = intern'[f]
      BY <1>5 DEF InternedInv, Interned
    <2>1. ASSUME NEW p \in EntryPlaces(r)'
          PROVE  intern'[EntryAt(p)'.fn] = EntryAt(p)'.fn_id
      <3>1. CASE p \in EntryPlaces(r)
        <4>1. EntryAt(p)' = EntryAt(p) /\ EntryAt(p).fn # fn /\ EntryAt(p).fn \in Functions
          BY <1>4, <1>8, <1>9, <3>1
        <4>2. intern[EntryAt(p).fn] = EntryAt(p).fn_id
          BY <1>5, <3>1 DEF DictInv, InternedInv
        <4>. QED  BY <1>0, <4>1, <4>2
      <3>2. CASE p = last
        <4>1. EntryAt(p)'.fn = fn /\ EntryAt(p)'.fn_id = next_fn_id
          BY <1>4, <1>7, <3>2
        <4>. QED  BY <1>0, <4>1
      <3>. QED  BY <1>4, <3>1, <3>2
    <2>2. ASSUME NEW f \in Functions, intern'[f] # 0
          PROVE  \E p \in EntryPlaces(r)' : EntryAt(p)'.fn_id = intern'[f]
      <3>1. CASE f = fn
        <4>1. last \in EntryPlaces(r)' /\ EntryAt(last)'.fn_id = next_fn_id
          BY <1>4, <1>7
        <4>2. intern'[f] = next_fn_id
          BY <1>0, <3>1
        <4>. QED  BY <4>1, <4>2
      <3>2. CASE f # fn
        <4>1. intern'[f] = intern[f]
          BY <1>0, <3>2
        <4>2. PICK p \in EntryPlaces(r) : EntryAt(p).fn_id = intern[f]
          BY <1>5, <2>2, <4>1 DEF DictInv, InternedInv, Interned
        <4>. QED  BY <1>4, <4>1, <4>2
      <3>. QED  BY <3>1, <3>2
    <2>. QED  BY <2>1, <2>2
  <1>13. NamedInv'
    <2>. SUFFICES ASSUME NEW r \in Requests
                  PROVE  /\ \A p \in CallPlaces(r) : \E q \in EntryPlaces(r)' :
                                q[1] <= p[1] /\ EntryAt(q)'.fn_id = CallAt(p).fn_id
                         /\ \A i \in 1..Len(stack') : r = t =>
                                \E q \in EntryPlaces(r)' : EntryAt(q)'.fn_id = stack'[i].fn_id
      BY <1>5, <1>6 DEF NamedInv
    <2>1. ASSUME NEW p \in CallPlaces(r)
          PROVE  \E q \in EntryPlaces(r)' :
                    q[1] <= p[1] /\ EntryAt(q)'.fn_id = CallAt(p).fn_id
      <3>1. PICK q \in EntryPlaces(r) : q[1] <= p[1] /\ EntryAt(q).fn_id = CallAt(p).fn_id
        BY DEF DictInv, NamedInv
      <3>. QED  BY <1>4, <3>1
    <2>2. ASSUME NEW i \in 1..Len(stack'), r = t
          PROVE  \E q \in EntryPlaces(r)' : EntryAt(q)'.fn_id = stack'[i].fn_id
      <3>1. CASE i \in 1..Len(stack) /\ stack'[i].fn_id = stack[i].fn_id
        <4>1. PICK q \in EntryPlaces(r) : EntryAt(q).fn_id = stack[i].fn_id
          BY <1>5, <2>2, <3>1 DEF DictInv, NamedInv
        <4>. QED  BY <1>4, <3>1, <4>1
      <3>2. CASE stack'[i].fn_id = next_fn_id
        <4>1. last \in EntryPlaces(r)' /\ EntryAt(last)'.fn_id = next_fn_id
          BY <1>4, <1>7, <2>2
        <4>. QED  BY <3>2, <4>1
      <3>. QED  BY <3>1, <3>2
    <2>. QED  BY <2>1, <2>2
  <1>. QED  BY <1>10, <1>11, <1>12, <1>13 DEF DictInv

LEMMA DictBegin ==
    ASSUME TypeOK, TypeOK', DictInv, Begin
    PROVE  DictInv'
  <1>1. PICK fn \in Functions :
            BeginDroppedByDepth(fn) \/ BeginDroppedByCap(fn) \/ BeginAccepted(fn)
    BY DEF Begin
  <1>2. EngineBegins(fn)
    BY <1>1 DEF BeginDroppedByDepth, BeginDroppedByCap, BeginAccepted
  <1>3. /\ UNCHANGED <<request, buffer, flushed>>
        /\ begun' = [begun EXCEPT ![request] = @ + 1]
    BY <1>2 DEF EngineBegins
  <1>4. trace_live /\ trace_live'
    BY <1>2, Zenon DEF EngineBegins, OnRequestThread
  <1>5. \A r \in Requests : begun'[r] \in {begun[r], begun[r] + 1}
    BY <1>3 DEF TypeOK, EnvTypeOK
  <1>6. CASE BeginDroppedByDepth(fn) \/ BeginDroppedByCap(fn)
    <2>1. UNCHANGED <<stack, intern, next_fn_id, new_entries>>
      BY <1>6 DEF BeginDroppedByDepth, BeginDroppedByCap, RecordDrop
    <2>2. \A i \in 1..Len(stack') : i \in 1..Len(stack) /\ stack'[i].fn_id = stack[i].fn_id
      BY <2>1
    <2>. QED  BY <1>3, <1>4, <1>5, <2>1, <2>2, DictUntouched
  <1>7. CASE BeginAccepted(fn)
    <2>1. PICK frame : stack' = Append(stack, frame) /\ frame.fn_id = intern'[fn]
      BY <1>7 DEF BeginAccepted
    <2>2. \A i \in 1..Len(stack') :
            \/ i \in 1..Len(stack) /\ stack'[i].fn_id = stack[i].fn_id
            \/ stack'[i].fn_id = intern'[fn]
      <3>. TAKE i \in 1..Len(stack')
      <3>1. Len(stack) \in Nat /\ stack \in Seq(Frames)
        BY StackFacts
      <3>2. i \in 1..Len(stack) \/ i = Len(stack) + 1
        BY <2>1, <3>1
      <3>. QED  BY <2>1, <3>1, <3>2
    <2>3. InternRef(fn)
      BY <1>7 DEF BeginAccepted
    <2>4. CASE Interned(fn)
      <3>1. UNCHANGED <<intern, next_fn_id, new_entries>>
        BY <2>3, <2>4 DEF InternRef
      <3>2. \A i \in 1..Len(stack') :
                \/ i \in 1..Len(stack) /\ stack'[i].fn_id = stack[i].fn_id
                \/ \E f \in Functions : Interned(f) /\ stack'[i].fn_id = intern[f]
        BY <2>2, <2>4, <3>1
      <3>. QED  BY <1>3, <1>4, <1>5, <3>1, <3>2, DictUntouched
    <2>5. CASE ~Interned(fn)
      <3>1. /\ intern' = [intern EXCEPT ![fn] = next_fn_id]
            /\ new_entries' = Append(new_entries, [fn_id |-> next_fn_id, fn |-> fn])
            /\ next_fn_id' = next_fn_id + 1
        BY <2>3, <2>5 DEF InternRef
      <3>2. intern'[fn] = next_fn_id
        BY <3>1, StackFacts
      <3>3. \A i \in 1..Len(stack') :
                \/ i \in 1..Len(stack) /\ stack'[i].fn_id = stack[i].fn_id
                \/ stack'[i].fn_id = next_fn_id
        BY <2>2, <3>2
      <3>. QED  BY <1>3, <1>4, <2>5, <3>1, <3>3, DictPushed
    <2>. QED  BY <2>4, <2>5
  <1>. QED  BY <1>1, <1>6, <1>7

LEMMA DictEndAccepted ==
    ASSUME TypeOK, TypeOK', LifoCount, DictInv, NEW threw \in Throws, EndAccepted(threw)
    PROVE  DictInv'
  <1>. DEFINE calls == Append(buffer, EndRecord(threw))
              l == Len(buffer)
  <1>1. /\ trace_live /\ EngineEnds /\ stack # <<>> /\ stack' = Front(stack)
        /\ EndRecord(threw) \in Records /\ buffer \in Seq(Records)
    BY EndCases DEF TypeOK, TraceTypeOK
  <1>2. trace_live' /\ UNCHANGED <<intern, next_fn_id, begun>>
    BY <1>1, Zenon DEF EngineEnds
  <1>3. stack \in Seq(Frames) /\ Len(stack) \in Nat
    BY StackFacts
  <1>4. /\ Len(stack) >= 1 /\ Len(stack') = Len(stack) - 1
        /\ \A i \in 1..(Len(stack) - 1) : stack'[i] = stack[i]
        /\ Last(stack) = stack[Len(stack)]
    BY <1>1, <1>3, FrontProperties DEF Last
  <1>5. \A i \in 1..Len(stack') : i \in 1..Len(stack) /\ stack'[i] = stack[i]
    BY <1>3, <1>4
  <1>6. calls[l + 1].fn_id = stack[Len(stack)].fn_id
    <2>1. EndRecord(threw).fn_id = stack[Len(stack)].fn_id
      BY <1>4 DEF EndRecord, RecordOf
    <2>2. calls[l + 1] = EndRecord(threw)
      BY <1>1
    <2>. HIDE DEF calls
    <2>. QED  BY <2>1, <2>2
  <1>. HIDE DEF calls
  <1>7. \A j \in 1..1 : calls[l + j].fn_id = stack[Len(stack) + 1 - j].fn_id
    <2>1. \A j \in 1..1 : j = 1 /\ Len(stack) + 1 - j = Len(stack)
      BY <1>3
    <2>. QED  BY <1>6, <2>1
  <1>8. Recorded(request, Staged, l, 1, calls, new_entries)
    BY EndRecords DEF calls
  <1>9. 1 \in 0..Len(stack)
    BY <1>3, <1>4
  <1>. HIDE DEF l
  <1>. QED  BY <1>1, <1>2, <1>5, <1>7, <1>8, <1>9, DictPopped

LEMMA DictRShutdown ==
    ASSUME TypeOK, TypeOK', StagedInv, DictInv, RShutdown
    PROVE  DictInv'
  <1>. DEFINE calls == buffer \o DrainedRecords
              l == Len(buffer)
              n == Len(stack)
  <1>1. /\ trace_live /\ ~trace_live' /\ ResetTrace /\ UNCHANGED begun
        /\ DrainedRecords \in Seq(Records) /\ Len(DrainedRecords) = n
        /\ calls \in Seq(Records)
    BY ShutdownCases
  <1>2. stack' = <<>>
    BY <1>1 DEF ResetTrace
  <1>3. buffer \in Seq(Records) /\ l \in Nat /\ n \in Nat
    BY StackFacts, LenProperties DEF TypeOK, TraceTypeOK
  <1>4. \A j \in 1..n : calls[l + j].fn_id = stack[n + 1 - j].fn_id
    <2>. DEFINE drained == DrainedRecords
    <2>1. drained \in Seq(Records) /\ calls = buffer \o drained /\ Len(drained) = n
      BY <1>1
    <2>2. \A j \in 1..n : drained[j].fn_id = stack[n + 1 - j].fn_id
      BY DEF DrainedRecords, RecordOf
    <2>. HIDE DEF drained, calls, n
    <2>3. \A j \in 1..n : calls[l + j] = drained[j]
      BY <1>3, <2>1
    <2>. QED  BY <2>2, <2>3
  <1>5. Recorded(request, Staged, l, n, calls, new_entries)
    BY ShutdownRecords
  <1>6. n \in 0..Len(stack)
    BY <1>3
  <1>7. trace_live /\ ~trace_live' /\ stack' = <<>> /\ UNCHANGED begun
    BY <1>1, <1>2
  <1>. HIDE DEF calls, l
  <1>. QED  BY <1>4, <1>5, <1>6, <1>7, DictPopped, SMTT(30)

LEMMA DictStep ==
    ASSUME TypeOK, TypeOK', LifoCount, IdleInv, StagedInv, DictInv, [Next]_vars
    PROVE  DictInv'
  <1>1. CASE EndOfDroppedBegin \/ DiscardRefused \/ Shipper \/ UNCHANGED vars
    <2>1. UNCHANGED <<flushed, buffer, new_entries, request, intern, next_fn_id, stack, begun>>
      BY <1>1 DEF EndOfDroppedBegin, EngineEnds, DiscardRefused, Shipper, ShipperReceives,
                  ShipperCountsDrop, ShipperReleases, ShipperPanics, vars, trace_vars,
                  env_vars, shared_vars
    <2>2. trace_live' <=> trace_live
      BY <1>1, LiveUntouched
    <2>3. \A r \in Requests : begun'[r] \in {begun[r], begun[r] + 1}
      BY <2>1
    <2>4. \A i \in 1..Len(stack') : i \in 1..Len(stack) /\ stack'[i].fn_id = stack[i].fn_id
      BY <2>1
    <2>. QED  BY <2>1, <2>2, <2>3, <2>4, DictUntouched
  <1>2. CASE RInit
    BY <1>2, DictRInit
  <1>3. CASE Begin
    BY <1>3, DictBegin
  <1>4. ASSUME NEW threw \in Throws, EndAccepted(threw)
        PROVE  DictInv'
    BY <1>4, DictEndAccepted
  <1>5. CASE RShutdown
    BY <1>5, DictRShutdown
  <1>. QED  BY <1>1, <1>2, <1>3, <1>4, <1>5 DEF Next, RequestThread, End

\* A reader of a trace's batches in order can name the function of every record
\* when it meets it: fn_ids are dense, in order of first sighting, one for each
\* function, and announced with the record at the latest.
THEOREM DictionaryCorrect == Spec => []DictionaryAnnounced
  <1>1. Init => DictInv
    BY DictInit
  <1>2. /\ TypeOK /\ TypeOK' /\ StackInv /\ IdleInv /\ StagedInv /\ DictInv /\ [Next]_vars
        => DictInv'
    <2>1. StackInv => LifoCount
      BY DEF StackInv
    <2>. QED  BY <2>1, DictStep
  <1>3. TypeOK /\ DictInv => DictionaryAnnounced
    BY DictIsAnnounced
  <1>. QED  BY <1>1, <1>2, <1>3, TreeAlways, PTL DEF Spec

=============================================================================
