-------------------------------- MODULE Wire --------------------------------
(***************************************************************************)
(* The wire format of php-analyze (wire.rs) and the conversion of a        *)
(* recorder's batch to it (shipper/encode.rs).  A MessagePack map is a     *)
(* record with the map's keys; what a body that is not such a map decodes  *)
(* to is the decoder's error.  The identity of the process and request     *)
(* (host, pid, sapi, uri) is left out, a trace stands for its UUID.        *)
(***************************************************************************)
EXTENDS Integers, Sequences

SCHEMA_VERSION == 1
MEDIA_TYPE == "application/vnd.php-analyze.v1+msgpack"

FunctionKinds == {"Function", "Method", "Closure", "Internal"}

function_kind_to_wire(kind) ==
    CASE kind = "Function" -> 0
      [] kind = "Method"   -> 1
      [] kind = "Closure"  -> 2
      [] kind = "Internal" -> 3

\* try_from of the decoder refuses any other number.
WireKinds == 0..3

call_record_to_wire(call) ==
    [call_id |-> call.call_id, parent |-> call.parent, fn |-> call.fn_id,
     depth |-> call.depth, t_in |-> call.t_in, t_out |-> call.t_out,
     abnormal_exit |-> call.abnormal_exit]

dict_entry_to_wire(entry, kind) ==
    [fn_id |-> entry.fn_id, fqn |-> entry.fn, kind |-> function_kind_to_wire(kind)]

meta_partial_to_wire(trace, dropped_records) ==
    [schema_version |-> SCHEMA_VERSION, trace_id |-> trace,
     dropped_records |-> dropped_records]

calls_to_wire(calls) == [i \in DOMAIN calls |-> call_record_to_wire(calls[i])]

\* The counter of the trace is read once, when the batch is encoded; KindOf
\* gives the kind of each function.
batch_to_wire(batch, KindOf, dropped_records) ==
    [meta  |-> meta_partial_to_wire(batch.trace, dropped_records),
     dict  |-> [i \in DOMAIN batch.dict |->
                    dict_entry_to_wire(batch.dict[i], KindOf[batch.dict[i].fn])],
     calls |-> calls_to_wire(batch.calls)]

\* A map without one of the three keys or with a kind out of range does not
\* decode; further keys are ignored.
Decodes(body) ==
    /\ {"meta", "dict", "calls"} \subseteq DOMAIN body
    /\ \A i \in DOMAIN body.dict : body.dict[i].kind \in WireKinds

=============================================================================
