----------------------------- MODULE TraceDump ------------------------------
(***************************************************************************)
(* The diagnostic dump of the recorder (recorder/dump.rs, built with the   *)
(* feature recorder-dump): a text file to which the request thread appends *)
(* a block for each batch it flushes, before the batch is sent, and a      *)
(* summary at the end of the request, after the last batch was sent; and   *)
(* the parser with which the integration tests read it back.               *)
(*                                                                         *)
(* The dump rides on the steps of Recorder and changes none of its state.  *)
(* A line is a record; the fields of C and D lines are those of the record *)
(* or entry they print.                                                    *)
(***************************************************************************)
EXTENDS Recorder

CONSTANT DumpPathSet    \* PHP_ANALYZE_DUMP_PATH is set and not empty

ASSUME DumpAssumption == DumpPathSet \in BOOLEAN

VARIABLE dump           \* the lines of the file

dump_spec_vars == <<vars, dump>>

Appends(lines) == dump' = IF DumpPathSet THEN dump \o lines ELSE dump

DictLines(entries) == [i \in DOMAIN entries |-> [line |-> "D", entry |-> entries[i]]]
CallLines(calls) == [i \in DOMAIN calls |-> [line |-> "C", call |-> calls[i]]]

\* flush_predicate_trigger and FlushTrigger: the number of records wins ties.
Trigger(batch) ==
    CASE ~trace_live' -> "rshutdown"
      [] trace_live' /\ Len(batch.calls) >= FlushRecords -> "records"
      [] OTHER                                -> "bytes"

FlushBlock(batch) ==
    <<[line |-> "F", record_count |-> Len(batch.calls),
       estimated_bytes |-> batch.size_estimate, trigger |-> Trigger(batch)]>>
    \o DictLines(batch.dict) \o CallLines(batch.calls)

\* Mutant: the counter is read before the last batch is sent.
SummaryBeforeSend ==
    <<[line |-> "DROP", dropped_records |-> drop_counter[request]],
      [line |-> "RSHUTDOWN", trace_id |-> request]>>

\* write_trace_to_path, for a trace whose last batch has been taken out.
Summary ==
    <<[line |-> "DROP", dropped_records |-> drop_counter'[request]],
      [line |-> "RSHUTDOWN", trace_id |-> request]>>

Flushes == Len(flushed') > Len(flushed)
NewBlock == IF Flushes THEN FlushBlock(Last(flushed')) ELSE <<>>

DumpInit == Init /\ dump = <<>>

\* The steps of the handlers write at most a block.
HandlerFlushes ==
    /\ RInit \/ Begin \/ End
    /\ Appends(NewBlock)

\* What is staged and in no batch is written too; the summary waits for the
\* try_send of the last batch.
WriteTrace ==
    /\ RShutdown
    /\ Appends(NewBlock \o (IF Flushes THEN <<>> ELSE DictLines(new_entries))
                        \o (IF refused' = <<>> THEN Summary ELSE <<>>))

AfterDiscard ==
    /\ DiscardRefused
    /\ Appends(IF trace_live THEN <<>> ELSE Summary)

DumpNext ==
    \/ HandlerFlushes \/ WriteTrace \/ AfterDiscard
    \/ Shipper /\ UNCHANGED dump

DumpSpec == DumpInit /\ [][DumpNext]_dump_spec_vars

-----------------------------------------------------------------------------
(* parse_dump: lines of a kind in their order, the last DROP line wins.    *)

Matching(lines, kind) ==
    FlattenSeq([i \in DOMAIN lines |-> IF lines[i].line = kind THEN <<lines[i]>> ELSE <<>>])

parse_dump(lines) ==
    LET d == Matching(lines, "D")
        c == Matching(lines, "C")
        drop == Matching(lines, "DROP")
    IN [dict  |-> [i \in DOMAIN d |-> d[i].entry],
        calls |-> [i \in DOMAIN c |-> c[i].call],
        flushes |-> Matching(lines, "F"),
        dropped_records |-> [i \in DOMAIN drop |-> drop[i].dropped_records],
        rshutdown_marker_seen |-> Matching(lines, "RSHUTDOWN") # <<>>]

-----------------------------------------------------------------------------
(* Properties.                                                             *)

RecordsIn(fates) == CallsIn({i \in DOMAIN flushed : fate[i] \in fates})

\* "Cross-reference the trailing DROP: line" (dump.rs): for a reader of the
\* file of one trace, the calls that are in no C line are all in the DROP
\* count, and so is every batch the channel refused, the last one included; a
\* batch the shipper gives up later need not be.
DumpReconciles ==
    LET parsed  == parse_dump(dump)
        missing == begun[1] - Len(parsed.calls)
        dropped == Last(parsed.dropped_records)
    IN (DumpPathSet /\ MaxRequests = 1 /\ parsed.rshutdown_marker_seen) =>
            /\ missing + RecordsIn({"refused"}) <= dropped
            /\ dropped <= missing + RecordsIn({"refused", "given_up"})

\* "F: [...] what the recorder believed it flushed": at any moment the file
\* holds every batch built, sent or not, with its entries and calls in the
\* order they were emitted, so a reader can resolve each fn_id and parent; no
\* threshold batch is longer than flush_records or cut before a threshold.
DumpHoldsBatches ==
    LET parsed == parse_dump(dump) IN
    DumpPathSet =>
        /\ parsed.calls = FlattenSeq([i \in DOMAIN flushed |-> flushed[i].calls])
        /\ parsed.dict = FlattenSeq([i \in DOMAIN flushed |-> flushed[i].dict])
        /\ \A i \in DOMAIN parsed.flushes :
            LET flush == parsed.flushes[i] IN
                CASE flush.trigger = "records" -> flush.record_count = FlushRecords
                  [] flush.trigger = "bytes"   -> /\ flush.record_count < FlushRecords
                                                  /\ flush.estimated_bytes >= FlushBytes
                  [] OTHER -> i = Len(parsed.flushes) \/ MaxRequests > 1

\* The file tells a reader all that was recorded and counts the rest.
DumpFaithful == DumpHoldsBatches /\ DumpReconciles

=============================================================================
