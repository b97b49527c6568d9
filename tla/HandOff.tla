------------------------------ MODULE HandOff -------------------------------
(***************************************************************************)
(* What the hand-off from the recorder to the ingest server promises, with *)
(* no threads, channel or retries: each batch the recorder flushes is, in  *)
(* the end, delivered, dropped with its records added to its trace's drop  *)
(* counter in the same step, or lost because there is no shipper thread.   *)
(* The end of a batch is final.                                            *)
(*                                                                         *)
(* Recorder and Shipper are both shown to implement this.                  *)
(***************************************************************************)
EXTENDS Integers, Sequences, SequencesExt

CONSTANTS
    Traces,     \* the traces (requests) of the process
    Faulty      \* whether the shipper thread may be missing or die

VARIABLES
    ledger,     \* every flushed batch, in order: its trace, size and status
    drops       \* per trace, the records and calls counted as dropped

ledger_vars == <<ledger, drops>>

Statuses == {"pending", "delivered", "dropped", "lost"}

Init == ledger = <<>> /\ drops = [t \in Traces |-> 0]

\* A flush enters a batch of any trace and size.
Enter(status) ==
    /\ Len(ledger') = Len(ledger) + 1
    /\ ledger' = Append(ledger, Last(ledger'))
    /\ Last(ledger') \in [trace : Traces, records : Nat, status : {status}]
    /\ UNCHANGED drops

\* The channel or the discarding thread now holds the batch.
Flush == Enter("pending")

\* There is no shipper to take it.
FlushUnsent == Faulty /\ Enter("lost")

\* A call dropped before it is in any batch, by a gate.
GateDrop(t) ==
    /\ drops' = [drops EXCEPT ![t] = @ + 1]
    /\ UNCHANGED ledger

Deliver(i) ==
    /\ ledger[i].status = "pending"
    /\ ledger' = [ledger EXCEPT ![i].status = "delivered"]
    /\ UNCHANGED drops

Drop(i) ==
    /\ ledger[i].status = "pending"
    /\ ledger' = [ledger EXCEPT ![i].status = "dropped"]
    /\ drops' = [drops EXCEPT ![ledger[i].trace] = @ + ledger[i].records]

\* The shipper thread dies with whatever it and the channel hold.
Die(dead) ==
    /\ Faulty
    /\ \A i \in dead : ledger[i].status = "pending"
    /\ ledger' = [i \in DOMAIN ledger |->
                    IF i \in dead THEN [ledger[i] EXCEPT !.status = "lost"] ELSE ledger[i]]
    /\ UNCHANGED drops

Next ==
    \/ Flush \/ FlushUnsent
    \/ \E t \in Traces : GateDrop(t)
    \/ \E i \in DOMAIN ledger : Deliver(i) \/ Drop(i)
    \/ \E dead \in SUBSET DOMAIN ledger : Die(dead)

Spec == Init /\ [][Next]_ledger_vars

=============================================================================
