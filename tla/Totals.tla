------------------------------- MODULE Totals -------------------------------
(***************************************************************************)
(* The sum of a sequence of numbers, by a recursive function, so that what *)
(* the ledgers of php-analyze add up to can be reasoned about: bytes over  *)
(* batches, records over batches, bytes over dictionary entries.           *)
(***************************************************************************)
EXTENDS Integers, Sequences

\* PartialSums(s)[i] is the sum of the first i elements.
PartialSums(s) ==
    LET upto[i \in 0..Len(s)] == IF i = 0 THEN 0 ELSE upto[i - 1] + s[i] IN upto

Total(s) == PartialSums(s)[Len(s)]

\* The sum of the elements whose index is in A.
TotalIn(s, A) == Total([i \in DOMAIN s |-> IF i \in A THEN s[i] ELSE 0])

=============================================================================
