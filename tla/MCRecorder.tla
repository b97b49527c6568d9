----------------------------- MODULE MCRecorder -----------------------------
(***************************************************************************)
(* Instances of Recorder for TLC.  The byte constants of the code (64 per  *)
(* record, 24 per dictionary entry) are kept; caps and thresholds are      *)
(* scaled down to a few records.                                           *)
(***************************************************************************)
EXTENDS Recorder

CONSTANTS f, g

\* A short and a long function name.
MCNameBytes == [fn \in Functions |-> IF fn = f THEN 6 ELSE 70]

=============================================================================
