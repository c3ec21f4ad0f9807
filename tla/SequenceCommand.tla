-------------------------- MODULE SequenceCommand --------------------------
(***************************************************************************)
(* What the command lines of the sequence verifiers ingest_run_sequence,   *)
(* governed_memory_sequence and source_work_sequence have in common: files *)
(* that may have been altered a bounded number of times, a report of       *)
(* conclusions, and an exit status.                                        *)
(***************************************************************************)
EXTENDS Integers

CONSTANT MaxFaults     \* bound on alterations (and removals)

ASSUME FaultsAssumption == MaxFaults \in Nat

VARIABLES
  faults,              \* alterations so far
  pc,                  \* the step of main and of the verifier
  concl,               \* the report's conclusions
  exit                 \* exit status, -1 before the end

\* main returns.
End(status) == pc' = "done" /\ exit' = status
=============================================================================
