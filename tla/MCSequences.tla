---------------------------- MODULE MCSequences ----------------------------
(***************************************************************************)
(* The command lines that verify a governed read (GovernedMemorySequence)  *)
(* and a captured source (SourceWorkSequence): one invocation of either,   *)
(* while the other has no files and takes no step.                         *)
(***************************************************************************)
EXTENDS MCGovernedMemorySequence, MCSourceWorkSequence

NoBundle == [form |-> "none", reads |-> {}]
NoEvidence == [schema |-> "none"]

EitherInit ==
  \/ MemoryInit /\ ev = NoEvidence /\ axes = <<>>
  \/ WorkInit /\ issued = NoBundle /\ bundle = NoBundle /\ codes = {}

EitherNext ==
  \/ ev = NoEvidence /\ MemoryNext /\ UNCHANGED <<ev, axes>>
  \/ bundle = NoBundle /\ WorkNext /\ UNCHANGED <<issued, bundle, codes>>

EitherSpec == EitherInit /\ [][EitherNext]_<<memory_vars, work_vars>>
=============================================================================
