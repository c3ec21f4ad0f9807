----------------------------- MODULE C2paNative -----------------------------
(***************************************************************************)
(* arcs_verify/c2pa_native.py, the command line and recompute: digest the  *)
(* asset, ask the validator for its version, run it, normalise its report, *)
(* compare it with an observed finding and check the assembled report.     *)
(* The validator is an external process that may answer, fail or hang, and *)
(* the files are the caller's: they may be replaced while it runs.         *)
(*                                                                         *)
(* recompute has two callers.  This module is the command line's use of    *)
(* it; C2paSrsObserved adds the second, which runs it over a frozen copy.  *)
(***************************************************************************)
EXTENDS C2paFinding

CONSTANTS
  Inputs,              \* the invocations that may be put together (external)
  Altered(_),          \* the invocations one alteration away (external)
  NativeReport(_, _, _, _), \* asset, store, version, instant: what the validator reports (external)
  Contents,            \* what the files may be replaced by, 0 removing one (external)
  MaxFaults,           \* bound on alterations
  MaxEdits,            \* bound on replacements of a file during a run
  MaxNow               \* bound on the wall clock

ASSUME BoundsAssumption == MaxFaults \in Nat /\ MaxEdits \in Nat /\ MaxNow \in Nat \ {0}

\* One of the three ways in, and two files that are there or not.
IsInvocation(x) == x.caller \in {"native", "check", "srs"} /\ x.disk \in [asset : Nat, store : Nat]

ASSUME InputsAssumption == \A x \in Inputs : IsInvocation(x)

VARIABLES
  in,                  \* the caller, its arguments and what they name
  faults,              \* alterations so far
  disk,                \* the bytes of the asset and of the manifest store
  edits,               \* replacements so far
  now,                 \* the wall clock
  pc,                  \* the step of main or recompute
  work,                \* the bytes frozen in a temporary directory, or Unfrozen
  external,            \* whether an external manifest store is passed to recompute
  digest,              \* asset_digest, 0 before it is computed
  version,             \* detected_version, 0 when it is not known
  outcome,             \* what came back from the validator
  ran,                 \* the bytes the validator read (history)
  recomputed,          \* the recomputed finding
  report,              \* the assembled report, or NoReport
  exit                 \* exit status, -1 before the end

vars == <<in, faults, disk, edits, now, pc, work, external, digest, version, outcome, ran, recomputed, report, exit>>

Unfrozen == [asset |-> -1, store |-> -1]
NoReport == [recomputed |-> NoFinding, observed |-> NoFinding, comparison |-> <<>>, comparability |-> <<>>]
NoOutcome == [form |-> "none", entries |-> {}, state |-> "none"]
Silent(form) == [form |-> form, entries |-> {}, state |-> "none"]

\* NativeInvocationResult.evaluation_status
InvocationStatus == {"evaluated", "input_unavailable", "invocation_error"}

Init ==
  /\ in \in Inputs /\ disk = in.disk /\ faults = 0 /\ edits = 0 /\ now = 1 /\ pc = "start"
  /\ work = Unfrozen /\ external = FALSE /\ digest = 0 /\ version = 0 /\ outcome = NoOutcome /\ ran = Unfrozen
  /\ recomputed = NoFinding /\ report = NoReport /\ exit = -1

\* The files recompute reads: the caller's, or the frozen copy.
Files == IF work = Unfrozen THEN disk ELSE work

End(status) == pc' = "done" /\ exit' = status

\* An exception leaves recompute for its caller.
Raise == pc' = "raised" /\ UNCHANGED exit

-----------------------------------------------------------------------------
(* The world around a run. *)

Alter ==
  /\ pc = "start" /\ faults < MaxFaults /\ faults' = faults + 1
  /\ in' \in Altered(in) /\ IsInvocation(in') /\ disk' = in'.disk
  /\ UNCHANGED <<edits, now, pc, work, external, digest, version, outcome, ran, recomputed, report, exit>>

\* Another process replaces or removes a file.
Replace ==
  /\ pc \notin {"start", "done"} /\ edits < MaxEdits /\ edits' = edits + 1
  /\ \E f \in {"asset", "store"}, b \in Contents : disk' = [disk EXCEPT ![f] = b]
  /\ UNCHANGED <<in, faults, now, pc, work, external, digest, version, outcome, ran, recomputed, report, exit>>

Tick ==
  /\ pc # "done" /\ now < MaxNow /\ now' = now + 1
  /\ UNCHANGED <<in, faults, disk, edits, pc, work, external, digest, version, outcome, ran, recomputed, report, exit>>

world == <<in, faults, disk, edits, now>>

-----------------------------------------------------------------------------
(* recompute *)

\* asset_digest, before anything is run; a missing asset raises.
DigestAsset ==
  /\ pc = "digest"
  /\ digest' = Files.asset
  /\ IF Files.asset = 0 THEN Raise ELSE pc' = "probe" /\ UNCHANGED exit
  /\ UNCHANGED <<world, work, external, version, outcome, ran, recomputed, report>>

\* native_validator_version: an answer, or none within its 60 seconds.
ProbeAnswer ==
  /\ pc = "probe" /\ version' = in.exe /\ pc' = "launch"
  /\ UNCHANGED <<world, work, external, digest, outcome, ran, recomputed, report, exit>>

ProbeFails ==
  /\ pc = "probe" /\ version' = 0 /\ pc' = "launch"
  /\ UNCHANGED <<world, work, external, digest, outcome, ran, recomputed, report, exit>>

\* run_native_validator starts the process, which reads the files as they are now.
Launch ==
  /\ pc = "launch" /\ ran' = Files /\ pc' = "running"
  /\ UNCHANGED <<world, work, external, digest, version, outcome, recomputed, report, exit>>

\* _classify_invocation: a machine report decides, never the exit status.
RunAnswers ==
  /\ pc = "running" /\ pc' = "canonical"
  /\ outcome' = IF ran.asset = 0 \/ (external /\ ran.store = 0) THEN Silent("invocation_error")
                ELSE NativeReport(ran.asset, IF external THEN ran.store ELSE 0, in.exe, now)
  /\ outcome'.form \in InvocationStatus
  /\ UNCHANGED <<world, work, external, digest, version, ran, recomputed, report, exit>>

\* An answer, to the probe or of the run, that is not text: UnicodeDecodeError is neither
\* of the exceptions that are caught.
AnswerGarbled ==
  /\ pc \in {"probe", "running"} /\ Raise
  /\ UNCHANGED <<world, work, external, digest, version, outcome, ran, recomputed, report>>

\* Mutant: subprocess.run without a timeout.
RunNeverTimesOut == pc = "running" /\ FALSE /\ UNCHANGED vars

\* The process is killed after 300 seconds, or could not be started.
RunTimesOut ==
  /\ pc = "running" /\ pc' = "canonical" /\ outcome' = Silent("invocation_error")
  /\ UNCHANGED <<world, work, external, digest, version, ran, recomputed, report, exit>>

Context ==
  [side |-> "recomputed", impl |-> "c2patool", version |-> IF version = 0 THEN Pinned ELSE version,
   asset |-> digest, store |-> IF external THEN Files.store ELSE 0,
   settings |-> HermeticSettings, trust |-> DefaultTrust]

\* The store is digested and the asset sized only now; either may be gone.
Canonicalize ==
  /\ pc = "canonical"
  /\ IF outcome.form # "evaluated"
     THEN recomputed' = canonical_finding_unavailable(Context) /\ pc' = "compare" /\ UNCHANGED exit
     ELSE IF Files.asset = 0 \/ (external /\ Files.store = 0)
     THEN Raise /\ UNCHANGED recomputed
     ELSE recomputed' = canonical_finding(outcome.entries, outcome.state, Context)
          /\ pc' = "compare" /\ UNCHANGED exit
  /\ UNCHANGED <<world, work, external, digest, version, outcome, ran, report>>

-----------------------------------------------------------------------------
(* main *)

\* --check: the report is read and checked, nothing is run.
CheckOnly ==
  /\ pc = "start" /\ in.caller = "check"
  /\ report' = in.report
  /\ End(IF check_report(in.report) = {} THEN 0 ELSE 1)
  /\ UNCHANGED <<world, work, external, digest, version, outcome, ran, recomputed>>

\* No executable is a usage error; an observed file that is not one raises.
StartNative ==
  /\ pc = "start" /\ in.caller = "native"
  /\ CASE in.exe = 0 -> End(2)
       [] in.exe # 0 /\ in.observed.form = "broken" -> End(1)
       [] OTHER -> pc' = "digest" /\ UNCHANGED exit
  /\ external' = in.external
  /\ UNCHANGED <<world, work, digest, version, outcome, ran, recomputed, report>>

\* main catches nothing of recompute.
NativeRaises ==
  /\ pc = "raised" /\ in.caller = "native" /\ End(1)
  /\ UNCHANGED <<world, work, external, digest, version, outcome, ran, recomputed, report>>

CompareNative ==
  /\ pc = "compare" /\ in.caller = "native"
  /\ report' = build_report(in.observed, recomputed)
  /\ End(IF check_report(report') = {} THEN 0 ELSE 1)
  /\ UNCHANGED <<world, work, external, digest, version, outcome, ran, recomputed>>

\* The steps of recompute, with either caller.
Recompute ==
  DigestAsset \/ ProbeFails \/ Launch \/ RunTimesOut \/ Canonicalize

Environment == Alter \/ Replace \/ Tick \/ ProbeAnswer \/ RunAnswers \/ AnswerGarbled

NativeMain == CheckOnly \/ StartNative \/ CompareNative \/ NativeRaises
=============================================================================
