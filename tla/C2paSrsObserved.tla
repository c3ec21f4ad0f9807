-------------------------- MODULE C2paSrsObserved --------------------------
(***************************************************************************)
(* arcs_verify/c2pa_srs_observed.py: an untrusted SRS observation of a     *)
(* native validation, taken through a fixed order of stages against the    *)
(* bytes its producer retained, and compared with an independent           *)
(* recomputation of those bytes.                                           *)
(*                                                                         *)
(* A digest is the number of the bytes it names: 0 not named, -1 a sha256  *)
(* reference that is not well-formed.  The schemas and the declarations    *)
(* that stand alone (fixed values, class lists, limits and limitation      *)
(* codes, signer order, prior report, trust pointer) are one set,          *)
(* obs.defects, of those the observation gets wrong.                       *)
(***************************************************************************)
EXTENDS C2paNative, Sequences

VARIABLES
  kept,                \* RetainedEvidence: the asset and store bytes as read
  stages,              \* StageOutcome.status of each stage
  observed             \* the observed finding, or NoFinding

srsVars == <<kept, stages, observed>>
allVars == <<vars, srsVars>>

STAGES ==
  <<"input_parse", "input_correspondence", "profile_conformance", "observed_finding_construction",
    "native_recomputation", "comparison">>

StageNames == {STAGES[i] : i \in DOMAIN STAGES}

NothingKept == [asset |-> -1, store |-> -1]

SrsInit ==
  /\ Init /\ kept = NothingKept /\ observed = NoFinding
  /\ stages = [s \in StageNames |-> "not_run"]

Wellformed(d) == d > 0

\* _first_incomplete, of the outcomes st.
Stopped(st) == \E s \in StageNames : st[s] # "completed"

\* done: exit 0 when every stage completed.
Finish(st) == End(IF Stopped(st) THEN 1 ELSE 0)

-----------------------------------------------------------------------------
(* _stage_correspondence: every digest the observation names, against the  *)
(* bytes that were retained.                                               *)

NamedDigests(obs) ==
  {obs.asset, obs.subject, obs.store.digest, obs.report.digest, obs.config} \cup obs.trust.refs

\* Mutant: the claims are not held against the report's contents.
ReportRefusalsDigestOnly(obs, kr) ==
  {c \in {"REPORT_DIGEST_MISMATCH"} : obs.report.digest # kr.digest}

\* _findings_mismatch against the retained report.
ReportRefusals(obs, kr) ==
  CASE kr.digest = 0 -> {c \in {"REPORT_BYTES_MISSING"} : obs.report.named}
    [] kr.digest # 0 /\ ~obs.report.named -> {"EVIDENCE_NOT_NAMED"}
    [] kr.digest # 0 /\ obs.report.named /\ obs.report.digest # kr.digest -> {"REPORT_DIGEST_MISMATCH"}
    [] OTHER ->
         IF obs.report.format # "c2patool.json" THEN {"REPORT_FORMAT_UNSUPPORTED"}
         ELSE IF ~kr.parses THEN {"REPORT_UNPARSEABLE"}
         ELSE {c \in {"VALIDATION_STATE_MISMATCH"} : obs.report.state # kr.state}
                \cup {c \in {"FINDINGS_MISMATCH"} : obs.findings # kr.entries}

\* Bytes supplied must be named, and by their digest; bytes not supplied leave the name unchecked.
BytesRefusals(named, bytes, code) ==
  IF bytes \in {0, -1} THEN {} ELSE IF named = 0 THEN {"EVIDENCE_NOT_NAMED"} ELSE {c \in {code} : named # bytes}

CorrespondenceRefusals(obs, ev) ==
  {c \in {"DIGEST_MALFORMED"} : -1 \in NamedDigests(obs)}
    \cup {c \in {"ASSET_DIGEST"} : obs.asset # ev.asset}
    \cup {c \in {"SUBJECT_REF"} : obs.subject # 0 /\ obs.subject # ev.asset}
    \cup BytesRefusals(obs.store.digest, ev.store, "STORE_DIGEST_MISMATCH")
    \cup ReportRefusals(obs, in.kept.report)
    \cup BytesRefusals(obs.config, in.kept.config, "CONFIGURATION_DIGEST_MISMATCH")

-----------------------------------------------------------------------------
(* _profile_findings *)

CanonicalModes == {"embedded", "remote_reference", "external_supplied", "sidecar", "durable_recovery"}

StoreFindings(obs) ==
  {c \in {"STORE_STATE"} : obs.store.state \notin {"present", "absent", "inaccessible", "not_evaluated"}}
    \cup {c \in {"STORE_DIGEST"} :
            IF obs.store.state = "present" THEN ~Wellformed(obs.store.digest) ELSE obs.store.digest # 0}
    \cup {c \in {"ACQUISITION_MODE"} : obs.mode \notin CanonicalModes \cup {"none"}}
    \cup {c \in {"REMOTE_URI"} : obs.mode = "remote_reference" /\ obs.store.state = "present" /\ ~obs.uri}

ValidatorFindings(obs) ==
  {c \in {"VALIDATOR_IDENTITY"} : obs.version = 0}
    \cup {c \in {"CONFIG_DIGEST"} :
            \/ obs.configPosture = "configuration_supplied" /\ ~Wellformed(obs.config)
            \/ obs.configPosture = "validator_defaults" /\ obs.config # 0}

EvaluationFindings(obs) ==
  CASE obs.posture = "input_unavailable" ->
         {c \in {"UNAVAILABLE_STATE"} : obs.report.named /\ obs.report.state # "none"}
           \cup {c \in {"UNAVAILABLE_INPUTS"} : obs.unavailable = {}}
    [] obs.posture = "native_validation_performed" ->
         {c \in {"REPORT_REQUIRED"} : ~obs.report.named \/ obs.report.state = "none" \/ ~Wellformed(obs.report.digest)}
           \cup {c \in {"EXIT_CODE_AS_VERDICT"} : obs.report.named /\ ~obs.report.fromMachine}
    [] OTHER -> {}

NonSupplying == {"default_no_trust_material", "trust_verification_disabled", "unknown_not_captured"}
MaterialRequired == {"official_trust_list", "custom_allowed_list", "explicit_anchors"}

TrustFindings(obs) ==
  {c \in {"TRUST_BASIS"} : obs.trust.basis \notin NonSupplying \cup MaterialRequired}
    \cup {c \in {"TRUST_WITHOUT_BASIS"} : obs.trust.observation = "trusted" /\ obs.trust.basis \in NonSupplying}
    \cup {c \in {"TRUST_MATERIAL"} : obs.trust.basis \in MaterialRequired /\ obs.trust.refs = {}}
    \cup {c \in {"DIGEST_FORMAT"} : \E d \in obs.trust.refs : ~Wellformed(d)}
    \cup {c \in {"COMPARISON_POSTURE"} :
            obs.trust.basis = "unknown_not_captured" /\ obs.later # "not_comparable"}

ProfileFindings(obs) ==
  obs.defects
    \cup {c \in {"DIGEST_FORMAT"} : ~Wellformed(obs.asset)}
    \cup {c \in {"SUBJECT_BINDING"} : obs.subject # obs.asset}
    \cup {c \in {"NON_HERMETIC_REPLAY"} : obs.replay.performed /\ obs.replay.fetch}
    \cup StoreFindings(obs) \cup ValidatorFindings(obs) \cup EvaluationFindings(obs) \cup TrustFindings(obs)

-----------------------------------------------------------------------------
(* construct_observed_side *)

TrustMode ==
  [default_no_trust_material |-> "default", explicit_anchors |-> "anchors_supplied",
   custom_allowed_list |-> "allowed_list_supplied", trust_verification_disabled |-> "trust_disabled"]

\* _map_trust_basis: nothing without a canonical mode and at most one material.
TrustUnmapped(t) ==
  \/ t.basis \notin DOMAIN TrustMode
  \/ t.basis \in MaterialRequired /\ Cardinality(t.refs) # 1
  \/ t.basis \notin MaterialRequired /\ t.refs # {}

MappedTrust(t) ==
  [mode |-> TrustMode[t.basis],
   material |-> IF t.basis \in MaterialRequired THEN CHOOSE d \in t.refs : TRUE ELSE 0]

Reports(obs, severity, code) == \E e \in obs.findings : e.severity = severity /\ e.code = code

ConstructRefusals(obs) ==
  {c \in {"POSTURE"} : obs.posture \notin {"native_validation_performed", "input_unavailable"}}
    \cup {c \in {"ACQUISITION_MODE"} : obs.mode \notin CanonicalModes}
    \cup {c \in {"SETTINGS_DIGEST"} : ~Wellformed(obs.config)}
    \cup {c \in {"HERMETICITY"} : ~obs.replay.performed \/ obs.replay.fetch \/ obs.replay.online}
    \cup {c \in {"VALIDATION_TIME"} : obs.pinnedTime}
    \cup {c \in {"NATIVE_STATE"} :
            obs.posture = "native_validation_performed" /\ obs.report.state \notin {"Trusted", "Valid", "Invalid"}}
    \cup {c \in {"TRUST_BASIS"} : TrustUnmapped(obs.trust)}
    \cup {c \in {"TRUST_CONTRADICTED"} :
            \/ obs.trust.observation = "trusted" /\ Reports(obs, "failure", "untrusted")
            \/ obs.trust.observation = "untrusted" /\ Reports(obs, "success", "trusted")}

\* The store is separate bytes only when it was not embedded.
NeedsStore(obs) == obs.mode # "embedded" /\ obs.store.state = "present"

\* Mutant: the digest of an embedded store is carried too.
construct_observed_sideAnyStore(obs) ==
  canonical_finding(obs.findings, obs.report.state,
    [side |-> "observed", impl |-> obs.impl, version |-> obs.version, asset |-> obs.asset,
     store |-> obs.store.digest, settings |-> obs.config, trust |-> MappedTrust(obs.trust)])

construct_observed_side(obs) ==
  LET ctx == [side |-> "observed", impl |-> obs.impl, version |-> obs.version, asset |-> obs.asset,
              store |-> IF NeedsStore(obs) THEN obs.store.digest ELSE 0,
              settings |-> obs.config, trust |-> MappedTrust(obs.trust)]
  IN  IF obs.posture = "native_validation_performed"
      THEN canonical_finding(obs.findings, obs.report.state, ctx)
      ELSE [canonical_finding_unavailable(ctx)
              EXCEPT !.impl = ctx.impl, !.version = ctx.version, !.store = ctx.store]

-----------------------------------------------------------------------------
(* The pipeline. *)

recomputeVars == <<work, external, digest, version, outcome, ran, recomputed, report>>

\* main reads the evidence in order; a missing file is a usage error.
ReadAsset ==
  /\ pc = "start" /\ in.caller = "srs"
  /\ kept' = [kept EXCEPT !.asset = disk.asset]
  /\ IF disk.asset = 0 THEN End(2) ELSE pc' = "read_store" /\ UNCHANGED exit
  /\ UNCHANGED <<world, recomputeVars, stages, observed>>

\* The other files and the installed contract follow; a pin that does not hold is an error too.
ReadRest ==
  /\ pc = "read_store"
  /\ kept' = [kept EXCEPT !.store = IF in.external THEN disk.store ELSE -1]
  /\ IF (in.external /\ disk.store = 0) \/ ~in.pinsHold THEN End(2) ELSE pc' = "parse" /\ UNCHANGED exit
  /\ UNCHANGED <<world, recomputeVars, stages, observed>>

\* One stage that ends the pipeline unless it completed.
Gate(stage, refused, next) ==
  /\ stages' = [stages EXCEPT ![stage] = IF refused THEN "refused" ELSE "completed"]
  /\ IF refused THEN Finish(stages') ELSE pc' = next /\ UNCHANGED exit
  /\ UNCHANGED <<world, recomputeVars, kept, observed>>

StageParse ==
  pc = "parse" /\ Gate("input_parse", in.obs.form # "object", "correspondence")

StageCorrespondence ==
  pc = "correspondence"
  /\ Gate("input_correspondence", CorrespondenceRefusals(in.obs, kept) # {}, "conformance")

StageConformance ==
  pc = "conformance" /\ Gate("profile_conformance", ProfileFindings(in.obs) # {}, "construct")

\* A refusal here stops the observed side only.
StageConstruct ==
  /\ pc = "construct" /\ pc' = "recompute"
  /\ LET refused == ConstructRefusals(in.obs) # {}
     IN  /\ stages' = [stages EXCEPT !["observed_finding_construction"] =
                         IF refused THEN "refused" ELSE "completed"]
         /\ observed' = IF refused THEN NoFinding ELSE construct_observed_side(in.obs)
  /\ UNCHANGED <<world, recomputeVars, kept, exit>>

\* Mutant: the validator is pointed at the caller's files.
StartRecomputeInPlace ==
  /\ pc = "recompute"
  /\ IF in.exe = 0 \/ (NeedsStore(in.obs) /\ kept.store = -1)
     THEN /\ stages' = [stages EXCEPT !["native_recomputation"] = "not_evaluated"]
          /\ Finish(stages') /\ UNCHANGED external
     ELSE external' = NeedsStore(in.obs) /\ pc' = "digest" /\ UNCHANGED <<stages, exit>>
  /\ UNCHANGED <<world, work, digest, version, outcome, ran, recomputed, report, kept, observed>>

\* The bytes are written to a directory of their own, the settings and the store after
\* the asset: an asset with the name of one of them is overwritten.
FrozenCopy(obs) ==
  [kept EXCEPT !.asset = CASE in.assetName = "hermetic.toml" -> HermeticSettings
                           [] in.assetName = "manifest-store.c2pa" /\ NeedsStore(obs) -> kept.store
                           [] OTHER -> kept.asset]

\* _stage_recompute up to the call.
StartRecompute ==
  /\ pc = "recompute"
  /\ LET status == CASE in.exe = 0 -> "not_evaluated"
                     [] in.exe # 0 /\ in.assetName = "invalid" -> "refused"
                     [] /\ in.exe # 0 /\ in.assetName # "invalid"
                        /\ NeedsStore(in.obs) /\ kept.store = -1 -> "not_evaluated"
                     [] OTHER -> "completed"
     IN  IF status = "completed"
         THEN /\ work' = FrozenCopy(in.obs) /\ external' = NeedsStore(in.obs) /\ pc' = "digest"
              /\ UNCHANGED <<stages, exit>>
         ELSE /\ stages' = [stages EXCEPT !["native_recomputation"] = status]
              /\ Finish(stages') /\ UNCHANGED <<work, external>>
  /\ UNCHANGED <<world, digest, version, outcome, ran, recomputed, report, kept, observed>>

\* Whatever recompute raises is a refusal.
RefuseRecompute ==
  /\ pc = "raised" /\ in.caller = "srs"
  /\ stages' = [stages EXCEPT !["native_recomputation"] = "refused"]
  /\ Finish(stages')
  /\ UNCHANGED <<world, recomputeVars, kept, observed>>

\* _comparability_restriction: its scope is what the producer declared.
Restricted(obs) == obs.later = "not_comparable"

\* _tsa_disclosure
TsaUncaptured(obs) == "tsa_trust_material" \in obs.unavailable

\* _stage_compare, and the restriction the producer declared.
CompareOutcome ==
  CASE observed = NoFinding -> "not_evaluated"
    [] observed # NoFinding /\ {observed.status, recomputed.status} # {"evaluated"} -> "not_evaluated"
    [] OTHER ->
         IF observed.asset # recomputed.asset \/ observed.store # recomputed.store THEN "refused"
         ELSE IF check_report(build_report(observed, recomputed)) # {} THEN "refused"
         ELSE IF Restricted(in.obs) THEN "restricted" ELSE "completed"

StageCompare ==
  /\ pc = "compare" /\ in.caller = "srs"
  /\ stages' = [stages EXCEPT !["native_recomputation"] = "completed", !["comparison"] = CompareOutcome]
  /\ report' = IF CompareOutcome = "not_evaluated"
                  \/ observed.asset # recomputed.asset \/ observed.store # recomputed.store
               THEN NoReport ELSE build_report(observed, recomputed)
  /\ Finish(stages')
  /\ UNCHANGED <<world, work, external, digest, version, outcome, ran, recomputed, kept, observed>>

\* Mutant: equal statuses are an agreement, silence included.
EffectiveStateSilence(a) ==
  IF Restricted(in.obs) THEN "restricted_receipt_wide" ELSE report.comparison[a].state

\* comparison_for in _assemble: what an axis is reported as, once restrictions apply.  The
\* code says "match" of two silent sides too, with an agreement_basis that tells it from an
\* agreement; the model makes that a state of its own.
EffectiveState(a) ==
  LET e == report.comparison[a]
  IN  CASE Restricted(in.obs) -> "restricted_receipt_wide"
        [] ~Restricted(in.obs) /\ a = "timestamp" /\ TsaUncaptured(in.obs) /\ e.state \in {"match", "mismatch"}
             -> "not_comparable"
        [] OTHER -> IF e.state = "match" /\ e.observed = "not_evaluated"
                    THEN "both_sides_not_evaluated" ELSE e.state

SrsMain ==
  ReadAsset \/ ReadRest \/ StageParse \/ StageCorrespondence \/ StageConformance \/ StageConstruct
    \/ StartRecompute \/ RefuseRecompute \/ StageCompare

Verifier ==
  \/ (Recompute \/ NativeMain) /\ UNCHANGED srsVars
  \/ SrsMain

Halt == pc = "done" /\ UNCHANGED allVars

Next ==
  \/ Verifier
  \/ Environment /\ UNCHANGED srsVars
  \/ Halt

\* The verifier's own steps are taken; the validator need not answer.
Spec == SrsInit /\ [][Next]_allVars /\ WF_allVars(Verifier)

-----------------------------------------------------------------------------
(* Properties. *)

\* The observed side the comparison used.
Observed == IF in.caller = "srs" THEN observed ELSE in.observed

\* The observed side is what its validator reported of its bytes at instant 1.
Honest ==
  /\ in.caller # "check" /\ Observed.form = "finding"
  /\ LET o == Observed
         r == NativeReport(o.asset, o.store, o.version, 1)
         f == canonical_finding(r.entries, r.state, o)
     IN  r.form = "evaluated" /\ o.axes = f.axes /\ o.klass = f.klass /\ o.anchored = f.anchored

\* What the taxonomy's byte_deterministic promises of a validator (external): an axis
\* that is of this class at instant 1 and at instant t has one status.
Reproducible(asset, store, v, t, a) ==
  LET entries(i) == AxisEntries(NativeReport(asset, store, v, i).entries, a)
  IN  /\ \A i \in {1, t} : NativeReport(asset, store, v, i).form = "evaluated"
      /\ \A i \in {1, t} : AxisClassOf(entries(i), a) = "byte_deterministic"
      => AxisStatus(entries(1), a) = AxisStatus(entries(t), a)

\* The shape of the state of both command lines and of recompute.
TypeOK ==
  /\ pc \in {"start", "digest", "probe", "launch", "running", "canonical", "compare", "read_store", "parse",
             "correspondence", "conformance", "construct", "recompute", "raised", "done"}
  /\ exit \in -1..2 /\ (exit = -1) = (pc # "done")
  /\ now \in 1..MaxNow /\ edits \in 0..MaxEdits /\ faults \in 0..MaxFaults
  /\ outcome.form \in {"none"} \cup InvocationStatus
  /\ stages \in [StageNames -> {"not_run", "completed", "refused", "not_evaluated", "restricted"}]

\* consume_observation ending with status 0 has compared two evaluations of the very
\* bytes the observation names: the validator read them, the claimed findings are those
\* of the retained report, and the producer did not restrict the comparison.
CompletedIsCorroborated ==
  exit = 0 /\ in.caller = "srs" =>
    /\ in.obs.asset = ran.asset /\ in.obs.subject = ran.asset
    /\ NeedsStore(in.obs) => in.obs.store.digest = ran.store
    /\ in.obs.findings = in.kept.report.entries /\ in.obs.report.digest = in.kept.report.digest
    /\ outcome.form = "evaluated" /\ in.obs.later # "not_comparable"

\* An axis is reported as agreeing only where both the retained report and the fresh one
\* say something about it, and never a timestamp whose trust material was not captured.
AgreementGrounded ==
  in.caller = "srs" =>
    \A a \in DOMAIN report.comparison : EffectiveState(a) = "match" =>
      /\ AxisEntries(in.kept.report.entries, a) # {} /\ AxisEntries(outcome.entries, a) # {}
      /\ a # "revocation" /\ (a = "timestamp" => "tsa_trust_material" \notin in.obs.unavailable)

\* An honest observation, held against a report of the same version of the validator on
\* the same bytes, is not accused on an axis that is byte-deterministic: not by the clock,
\* by a file replaced during a consumption, or by how the findings were put into axes.
\* The documents promise more (DriftAndClockSpared, AccusationLicensed).
HonestNotAccused ==
  /\ exit = 0 /\ Honest
  /\ version # 0 \/ in.exe = Observed.version
  /\ in.caller = "native" =>
       /\ outcome.form = "evaluated" /\ recomputed.asset = ran.asset
       /\ external => recomputed.store = ran.store
  => \A a \in DOMAIN report.comparison :
       Observed.klass[a] = "byte_deterministic" => ~Accuses(report.comparison[a])

\* The digests a recomputed finding carries name the bytes its validator read, always
\* over the frozen copy, and on the command line while no file is replaced meanwhile.
DigestNamesRunBytes ==
  recomputed.form = "finding" /\ outcome.form = "evaluated" /\ (in.caller = "srs" \/ edits = 0) =>
    /\ recomputed.asset = ran.asset
    /\ external => recomputed.store = ran.store

\* check_report accepts an accusation, whoever wrote the report, only where the statuses
\* recorded on the two sides differ and every comparability predicate holds of them.
AcceptedAccusationGrounded ==
  exit = 0 =>
    \A a \in DOMAIN report.comparison : Accuses(report.comparison[a]) =>
      /\ StatusOf(report.observed, a) # StatusOf(report.recomputed, a)
      /\ \A p \in DOMAIN report.comparability : Comparability(report.observed, report.recomputed)[p]

\* build_report and check_report disagree only about accusations: over a sound observed
\* side, and a validator that reports a state the schema has, the checker refuses an
\* assembled report only for an accusation compare_sides made.
RefusedOnlyForAccusation ==
  /\ in.caller = "native" /\ exit = 1 /\ report # NoReport /\ recomputed.state \in NativeStates
  /\ report.observed = NoFinding \/ SideFaults(report.observed, "observed") = {}
  => \E a \in DOMAIN report.comparison : Accuses(report.comparison[a])

\* The two sets of rules, of the comparison and of its checker, agree on accusations.
CheckerAgrees == AcceptedAccusationGrounded /\ RefusedOnlyForAccusation

\* An untouched observation of the pinned validator, recomputed by the same version in the
\* same instant, passes every stage and agrees on every axis but revocation.
HonestObservationConfirmed ==
  /\ in.caller = "srs" /\ pc = "done" /\ faults = 0 /\ edits = 0 /\ now = 1
  /\ version # 0 /\ outcome.form = "evaluated"
  => exit = 0 /\ \A a \in Axes \ {"revocation"} : report.comparison[a].state = "match"

\* Both command lines come to an end although the validator may never answer.
Terminates == <>(pc = "done")

\* The docstring of compare_sides: possible_substantive_divergence is licensed only when
\* both sides resolved the axis.
AccusationLicensed ==
  exit = 0 /\ in.caller = "native" =>
    \A a \in DOMAIN report.comparison : Accuses(report.comparison[a]) =>
      "not_evaluated" \notin {report.comparison[a].observed, report.comparison[a].recomputed}

\* What version v of the validator reports on an axis of the bytes that were read.
Reported(v, t, a) ==
  AxisStatus(AxisEntries(NativeReport(ran.asset, IF external THEN ran.store ELSE 0, v, t).entries, a), a)

\* Accused although the version observed reports what was observed at the same instant.
AccusedByDrift(a) ==
  /\ Accuses(report.comparison[a]) /\ in.exe # Observed.version
  /\ \E t \in 1..now : /\ Reported(in.exe, t, a) = StatusOf(recomputed, a)
                        /\ Reported(Observed.version, t, a) = StatusOf(Observed, a)

\* Accused although this validator reported what was observed in the instant of the
\* observation, and no trusted timestamp anchors either side.
AccusedByClock(a) ==
  /\ Accuses(report.comparison[a]) /\ ~Observed.anchored /\ ~recomputed.anchored
  /\ Reported(in.exe, 1, a) = StatusOf(Observed, a)

\* native-finding-report.schema.json: a divergence caused by wall-clock passage or
\* validator drift is never an integrity accusation.  Asked of one report is less, not to
\* accuse an honest observation for both, so that a counterexample shows the two causes.
DriftAndClockSpared ==
  exit = 0 /\ Honest /\ outcome.form = "evaluated" =>
    \/ \A a \in DOMAIN report.comparison : ~AccusedByDrift(a)
    \/ \A a \in DOMAIN report.comparison : ~AccusedByClock(a)
=============================================================================
