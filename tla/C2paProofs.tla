----------------------------- MODULE C2paProofs -----------------------------
(***************************************************************************)
(* Theorems about C2paSrsObserved, for every set of invocations, every     *)
(* validator, and alterations, replacements and instants without bound.    *)
(***************************************************************************)
EXTENDS C2paSrsObserved, TLAPS

----------------------------------------------------------------------------
(* Canonical findings.                                                     *)

\* An axis that is reported as anything has entries.
LEMMA StatusNeedsEntries ==
  ASSUME NEW axis
  PROVE  AxisStatus({}, axis) = "not_evaluated"
  BY DEF AxisStatus

\* What the sides of a report keep of what they were made from.
LEMMA CanonicalFinding ==
  ASSUME NEW E, NEW state, NEW ctx
  PROVE  LET f == canonical_finding(E, state, ctx)
         IN  /\ f.form = "finding" /\ f.side = ctx.side /\ f.asset = ctx.asset /\ f.store = ctx.store
             /\ f.status = "evaluated" /\ f.state = state
             /\ f.hermetic /\ f.wallClock /\ ~f.repeated
             /\ DOMAIN f.axes = Axes /\ f.axes["revocation"] = "not_evaluated"
             /\ \A a \in Axes \ {"revocation"} : f.axes[a] = AxisStatus(AxisEntries(E, a), a)
  BY DEF canonical_finding, Axes, AxisClass

\* The same of the finding that nothing was evaluated.
LEMMA UnavailableFinding ==
  ASSUME NEW ctx
  PROVE  LET f == canonical_finding_unavailable(ctx)
         IN  /\ f.form = "finding" /\ f.side = ctx.side /\ f.asset = ctx.asset
             /\ f.status = "input_unavailable" /\ f.state = "none"
             /\ f.hermetic /\ f.wallClock /\ ~f.repeated
             /\ DOMAIN f.axes = Axes /\ \A a \in Axes : f.axes[a] = "not_evaluated"
  BY DEF canonical_finding_unavailable, Axes, AxisClass

\* A recomputed side breaks no rule but, at most, the schema's list of native states.
LEMMA RecomputedSideIsSound ==
  ASSUME NEW E, NEW state, NEW ctx, ctx.side = "recomputed",
         NEW f, f \in {canonical_finding(E, state, ctx), canonical_finding_unavailable(ctx)},
         f.state \in NativeStates
  PROVE  SideFaults(f, "recomputed") = {}
<1>0. "revocation" \in Axes
  BY DEF Axes, AxisClass
<1>1. /\ f.side = "recomputed" /\ f.hermetic /\ f.wallClock /\ ~f.repeated
      /\ DOMAIN f.axes = Axes /\ f.axes["revocation"] = "not_evaluated"
  BY <1>0, CanonicalFinding, UnavailableFinding
<1>2. f.status # "evaluated" => f.state = "none" /\ \A a \in Axes : f.axes[a] = "not_evaluated"
  BY CanonicalFinding, UnavailableFinding
<1>3. StatusOf(f, "revocation") = "not_evaluated"
  BY <1>0, <1>1 DEF StatusOf
<1> QED
  BY <1>1, <1>2, <1>3 DEF SideFaults

----------------------------------------------------------------------------
(* The comparison and its checker.                                         *)

\* compare_sides gives each axis a state, a reason the matrix has for it and the posture
\* the matrix gives; a match and a mismatch are of equal and of different statuses.
LEMMA CompareAxisIsLegal ==
  ASSUME NEW a, NEW os, NEW rs, NEW class, NEW c, NEW anchored
  PROVE  LET sr == CompareAxis(a, os, rs, class, c, anchored)
         IN  /\ sr[2] \in LegalReasons(sr[1])
             /\ sr[1] = "match" => os = rs /\ a # "revocation"
             /\ sr[1] = "mismatch" => os # rs
<1>1. a \in DOMAIN BasisReason =>
        BasisReason[a] \in {"trust_basis_delta", "timestamp_basis_delta", "revocation_basis_delta"}
  BY DEF BasisReason
<1> DEFINE sr == CompareAxis(a, os, rs, class, c, anchored)
           apart == {"validator_implementation_delta", "validator_version_delta", "trust_basis_delta",
                     "revocation_basis_delta", "timestamp_basis_delta", "validation_clock_delta", "input_delta",
                     "policy_delta", "unsupported_native_feature"}
<1>2. \/ sr = <<"not_evaluated", "insufficient_evidence">>
      \/ sr[1] = "not_comparable" /\ sr[2] \in apart
      \/ sr = <<"match", "same_inputs_same_semantics">> /\ os = rs /\ a # "revocation"
      \/ sr = <<"mismatch", "same_inputs_same_semantics">> /\ os # rs
  BY <1>1 DEF CompareAxis
<1> HIDE DEF sr
<1>3. /\ sr[2] \in LegalReasons(sr[1])
      /\ sr[1] = "match" => os = rs /\ a # "revocation"
      /\ sr[1] = "mismatch" => os # rs
  BY <1>2 DEF LegalReasons
<1> QED
  BY <1>3 DEF sr

\* An entry of compare_sides that accuses nobody is accepted.
LEMMA EntryIsAccepted ==
  ASSUME NEW o, NEW r, NEW a \in Axes, ~Accuses(compare_sides(o, r)[a])
  PROVE  EntryFaults(compare_sides(o, r)[a], a, o, r) = {}
<1> DEFINE sr == CompareAxis(a, StatusOf(o, a), StatusOf(r, a), r.klass[a], Comparability(o, r),
                             o.anchored /\ r.anchored)
           e == compare_sides(o, r)[a]
<1>1. /\ e.state = sr[1] /\ e.reason = sr[2] /\ e.posture = Posture(sr[1], sr[2])
      /\ e.observed = StatusOf(o, a) /\ e.recomputed = StatusOf(r, a)
  BY DEF compare_sides
<1>2. /\ sr[2] \in LegalReasons(sr[1])
      /\ sr[1] = "match" => StatusOf(o, a) = StatusOf(r, a)
      /\ sr[1] = "mismatch" => StatusOf(o, a) # StatusOf(r, a)
  BY CompareAxisIsLegal
<1> HIDE DEF sr, e
<1>3. ~Accuses(e)
  BY DEF e
<1>4. EntryFaults(e, a, o, r) = {}
  BY <1>1, <1>2, <1>3 DEF EntryFaults
<1> QED
  BY <1>4 DEF e

\* An accusation the checker accepts, whoever wrote the report.
LEMMA AcceptedAccusation ==
  ASSUME NEW rep, check_report(rep) = {}, NEW a \in DOMAIN rep.comparison,
         Accuses(rep.comparison[a])
  PROVE  /\ StatusOf(rep.observed, a) # StatusOf(rep.recomputed, a)
         /\ \A p \in DOMAIN rep.comparability : Comparability(rep.observed, rep.recomputed)[p]
         /\ rep.comparison[a].klass = "byte_deterministic"
         /\ rep.comparability = Comparability(rep.observed, rep.recomputed)
<1> DEFINE o == rep.observed
           r == rep.recomputed
           e == rep.comparison[a]
<1>1. r # NoFinding
  BY DEF check_report
<1>2. o # NoFinding
  BY <1>1 DEF check_report
<1>3. /\ rep.comparability = Comparability(o, r)
      /\ UNION {EntryFaults(rep.comparison[b], b, o, r) : b \in DOMAIN rep.comparison} = {}
  BY <1>1, <1>2 DEF check_report
<1>4. EntryFaults(e, a, o, r) = {}
  BY <1>3
<1> HIDE DEF o, r, e
<1>5. /\ e.posture = Posture(e.state, e.reason) /\ Accuses(e) /\ e.klass = "byte_deterministic"
      /\ \A p \in DOMAIN Comparability(o, r) : Comparability(o, r)[p]
      /\ ~(e.state = "mismatch" /\ StatusOf(o, a) = StatusOf(r, a))
  BY <1>4 DEF EntryFaults, e
<1>6. e.state = "mismatch"
  BY <1>5 DEF Posture, Accuses
<1> QED
  BY <1>3, <1>5, <1>6 DEF o, r, e

\* An assembled report over sound sides that accuses nobody is accepted.
LEMMA AssembledReport ==
  ASSUME NEW o, NEW r, r # NoFinding, SideFaults(r, "recomputed") = {},
         o = NoFinding \/ SideFaults(o, "observed") = {},
         \A a \in DOMAIN build_report(o, r).comparison : ~Accuses(build_report(o, r).comparison[a])
  PROVE  check_report(build_report(o, r)) = {}
<1> DEFINE rep == build_report(o, r)
<1>1. rep.observed = o /\ rep.recomputed = r
  BY DEF build_report
<1>2. CASE o = NoFinding
  <2>1. DOMAIN rep.comparison = {} /\ DOMAIN rep.comparability = {}
    BY <1>2 DEF build_report
  <2> HIDE DEF rep
  <2>2. check_report(rep) = {}
    BY <1>1, <1>2, <2>1 DEF check_report
  <2> QED
    BY <2>2 DEF rep
<1>3. CASE o # NoFinding
  <2>1. rep.comparison = compare_sides(o, r) /\ rep.comparability = Comparability(o, r)
    BY <1>3 DEF build_report
  <2>2. DOMAIN rep.comparison = Axes /\ Axes # {} /\ DOMAIN rep.comparability # {}
    BY <2>1 DEF compare_sides, Axes, AxisClass, Comparability
  <2>3. \A a \in Axes : EntryFaults(rep.comparison[a], a, o, r) = {}
    BY <2>1, <2>2, EntryIsAccepted
  <2> HIDE DEF rep
  <2>4. UNION {EntryFaults(rep.comparison[a], a, o, r) : a \in DOMAIN rep.comparison} = {}
    BY <2>2, <2>3
  <2>5. check_report(rep) = {}
    BY <1>1, <1>3, <2>1, <2>2, <2>4 DEF check_report
  <2> QED
    BY <2>5 DEF rep
<1> QED
  BY <1>2, <1>3

----------------------------------------------------------------------------
(* The inductive invariant.                                                *)

SrsSteps == {"read_store", "parse", "correspondence", "conformance", "construct", "recompute"}
RecomputeSteps == {"digest", "probe", "launch", "running", "canonical", "compare"}

\* Who is where, and what is not there yet.
CallerInv ==
  /\ IsInvocation(in)
  /\ pc = "start" => kept = NothingKept /\ edits = 0
  /\ pc \in {"start"} \cup SrsSteps => work = Unfrozen
  /\ pc \in SrsSteps => in.caller = "srs"
  /\ pc \in RecomputeSteps \cup {"raised"} => in.caller \in {"srs", "native"}
  /\ pc \notin {"compare", "done"} => recomputed = NoFinding
  /\ pc # "done" => report = NoReport
  /\ edits = 0 => disk = in.disk

\* The second caller of recompute works on a copy of what was read at the start.
FrozenInv ==
  /\ pc = "read_store" => kept = [asset |-> in.disk.asset, store |-> -1]
  /\ pc \in SrsSteps \ {"read_store"} => "asset" \in DOMAIN kept /\ kept.asset = in.disk.asset
  /\ pc \in RecomputeSteps /\ in.caller = "srs" =>
       work # Unfrozen /\ external = NeedsStore(in.obs)
  /\ in.caller = "native" => work = Unfrozen

\* The bytes recompute sees do not change under it: they are frozen, or nobody edits.
Stable == in.caller = "srs" \/ edits = 0
Source == IF in.caller = "srs" THEN work ELSE in.disk

BytesInv ==
  /\ Stable /\ pc \in RecomputeSteps \ {"digest"} => digest = Source.asset
  /\ Stable /\ pc \in {"running", "canonical", "compare"} => ran = Source

\* The recomputed side is made of the validator's answer; only its store is dated.
FreshContext(s) ==
  [side |-> "recomputed", impl |-> "c2patool", version |-> IF version = 0 THEN Pinned ELSE version,
   asset |-> digest, store |-> s, settings |-> HermeticSettings, trust |-> DefaultTrust]

FreshInv ==
  pc = "compare" =>
    \E s : /\ recomputed = IF outcome.form = "evaluated"
                           THEN canonical_finding(outcome.entries, outcome.state, FreshContext(s))
                           ELSE canonical_finding_unavailable(FreshContext(s))
           /\ Stable => s = IF external THEN Source.store ELSE 0

\* What the stages behind the current one have established.
ObservedInv ==
  in.caller = "srs" =>
    /\ pc \in {"conformance", "construct", "recompute"} \cup RecomputeSteps =>
         CorrespondenceRefusals(in.obs, kept) = {}
    /\ pc \in {"construct", "recompute"} \cup RecomputeSteps => ProfileFindings(in.obs) = {}
    /\ pc \in {"recompute"} \cup RecomputeSteps => observed \in {NoFinding, construct_observed_side(in.obs)}

\* A status of 0 is the checker's acceptance of the report.
AcceptedInv == exit = 0 => check_report(report) = {}

\* What is claimed at a run's end, and of the finding that is compared.
Claims ==
  /\ AcceptedInv
  /\ DigestNamesRunBytes /\ CompletedIsCorroborated /\ AgreementGrounded /\ RefusedOnlyForAccusation

IInv == TypeOK /\ CallerInv /\ FrozenInv /\ BytesInv /\ FreshInv /\ ObservedInv /\ Claims

----------------------------------------------------------------------------
(* Invariance, one lemma per step.                                         *)

\* The stages, named.
LEMMA StageNamesAre ==
  StageNames = {"input_parse", "input_correspondence", "profile_conformance",
    "observed_finding_construction", "native_recomputation", "comparison"}
  BY DEF StageNames, STAGES

\* Before there is a report, and with a status that is not 0, nothing is claimed.
LEMMA NothingClaimed ==
  ASSUME report = NoReport, recomputed = NoFinding, exit # 0
  PROVE  Claims
<1>1. DOMAIN report.comparison = {}
  BY DEF NoReport
<1>2. recomputed.form # "finding"
  BY DEF NoFinding
<1> QED
  BY <1>1, <1>2 DEF Claims, DigestNamesRunBytes, CompletedIsCorroborated, AgreementGrounded,
    RefusedOnlyForAccusation, AcceptedInv

\* The initial states satisfy the invariant.
LEMMA InitIInv == SrsInit => IInv
<1> SUFFICES ASSUME SrsInit PROVE IInv
  OBVIOUS
<1> USE DEF SrsInit, Init
<1>1. TypeOK
  BY BoundsAssumption DEF TypeOK, NoOutcome, InvocationStatus
<1>2. CallerInv
  BY InputsAssumption DEF CallerInv, SrsSteps, RecomputeSteps
<1>3. FrozenInv /\ BytesInv /\ FreshInv /\ ObservedInv
  BY DEF FrozenInv, BytesInv, FreshInv, ObservedInv, SrsSteps, RecomputeSteps
<1>4. Claims
  BY NothingClaimed
<1> QED
  BY <1>1, <1>2, <1>3, <1>4 DEF IInv, Claims

\* Stuttering, and the explicit stuttering at the end.
LEMMA StutterIInv == IInv /\ UNCHANGED allVars => IInv'
<1> SUFFICES ASSUME IInv, UNCHANGED allVars PROVE IInv'
  OBVIOUS
<1> USE DEF IInv, allVars, vars, srsVars
<1>1. TypeOK'
  BY DEF TypeOK
<1>2. CallerInv'
  BY DEF CallerInv
<1>3. FrozenInv'
  BY DEF FrozenInv
<1>4. BytesInv'
  BY DEF BytesInv, Stable, Source
<1>5. FreshInv'
  BY DEF FreshInv, Stable, Source, FreshContext
<1>6. ObservedInv'
  BY DEF ObservedInv, CorrespondenceRefusals
<1>7. AcceptedInv' /\ DigestNamesRunBytes' /\ CompletedIsCorroborated' /\ RefusedOnlyForAccusation'
  BY DEF Claims, AcceptedInv, DigestNamesRunBytes, CompletedIsCorroborated, RefusedOnlyForAccusation
<1>8. AgreementGrounded'
  BY DEF Claims, AgreementGrounded, EffectiveState
<1> QED
  BY <1>1, <1>2, <1>3, <1>4, <1>5, <1>6, <1>7, <1>8 DEF Claims

\* NothingClaimed, of the next state.
LEMMA NothingClaimedNext ==
  ASSUME report' = NoReport, recomputed' = NoFinding, exit' # 0
  PROVE  Claims'
<1>1. DOMAIN report'.comparison = {}
  BY DEF NoReport
<1>2. recomputed'.form # "finding"
  BY DEF NoFinding
<1> QED
  BY <1>1, <1>2 DEF Claims, DigestNamesRunBytes, CompletedIsCorroborated, AgreementGrounded,
    RefusedOnlyForAccusation, AcceptedInv

\* The claims, on a step that leaves alone what they are about.
LEMMA ClaimsKept ==
  ASSUME Claims, pc # "done", report = NoReport, exit # 0,
         UNCHANGED <<in, external, outcome, ran, recomputed, report, exit>>, Stable' => Stable
  PROVE  Claims'
<1>1. DOMAIN report'.comparison = {}
  BY DEF NoReport
<1>2. DigestNamesRunBytes'
  BY DEF Claims, DigestNamesRunBytes, Stable
<1> QED
  BY <1>1, <1>2 DEF Claims, AcceptedInv, CompletedIsCorroborated, AgreementGrounded, RefusedOnlyForAccusation

\* One alteration, before anything was read.
LEMMA AlterIInv == IInv /\ Alter /\ UNCHANGED srsVars => IInv'
<1> SUFFICES ASSUME IInv, Alter, UNCHANGED srsVars PROVE IInv'
  OBVIOUS
<1> USE DEF IInv, Alter, srsVars, SrsSteps, RecomputeSteps
<1>1. TypeOK'
  BY BoundsAssumption DEF TypeOK
<1>2. CallerInv'
  BY DEF CallerInv
<1>3. FrozenInv' /\ BytesInv' /\ FreshInv' /\ ObservedInv'
  BY DEF CallerInv, FrozenInv, BytesInv, FreshInv, ObservedInv
<1>4. Claims'
  BY NothingClaimedNext DEF CallerInv, TypeOK
<1> QED
  BY <1>1, <1>2, <1>3, <1>4

\* A file is replaced: frozen bytes do not notice, others are no longer stable.
LEMMA ReplaceIInv == IInv /\ Replace /\ UNCHANGED srsVars => IInv'
<1> SUFFICES ASSUME IInv, Replace, UNCHANGED srsVars PROVE IInv'
  OBVIOUS
<1> USE DEF IInv, Replace, srsVars
<1>0. edits \in Nat /\ edits' = edits + 1 /\ edits' # 0 /\ pc # "done"
  BY DEF TypeOK
<1>1. TypeOK'
  BY BoundsAssumption DEF TypeOK
<1>2. CallerInv'
  BY <1>0 DEF CallerInv
<1>3. FrozenInv'
  BY DEF FrozenInv
<1>4. Stable' => Stable
  BY <1>0 DEF Stable
<1>5. BytesInv'
  BY <1>4 DEF BytesInv, Source
<1>6. FreshInv'
  BY <1>4 DEF FreshInv, Source, FreshContext
<1>7. ObservedInv'
  BY DEF ObservedInv, CorrespondenceRefusals
<1>8. Claims'
  BY <1>4, ClaimsKept DEF CallerInv, TypeOK
<1> QED
  BY <1>1, <1>2, <1>3, <1>5, <1>6, <1>7, <1>8

\* The clock advances.
LEMMA TickIInv == IInv /\ Tick /\ UNCHANGED srsVars => IInv'
<1> SUFFICES ASSUME IInv, Tick, UNCHANGED srsVars PROVE IInv'
  OBVIOUS
<1> USE DEF IInv, Tick, srsVars
<1>1. TypeOK'
  BY BoundsAssumption DEF TypeOK
<1>2. CallerInv'
  BY DEF CallerInv
<1>3. FrozenInv'
  BY DEF FrozenInv
<1>4. Stable' <=> Stable
  BY DEF Stable
<1>5. BytesInv'
  BY <1>4 DEF BytesInv, Source
<1>6. FreshInv'
  BY <1>4 DEF FreshInv, Source, FreshContext
<1>7. ObservedInv'
  BY DEF ObservedInv, CorrespondenceRefusals
<1>8. Claims'
  BY <1>4, ClaimsKept DEF CallerInv, TypeOK
<1> QED
  BY <1>1, <1>2, <1>3, <1>5, <1>6, <1>7, <1>8

\* What recompute sees while its bytes are stable.
LEMMA FilesAreSource ==
  ASSUME IInv, pc \in RecomputeSteps, Stable
  PROVE  Files = Source
<1>1. CASE in.caller = "srs"
  BY <1>1 DEF IInv, FrozenInv, Files, Source
<1>2. CASE in.caller # "srs"
  <2>1. in.caller = "native" /\ edits = 0
    BY <1>2 DEF IInv, CallerInv, Stable
  <2> QED
    BY <2>1 DEF IInv, CallerInv, FrozenInv, Files, Source
<1> QED
  BY <1>1, <1>2

\* The asset is digested, or is gone.
LEMMA DigestAssetIInv == IInv /\ DigestAsset /\ UNCHANGED srsVars => IInv'
<1> SUFFICES ASSUME IInv, DigestAsset, UNCHANGED srsVars PROVE IInv'
  OBVIOUS
<1> USE DEF IInv, DigestAsset, srsVars, world, Raise, SrsSteps, RecomputeSteps
<1>0. UNCHANGED <<in, disk, edits, kept, work, external>> /\ (Stable' <=> Stable) /\ Source' = Source
  BY DEF Stable, Source
<1>1. TypeOK'
  BY DEF TypeOK
<1>2. CallerInv'
  BY <1>0 DEF CallerInv
<1>3. FrozenInv'
  BY <1>0 DEF FrozenInv
<1>4. BytesInv'
  BY <1>0, FilesAreSource DEF BytesInv
<1>5. FreshInv'
  BY DEF FreshInv
<1>6. ObservedInv'
  BY <1>0 DEF ObservedInv, CorrespondenceRefusals
<1>7. Claims'
  BY NothingClaimedNext DEF CallerInv, TypeOK
<1> QED
  BY <1>1, <1>2, <1>3, <1>4, <1>5, <1>6, <1>7

\* The validator tells its version.
LEMMA ProbeAnswerIInv == IInv /\ ProbeAnswer /\ UNCHANGED srsVars => IInv'
<1> SUFFICES ASSUME IInv, ProbeAnswer, UNCHANGED srsVars PROVE IInv'
  OBVIOUS
<1> USE DEF IInv, ProbeAnswer, srsVars, world, SrsSteps, RecomputeSteps
<1>0. UNCHANGED <<in, disk, edits, kept, work, external>> /\ (Stable' <=> Stable) /\ Source' = Source
  BY DEF Stable, Source
<1>1. TypeOK'
  BY DEF TypeOK
<1>2. CallerInv'
  BY <1>0 DEF CallerInv
<1>3. FrozenInv'
  BY <1>0 DEF FrozenInv
<1>4. BytesInv'
  BY <1>0 DEF BytesInv
<1>5. FreshInv'
  BY DEF FreshInv
<1>6. ObservedInv'
  BY <1>0 DEF ObservedInv, CorrespondenceRefusals
<1>7. Claims'
  BY NothingClaimedNext DEF CallerInv, TypeOK
<1> QED
  BY <1>1, <1>2, <1>3, <1>4, <1>5, <1>6, <1>7

\* The validator does not tell its version.
LEMMA ProbeFailsIInv == IInv /\ ProbeFails /\ UNCHANGED srsVars => IInv'
<1> SUFFICES ASSUME IInv, ProbeFails, UNCHANGED srsVars PROVE IInv'
  OBVIOUS
<1> USE DEF IInv, ProbeFails, srsVars, world, SrsSteps, RecomputeSteps
<1>0. UNCHANGED <<in, disk, edits, kept, work, external>> /\ (Stable' <=> Stable) /\ Source' = Source
  BY DEF Stable, Source
<1>1. TypeOK'
  BY DEF TypeOK
<1>2. CallerInv'
  BY <1>0 DEF CallerInv
<1>3. FrozenInv'
  BY <1>0 DEF FrozenInv
<1>4. BytesInv'
  BY <1>0 DEF BytesInv
<1>5. FreshInv'
  BY DEF FreshInv
<1>6. ObservedInv'
  BY <1>0 DEF ObservedInv, CorrespondenceRefusals
<1>7. Claims'
  BY NothingClaimedNext DEF CallerInv, TypeOK
<1> QED
  BY <1>1, <1>2, <1>3, <1>4, <1>5, <1>6, <1>7

\* The validator starts and reads the files.
LEMMA LaunchIInv == IInv /\ Launch /\ UNCHANGED srsVars => IInv'
<1> SUFFICES ASSUME IInv, Launch, UNCHANGED srsVars PROVE IInv'
  OBVIOUS
<1> USE DEF IInv, Launch, srsVars, world, SrsSteps, RecomputeSteps
<1>0. UNCHANGED <<in, disk, edits, kept, work, external>> /\ (Stable' <=> Stable) /\ Source' = Source
  BY DEF Stable, Source
<1>1. TypeOK'
  BY DEF TypeOK
<1>2. CallerInv'
  BY <1>0 DEF CallerInv
<1>3. FrozenInv'
  BY <1>0 DEF FrozenInv
<1>4. BytesInv'
  BY <1>0, FilesAreSource DEF BytesInv
<1>5. FreshInv'
  BY DEF FreshInv
<1>6. ObservedInv'
  BY <1>0 DEF ObservedInv, CorrespondenceRefusals
<1>7. Claims'
  BY NothingClaimedNext DEF CallerInv, TypeOK
<1> QED
  BY <1>1, <1>2, <1>3, <1>4, <1>5, <1>6, <1>7

\* The validator answers.
LEMMA RunAnswersIInv == IInv /\ RunAnswers /\ UNCHANGED srsVars => IInv'
<1> SUFFICES ASSUME IInv, RunAnswers, UNCHANGED srsVars PROVE IInv'
  OBVIOUS
<1> USE DEF IInv, RunAnswers, srsVars, world, SrsSteps, RecomputeSteps
<1>0. UNCHANGED <<in, disk, edits, kept, work, external>> /\ (Stable' <=> Stable) /\ Source' = Source
  BY DEF Stable, Source
<1>1. TypeOK'
  BY DEF TypeOK, InvocationStatus
<1>2. CallerInv'
  BY <1>0 DEF CallerInv
<1>3. FrozenInv'
  BY <1>0 DEF FrozenInv
<1>4. BytesInv'
  BY <1>0 DEF BytesInv
<1>5. FreshInv'
  BY DEF FreshInv
<1>6. ObservedInv'
  BY <1>0 DEF ObservedInv, CorrespondenceRefusals
<1>7. Claims'
  BY NothingClaimedNext DEF CallerInv, TypeOK
<1> QED
  BY <1>1, <1>2, <1>3, <1>4, <1>5, <1>6, <1>7

\* The validator is killed.
LEMMA RunTimesOutIInv == IInv /\ RunTimesOut /\ UNCHANGED srsVars => IInv'
<1> SUFFICES ASSUME IInv, RunTimesOut, UNCHANGED srsVars PROVE IInv'
  OBVIOUS
<1> USE DEF IInv, RunTimesOut, srsVars, world, SrsSteps, RecomputeSteps
<1>0. UNCHANGED <<in, disk, edits, kept, work, external>> /\ (Stable' <=> Stable) /\ Source' = Source
  BY DEF Stable, Source
<1>1. TypeOK'
  BY DEF TypeOK, InvocationStatus, Silent
<1>2. CallerInv'
  BY <1>0 DEF CallerInv
<1>3. FrozenInv'
  BY <1>0 DEF FrozenInv
<1>4. BytesInv'
  BY <1>0 DEF BytesInv
<1>5. FreshInv'
  BY DEF FreshInv
<1>6. ObservedInv'
  BY <1>0 DEF ObservedInv, CorrespondenceRefusals
<1>7. Claims'
  BY NothingClaimedNext DEF CallerInv, TypeOK
<1> QED
  BY <1>1, <1>2, <1>3, <1>4, <1>5, <1>6, <1>7

\* The validator answers with what is not text.
LEMMA AnswerGarbledIInv == IInv /\ AnswerGarbled /\ UNCHANGED srsVars => IInv'
<1> SUFFICES ASSUME IInv, AnswerGarbled, UNCHANGED srsVars PROVE IInv'
  OBVIOUS
<1> USE DEF IInv, AnswerGarbled, srsVars, world, Raise, SrsSteps, RecomputeSteps
<1>1. TypeOK'
  BY DEF TypeOK
<1>2. CallerInv'
  BY DEF CallerInv
<1>3. FrozenInv' /\ BytesInv' /\ FreshInv' /\ ObservedInv'
  BY DEF FrozenInv, BytesInv, FreshInv, ObservedInv
<1>4. Claims'
  BY NothingClaimedNext DEF CallerInv, TypeOK
<1> QED
  BY <1>1, <1>2, <1>3, <1>4

\* The answer becomes a finding, unless a file is gone by now.
LEMMA CanonicalizeIInv == IInv /\ Canonicalize /\ UNCHANGED srsVars => IInv'
<1> SUFFICES ASSUME IInv, Canonicalize, UNCHANGED srsVars PROVE IInv'
  OBVIOUS
<1> USE DEF IInv, Canonicalize, srsVars, world, Raise, SrsSteps, RecomputeSteps
<1>0. /\ UNCHANGED <<in, disk, edits, kept, work, external, digest, version, outcome, ran>>
      /\ (Stable' <=> Stable) /\ Source' = Source
  BY DEF Stable, Source
<1>1. TypeOK'
  BY DEF TypeOK
<1>2. CallerInv'
  BY <1>0 DEF CallerInv
<1>3. FrozenInv'
  BY <1>0 DEF FrozenInv
<1>4. BytesInv'
  BY <1>0 DEF BytesInv
<1>5. PICK s : s = IF external THEN Files.store ELSE 0
  OBVIOUS
<1>6. Context = FreshContext(s) /\ FreshContext(s)' = FreshContext(s)
  BY <1>0, <1>5 DEF Context, FreshContext
<1>7. Stable => s = IF external THEN Source.store ELSE 0
  BY <1>5, FilesAreSource
<1>8. pc' = "compare" =>
        recomputed' = IF outcome.form = "evaluated"
                      THEN canonical_finding(outcome.entries, outcome.state, FreshContext(s))
                      ELSE canonical_finding_unavailable(FreshContext(s))
  BY <1>6
<1>9. FreshInv'
  BY <1>0, <1>6, <1>7, <1>8 DEF FreshInv
<1>10. ObservedInv'
  BY <1>0 DEF ObservedInv, CorrespondenceRefusals
<1>11. Claims'
  <2>1. CASE recomputed' = NoFinding
    BY <2>1, NothingClaimedNext DEF CallerInv, TypeOK
  <2>2. CASE pc' = "compare"
    <3>1. /\ report' = NoReport /\ exit' # 0 /\ pc = "canonical"
      BY <2>2 DEF CallerInv, TypeOK
    <3>2. DOMAIN report'.comparison = {}
      BY <3>1 DEF NoReport
    <3>3. outcome.form = "evaluated" => recomputed'.asset = digest /\ recomputed'.store = s
      BY <1>8, <2>2, CanonicalFinding DEF FreshContext
    <3>4. Stable => digest = Source.asset /\ ran = Source
      BY <3>1 DEF BytesInv
    <3>5. DigestNamesRunBytes'
      BY <1>0, <1>7, <3>3, <3>4 DEF DigestNamesRunBytes, Stable
    <3> QED
      BY <3>1, <3>2, <3>5 DEF Claims, AcceptedInv, CompletedIsCorroborated, AgreementGrounded,
        RefusedOnlyForAccusation
  <2> QED
    BY <2>1, <2>2 DEF CallerInv
<1> QED
  BY <1>1, <1>2, <1>3, <1>4, <1>9, <1>10, <1>11

\* The native command line starts, or ends at once.
LEMMA StartNativeIInv == IInv /\ StartNative /\ UNCHANGED srsVars => IInv'
<1> SUFFICES ASSUME IInv, StartNative, UNCHANGED srsVars PROVE IInv'
  OBVIOUS
<1> USE DEF IInv, StartNative, srsVars, world, End, SrsSteps, RecomputeSteps
<1>0. pc' \in {"digest", "done"} /\ exit' \in {exit, 1, 2} /\ (pc' = "done" <=> exit' # exit)
  BY DEF TypeOK
<1>1. TypeOK'
  BY <1>0 DEF TypeOK
<1>2. CallerInv'
  BY <1>0 DEF CallerInv
<1>3. FrozenInv' /\ BytesInv' /\ FreshInv' /\ ObservedInv'
  BY <1>0 DEF FrozenInv, BytesInv, FreshInv, ObservedInv
<1>4. Claims'
  BY <1>0, NothingClaimedNext DEF CallerInv, TypeOK
<1> QED
  BY <1>1, <1>2, <1>3, <1>4

\* At the end only the claims are left to show.
LEMMA EndIInv ==
  ASSUME IInv, pc' = "done", exit' \in 0..2, TypeOK', Claims',
         UNCHANGED <<in, disk, edits>>, UNCHANGED work
  PROVE  IInv'
<1> USE DEF IInv, SrsSteps, RecomputeSteps
<1>1. CallerInv'
  BY DEF CallerInv
<1>2. FrozenInv' /\ BytesInv' /\ FreshInv' /\ ObservedInv'
  BY DEF FrozenInv, BytesInv, FreshInv, ObservedInv
<1> QED
  BY <1>1, <1>2

\* An exception ends the native command line.
LEMMA NativeRaisesIInv == IInv /\ NativeRaises /\ UNCHANGED srsVars => IInv'
<1> SUFFICES ASSUME IInv, NativeRaises, UNCHANGED srsVars PROVE IInv'
  OBVIOUS
<1> USE DEF NativeRaises, srsVars, world, End
<1>1. TypeOK'
  BY DEF IInv, TypeOK
<1>2. Claims'
  BY NothingClaimedNext DEF IInv, CallerInv
<1> QED
  BY <1>1, <1>2, EndIInv

\* A report is read and checked.
LEMMA CheckOnlyIInv == IInv /\ CheckOnly /\ UNCHANGED srsVars => IInv'
<1> SUFFICES ASSUME IInv, CheckOnly, UNCHANGED srsVars PROVE IInv'
  OBVIOUS
<1> USE DEF CheckOnly, srsVars, world, End
<1>1. recomputed' = NoFinding /\ in'.caller = "check" /\ exit' \in 0..2
  BY DEF IInv, CallerInv
<1>2. recomputed'.form # "finding"
  BY <1>1 DEF NoFinding
<1>3. AcceptedInv'
  BY DEF AcceptedInv
<1>4. Claims'
  BY <1>1, <1>2, <1>3 DEF Claims, DigestNamesRunBytes, CompletedIsCorroborated, AgreementGrounded,
    RefusedOnlyForAccusation
<1>5. TypeOK'
  BY <1>1 DEF IInv, TypeOK
<1> QED
  BY <1>1, <1>4, <1>5, EndIInv

\* The native command line compares and has its own report checked.
LEMMA CompareNativeIInv == IInv /\ CompareNative /\ UNCHANGED srsVars => IInv'
<1> SUFFICES ASSUME IInv, CompareNative, UNCHANGED srsVars PROVE IInv'
  OBVIOUS
<1> USE DEF CompareNative, srsVars, world, End
<1>1. /\ in'.caller = "native" /\ exit' \in 0..2 /\ recomputed' = recomputed
      /\ report' = build_report(in.observed, recomputed)
  OBVIOUS
<1>2. AcceptedInv'
  BY DEF AcceptedInv
<1>3. DigestNamesRunBytes'
  BY DEF IInv, Claims, DigestNamesRunBytes
<1>4. RefusedOnlyForAccusation'
  <2> SUFFICES ASSUME exit' = 1, recomputed.state \in NativeStates,
                      in.observed = NoFinding \/ SideFaults(in.observed, "observed") = {},
                      \A a \in DOMAIN report'.comparison : ~Accuses(report'.comparison[a])
               PROVE  FALSE
    BY <1>1 DEF RefusedOnlyForAccusation, build_report
  <2>1. PICK s : recomputed \in {canonical_finding(outcome.entries, outcome.state, FreshContext(s)),
                                 canonical_finding_unavailable(FreshContext(s))}
    BY DEF IInv, FreshInv
  <2>2. FreshContext(s).side = "recomputed"
    BY DEF FreshContext
  <2>3. SideFaults(recomputed, "recomputed") = {}
    BY <2>1, <2>2, RecomputedSideIsSound
  <2>4. recomputed.form = "finding"
    BY <2>1, CanonicalFinding, UnavailableFinding
  <2>5. recomputed # NoFinding
    BY <2>4 DEF NoFinding
  <2>6. check_report(report') = {}
    BY <1>1, <2>3, <2>5, AssembledReport
  <2> QED
    BY <2>6
<1>5. Claims'
  BY <1>1, <1>2, <1>3, <1>4 DEF Claims, CompletedIsCorroborated, AgreementGrounded
<1>6. TypeOK'
  BY <1>1 DEF IInv, TypeOK
<1> QED
  BY <1>1, <1>5, <1>6, EndIInv

----------------------------------------------------------------------------
(* The stages of consume_observation.                                      *)

\* The asset is read.
LEMMA ReadAssetIInv == IInv /\ ReadAsset => IInv'
<1> SUFFICES ASSUME IInv, ReadAsset PROVE IInv'
  OBVIOUS
<1> USE DEF IInv, ReadAsset, world, recomputeVars, End, SrsSteps, RecomputeSteps
<1>1. TypeOK'
  BY DEF TypeOK
<1>2. CallerInv'
  BY DEF CallerInv
<1>3. kept' = [asset |-> in.disk.asset, store |-> -1]
  BY DEF CallerInv, NothingKept
<1>4. FrozenInv' /\ BytesInv' /\ FreshInv' /\ ObservedInv'
  BY <1>3 DEF FrozenInv, BytesInv, FreshInv, ObservedInv
<1>5. Claims'
  BY NothingClaimedNext DEF CallerInv, TypeOK
<1> QED
  BY <1>1, <1>2, <1>4, <1>5

\* The other files are read.
LEMMA ReadRestIInv == IInv /\ ReadRest => IInv'
<1> SUFFICES ASSUME IInv, ReadRest PROVE IInv'
  OBVIOUS
<1> USE DEF IInv, ReadRest, world, recomputeVars, End, SrsSteps, RecomputeSteps
<1>1. TypeOK'
  BY DEF TypeOK
<1>2. CallerInv'
  BY DEF CallerInv
<1>3. "asset" \in DOMAIN kept' /\ kept'.asset = in.disk.asset
  BY DEF FrozenInv
<1>4. FrozenInv' /\ BytesInv' /\ FreshInv' /\ ObservedInv'
  BY <1>3 DEF FrozenInv, BytesInv, FreshInv, ObservedInv
<1>5. Claims'
  BY NothingClaimedNext DEF CallerInv, TypeOK
<1> QED
  BY <1>1, <1>2, <1>4, <1>5

\* One of the first three stages: with a refusal the status is 1, otherwise
\* its refusals are empty.
LEMMA GateStep ==
  ASSUME IInv, pc \in SrsSteps, NEW stage \in StageNames, NEW refused, NEW next \in SrsSteps,
         Gate(stage, refused, next)
  PROVE  /\ TypeOK' /\ CallerInv' /\ Claims' /\ UNCHANGED <<in, kept>>
         /\ pc' \in {"done", next} /\ (pc' = next => ~refused)
         /\ work' = Unfrozen /\ in.caller = "srs"
<1> USE DEF IInv, Gate, world, recomputeVars, End, SrsSteps, RecomputeSteps
<1>1. stages' \in [StageNames -> {"not_run", "completed", "refused", "not_evaluated", "restricted"}]
  BY DEF TypeOK
<1>2. refused => stages'[stage] = "refused"
  BY DEF TypeOK
<1>3. refused => pc' = "done" /\ exit' = 1
  BY <1>2 DEF Finish, Stopped
<1>4. ~refused => pc' = next /\ exit' = exit
  OBVIOUS
<1>5. pc # "done" /\ next # "done" /\ exit = -1
  BY DEF TypeOK
<1>6. TypeOK'
  BY <1>1, <1>3, <1>4, <1>5 DEF TypeOK
<1>7. CallerInv'
  BY <1>3, <1>4 DEF CallerInv
<1>8. Claims'
  BY <1>3, <1>4, <1>5, NothingClaimedNext DEF CallerInv
<1> QED
  BY <1>3, <1>4, <1>5, <1>6, <1>7, <1>8 DEF CallerInv

\* The observation is parsed.
LEMMA StageParseIInv == IInv /\ StageParse => IInv'
<1> SUFFICES ASSUME IInv, StageParse PROVE IInv'
  OBVIOUS
<1>1. "input_parse" \in StageNames
  BY StageNamesAre
<1>2. /\ TypeOK' /\ CallerInv' /\ Claims' /\ UNCHANGED <<in, kept>> /\ work' = Unfrozen
      /\ in.caller = "srs" /\ pc' \in {"done", "correspondence"}
      /\ pc' = "correspondence" => TRUE
  BY <1>1, GateStep DEF StageParse, SrsSteps
<1> USE DEF SrsSteps, RecomputeSteps
<1>3. FrozenInv'
  BY <1>2 DEF StageParse, IInv, FrozenInv
<1>4. BytesInv' /\ FreshInv'
  BY <1>2 DEF BytesInv, FreshInv
<1>5. ObservedInv'
  BY <1>2 DEF StageParse, IInv, ObservedInv, CorrespondenceRefusals
<1> QED
  BY <1>2, <1>3, <1>4, <1>5 DEF IInv

\* Its digests are held against the retained bytes.
LEMMA StageCorrespondenceIInv == IInv /\ StageCorrespondence => IInv'
<1> SUFFICES ASSUME IInv, StageCorrespondence PROVE IInv'
  OBVIOUS
<1>1. "input_correspondence" \in StageNames
  BY StageNamesAre
<1>2. /\ TypeOK' /\ CallerInv' /\ Claims' /\ UNCHANGED <<in, kept>> /\ work' = Unfrozen
      /\ in.caller = "srs" /\ pc' \in {"done", "conformance"}
      /\ pc' = "conformance" => CorrespondenceRefusals(in.obs, kept) = {}
  BY <1>1, GateStep DEF StageCorrespondence, SrsSteps
<1> USE DEF SrsSteps, RecomputeSteps
<1>3. FrozenInv'
  BY <1>2 DEF StageCorrespondence, IInv, FrozenInv
<1>4. BytesInv' /\ FreshInv'
  BY <1>2 DEF BytesInv, FreshInv
<1>5. ObservedInv'
  BY <1>2 DEF StageCorrespondence, IInv, ObservedInv, CorrespondenceRefusals
<1> QED
  BY <1>2, <1>3, <1>4, <1>5 DEF IInv

\* It is held against the profile.
LEMMA StageConformanceIInv == IInv /\ StageConformance => IInv'
<1> SUFFICES ASSUME IInv, StageConformance PROVE IInv'
  OBVIOUS
<1>1. "profile_conformance" \in StageNames
  BY StageNamesAre
<1>2. /\ TypeOK' /\ CallerInv' /\ Claims' /\ UNCHANGED <<in, kept>> /\ work' = Unfrozen
      /\ in.caller = "srs" /\ pc' \in {"done", "construct"}
      /\ pc' = "construct" => ProfileFindings(in.obs) = {}
  BY <1>1, GateStep DEF StageConformance, SrsSteps
<1> USE DEF SrsSteps, RecomputeSteps
<1>3. FrozenInv'
  BY <1>2 DEF StageConformance, IInv, FrozenInv
<1>4. BytesInv' /\ FreshInv'
  BY <1>2 DEF BytesInv, FreshInv
<1>5. ObservedInv'
  BY <1>2 DEF StageConformance, IInv, ObservedInv, CorrespondenceRefusals
<1> QED
  BY <1>2, <1>3, <1>4, <1>5 DEF IInv

\* The observed side is built, or not.
LEMMA StageConstructIInv == IInv /\ StageConstruct => IInv'
<1> SUFFICES ASSUME IInv, StageConstruct PROVE IInv'
  OBVIOUS
<1> USE DEF IInv, StageConstruct, world, recomputeVars, SrsSteps, RecomputeSteps
<1>1. TypeOK'
  BY DEF TypeOK
<1>2. CallerInv'
  BY DEF CallerInv
<1>3. FrozenInv' /\ BytesInv' /\ FreshInv'
  BY DEF CallerInv, FrozenInv, BytesInv, FreshInv
<1>4. observed' \in {NoFinding, construct_observed_side(in.obs)}
  OBVIOUS
<1>5. ObservedInv'
  BY <1>4 DEF ObservedInv, CorrespondenceRefusals
<1>6. Claims'
  BY NothingClaimedNext DEF CallerInv, TypeOK
<1> QED
  BY <1>1, <1>2, <1>3, <1>5, <1>6

\* The bytes are frozen and recompute starts, or the run ends with status 1.
LEMMA StartRecomputeIInv == IInv /\ StartRecompute => IInv'
<1> SUFFICES ASSUME IInv, StartRecompute PROVE IInv'
  OBVIOUS
<1> USE DEF SrsSteps, RecomputeSteps
<1>0. "native_recomputation" \in StageNames
  BY StageNamesAre
<1>1. \/ /\ work' = FrozenCopy(in.obs) /\ external' = NeedsStore(in.obs) /\ pc' = "digest"
         /\ UNCHANGED <<stages, exit>> /\ ~(NeedsStore(in.obs) /\ kept.store = -1)
      \/ \E status \in {"refused", "not_evaluated"} :
           /\ stages' = [stages EXCEPT !["native_recomputation"] = status]
           /\ Finish(stages') /\ UNCHANGED <<work, external>>
  BY DEF StartRecompute
<1>2. /\ pc = "recompute" /\ UNCHANGED <<in, faults, disk, edits, now>>
      /\ UNCHANGED <<digest, version, outcome, ran, recomputed, report, kept, observed>>
  BY DEF StartRecompute, world
<1>3. in.caller = "srs" /\ recomputed = NoFinding /\ report = NoReport /\ exit = -1
  BY <1>2 DEF IInv, CallerInv, TypeOK
<1>4. CASE /\ work' = FrozenCopy(in.obs) /\ external' = NeedsStore(in.obs) /\ pc' = "digest"
           /\ UNCHANGED <<stages, exit>> /\ ~(NeedsStore(in.obs) /\ kept.store = -1)
  <2>1. TypeOK'
    BY <1>2, <1>4 DEF IInv, TypeOK
  <2>2. CallerInv'
    BY <1>2, <1>3, <1>4 DEF IInv, CallerInv
  <2>3. FrozenInv'
    <3>1. "asset" \in DOMAIN kept /\ kept.asset \in Nat
      BY <1>2 DEF IInv, FrozenInv, CallerInv, IsInvocation
    <3>2. work'.asset \in {HermeticSettings, kept.asset} \/ (work'.asset = kept.store /\ kept.store # -1)
      BY <1>4, <3>1 DEF FrozenCopy
    <3>3. work'.asset # -1
      BY <3>1, <3>2 DEF HermeticSettings
    <3>4. work' # Unfrozen
      BY <3>3 DEF Unfrozen
    <3> QED
      BY <1>2, <1>3, <1>4, <3>4 DEF FrozenInv
  <2>4. BytesInv' /\ FreshInv'
    BY <1>4 DEF BytesInv, FreshInv
  <2>5. ObservedInv'
    BY <1>2, <1>3, <1>4 DEF IInv, ObservedInv, CorrespondenceRefusals
  <2>6. Claims'
    BY <1>2, <1>3, <1>4, NothingClaimedNext
  <2> QED
    BY <2>1, <2>2, <2>3, <2>4, <2>5, <2>6 DEF IInv
<1>5. ASSUME NEW status \in {"refused", "not_evaluated"},
             stages' = [stages EXCEPT !["native_recomputation"] = status],
             Finish(stages'), UNCHANGED <<work, external>>
      PROVE  IInv'
  <2>1. /\ stages' \in [StageNames -> {"not_run", "completed", "refused", "not_evaluated", "restricted"}]
        /\ stages'["native_recomputation"] # "completed"
    BY <1>0, <1>5 DEF IInv, TypeOK
  <2>2. pc' = "done" /\ exit' = 1
    BY <1>0, <1>5, <2>1 DEF Finish, Stopped, End
  <2>3. TypeOK'
    BY <1>2, <2>1, <2>2 DEF IInv, TypeOK
  <2>4. Claims'
    BY <1>2, <1>3, <2>2, NothingClaimedNext
  <2> QED
    BY <1>2, <1>5, <2>2, <2>3, <2>4, EndIInv
<1> QED
  BY <1>1, <1>4, <1>5

\* Whatever recompute raised is a refusal, with status 1.
LEMMA RefuseRecomputeIInv == IInv /\ RefuseRecompute => IInv'
<1> SUFFICES ASSUME IInv, RefuseRecompute PROVE IInv'
  OBVIOUS
<1>0. "native_recomputation" \in StageNames
  BY StageNamesAre
<1>1. /\ stages' \in [StageNames -> {"not_run", "completed", "refused", "not_evaluated", "restricted"}]
      /\ stages'["native_recomputation"] = "refused"
  BY <1>0 DEF RefuseRecompute, IInv, TypeOK
<1>2. pc' = "done" /\ exit' = 1
  BY <1>0, <1>1 DEF RefuseRecompute, Finish, Stopped, End
<1>3. /\ pc = "raised" /\ UNCHANGED <<in, faults, disk, edits, now>>
      /\ UNCHANGED <<work, outcome, recomputed, report>>
  BY DEF RefuseRecompute, world, recomputeVars
<1>4. TypeOK'
  BY <1>1, <1>2, <1>3 DEF IInv, TypeOK
<1>5. Claims'
  BY <1>2, <1>3, NothingClaimedNext DEF IInv, CallerInv
<1> QED
  BY <1>2, <1>3, <1>4, <1>5, EndIInv

\* An observed side that speaks of an evaluation is of an observation whose claims are
\* those of the retained report.
LEMMA EvaluatedObservation ==
  ASSUME NEW obs, NEW ev, ProfileFindings(obs) = {}, CorrespondenceRefusals(obs, ev) = {},
         construct_observed_side(obs).status = "evaluated"
  PROVE  /\ construct_observed_side(obs).asset = obs.asset /\ obs.subject = obs.asset
         /\ NeedsStore(obs) => construct_observed_side(obs).store = obs.store.digest
         /\ obs.findings = in.kept.report.entries /\ obs.report.digest = in.kept.report.digest
         /\ DOMAIN construct_observed_side(obs).axes = Axes
         /\ \A a \in Axes \ {"revocation"} :
              construct_observed_side(obs).axes[a] = AxisStatus(AxisEntries(obs.findings, a), a)
<1> DEFINE ctx == [side |-> "observed", impl |-> obs.impl, version |-> obs.version, asset |-> obs.asset,
                   store |-> IF NeedsStore(obs) THEN obs.store.digest ELSE 0,
                   settings |-> obs.config, trust |-> MappedTrust(obs.trust)]
           f == canonical_finding(obs.findings, obs.report.state, ctx)
<1>1. obs.posture = "native_validation_performed"
  <2> SUFFICES ASSUME obs.posture # "native_validation_performed" PROVE FALSE
    OBVIOUS
  <2>1. construct_observed_side(obs) =
          [canonical_finding_unavailable(ctx)
             EXCEPT !.impl = ctx.impl, !.version = ctx.version, !.store = ctx.store]
    BY DEF construct_observed_side
  <2>2. construct_observed_side(obs).status = "input_unavailable"
    BY <2>1 DEF canonical_finding_unavailable
  <2> QED
    BY <2>2
<1>2. construct_observed_side(obs) = f
  BY <1>1 DEF construct_observed_side
<1>3. f.asset = ctx.asset /\ f.store = ctx.store /\ DOMAIN f.axes = Axes
      /\ \A a \in Axes \ {"revocation"} : f.axes[a] = AxisStatus(AxisEntries(obs.findings, a), a)
  BY CanonicalFinding
<1>4. obs.subject = obs.asset /\ EvaluationFindings(obs) = {}
  BY DEF ProfileFindings
<1>5. obs.report.named
  BY <1>1, <1>4 DEF EvaluationFindings
<1>6. ReportRefusals(obs, in.kept.report) = {}
  BY DEF CorrespondenceRefusals
<1>7. obs.findings = in.kept.report.entries /\ obs.report.digest = in.kept.report.digest
  BY <1>5, <1>6 DEF ReportRefusals
<1> QED
  BY <1>2, <1>3, <1>4, <1>7

\* What the comparison says of an axis.
LEMMA ComparedAxis ==
  ASSUME NEW o, NEW r, o # NoFinding, NEW a \in DOMAIN build_report(o, r).comparison
  PROVE  LET e == build_report(o, r).comparison[a]
         IN  /\ a \in Axes /\ e.observed = StatusOf(o, a)
             /\ e.state = "match" => StatusOf(o, a) = StatusOf(r, a) /\ a # "revocation"
<1> DEFINE sr == CompareAxis(a, StatusOf(o, a), StatusOf(r, a), r.klass[a], Comparability(o, r),
                             o.anchored /\ r.anchored)
           e == build_report(o, r).comparison[a]
<1>1. a \in Axes /\ e.state = sr[1] /\ e.observed = StatusOf(o, a)
  BY DEF build_report, compare_sides
<1>2. sr[1] = "match" => StatusOf(o, a) = StatusOf(r, a) /\ a # "revocation"
  BY CompareAxisIsLegal
<1> HIDE DEF sr
<1> QED
  BY <1>1, <1>2

\* The comparison stage ends the run; all that is claimed of it is claimed here.
LEMMA StageCompareIInv == IInv /\ StageCompare => IInv'
<1> SUFFICES ASSUME IInv, StageCompare PROVE IInv'
  OBVIOUS
<1>0. {"native_recomputation", "comparison"} \subseteq StageNames
  BY StageNamesAre
<1>1. /\ pc = "compare" /\ in.caller = "srs" /\ UNCHANGED <<in, faults, disk, edits, now>>
      /\ UNCHANGED <<work, external, outcome, ran, recomputed, kept, observed>>
      /\ stages' = [stages EXCEPT !["native_recomputation"] = "completed", !["comparison"] = CompareOutcome]
      /\ Finish(stages')
  BY DEF StageCompare, world
<1>2. /\ external = NeedsStore(in.obs) /\ CorrespondenceRefusals(in.obs, kept) = {}
      /\ ProfileFindings(in.obs) = {}
      /\ observed \in {NoFinding, construct_observed_side(in.obs)}
  BY <1>1 DEF IInv, FrozenInv, ObservedInv, RecomputeSteps
<1>3. PICK s : recomputed = IF outcome.form = "evaluated"
                            THEN canonical_finding(outcome.entries, outcome.state, FreshContext(s))
                            ELSE canonical_finding_unavailable(FreshContext(s))
  BY <1>1 DEF IInv, FreshInv
<1>4. recomputed.form = "finding" /\ (recomputed.status = "evaluated" => outcome.form = "evaluated")
  BY <1>3, CanonicalFinding, UnavailableFinding
<1>5. CompareOutcome \in {"not_evaluated", "refused", "restricted", "completed"}
  BY DEF CompareOutcome
<1>6. /\ stages' \in [StageNames -> {"not_run", "completed", "refused", "not_evaluated", "restricted"}]
      /\ stages'["comparison"] = CompareOutcome
  BY <1>0, <1>1, <1>5 DEF IInv, TypeOK
<1>7. pc' = "done" /\ exit' \in 0..1 /\ (exit' = 0 => CompareOutcome = "completed")
  BY <1>0, <1>1, <1>6 DEF Finish, Stopped, End
<1>8. TypeOK'
  BY <1>1, <1>6, <1>7 DEF StageCompare, IInv, TypeOK
<1>9. CompareOutcome # "not_evaluated" =>
        /\ observed # NoFinding /\ observed = construct_observed_side(in.obs)
        /\ observed.status = "evaluated" /\ recomputed.status = "evaluated"
  BY <1>2 DEF CompareOutcome
<1>10. CompareOutcome # "not_evaluated" =>
         /\ observed.asset = in.obs.asset /\ in.obs.subject = in.obs.asset
         /\ NeedsStore(in.obs) => observed.store = in.obs.store.digest
         /\ in.obs.findings = in.kept.report.entries /\ in.obs.report.digest = in.kept.report.digest
         /\ DOMAIN observed.axes = Axes
         /\ \A a \in Axes \ {"revocation"} : observed.axes[a] = AxisStatus(AxisEntries(in.obs.findings, a), a)
  BY <1>2, <1>9, EvaluatedObservation
<1>11. \/ report' = NoReport
       \/ report' = build_report(observed, recomputed) /\ CompareOutcome # "not_evaluated"
  BY DEF StageCompare
<1>12. CompareOutcome = "completed" =>
         /\ observed.asset = recomputed.asset /\ observed.store = recomputed.store
         /\ check_report(build_report(observed, recomputed)) = {} /\ ~Restricted(in.obs)
         /\ report' = build_report(observed, recomputed)
  <2> SUFFICES ASSUME CompareOutcome = "completed"
               PROVE  /\ observed.asset = recomputed.asset /\ observed.store = recomputed.store
                      /\ check_report(build_report(observed, recomputed)) = {} /\ ~Restricted(in.obs)
                      /\ report' = build_report(observed, recomputed)
    OBVIOUS
  <2>1. /\ observed.asset = recomputed.asset /\ observed.store = recomputed.store
        /\ check_report(build_report(observed, recomputed)) = {} /\ ~Restricted(in.obs)
    BY DEF CompareOutcome
  <2> QED
    BY <2>1 DEF StageCompare
<1>13. AcceptedInv'
  BY <1>7, <1>12 DEF AcceptedInv
<1>14. DigestNamesRunBytes'
  BY <1>1 DEF IInv, Claims, DigestNamesRunBytes
<1>15. CompletedIsCorroborated'
  <2> SUFFICES ASSUME exit' = 0
               PROVE  /\ in.obs.asset = ran.asset /\ in.obs.subject = ran.asset
                      /\ NeedsStore(in.obs) => in.obs.store.digest = ran.store
                      /\ in.obs.findings = in.kept.report.entries
                      /\ in.obs.report.digest = in.kept.report.digest
                      /\ outcome.form = "evaluated" /\ in.obs.later # "not_comparable"
    BY <1>1 DEF CompletedIsCorroborated
  <2>1. CompareOutcome = "completed" /\ outcome.form = "evaluated"
    BY <1>4, <1>7, <1>9
  <2>2. recomputed.asset = ran.asset /\ (external => recomputed.store = ran.store)
    BY <1>1, <1>4, <2>1 DEF IInv, Claims, DigestNamesRunBytes
  <2> QED
    BY <1>2, <1>10, <1>12, <2>1, <2>2 DEF Restricted
<1>16. AgreementGrounded'
  <2> SUFFICES ASSUME NEW a \in DOMAIN report'.comparison, EffectiveState(a)' = "match"
               PROVE  /\ AxisEntries(in.kept.report.entries, a) # {}
                      /\ AxisEntries(outcome.entries, a) # {} /\ a # "revocation"
                      /\ a = "timestamp" => "tsa_trust_material" \notin in.obs.unavailable
    BY <1>1 DEF AgreementGrounded
  <2>1. report' = build_report(observed, recomputed) /\ CompareOutcome # "not_evaluated"
    BY <1>11 DEF NoReport
  <2>2. /\ report'.comparison[a].state = "match" /\ report'.comparison[a].observed # "not_evaluated"
        /\ a = "timestamp" => ~TsaUncaptured(in.obs)
    BY <1>1 DEF EffectiveState
  <2>3. /\ a \in Axes /\ a # "revocation" /\ StatusOf(observed, a) = StatusOf(recomputed, a)
        /\ StatusOf(observed, a) # "not_evaluated"
    BY <1>9, <2>1, <2>2, ComparedAxis
  <2>4. outcome.form = "evaluated"
    BY <1>4, <1>9, <2>1
  <2>5. DOMAIN recomputed.axes = Axes /\ recomputed.axes[a] = AxisStatus(AxisEntries(outcome.entries, a), a)
    BY <1>3, <2>3, <2>4, CanonicalFinding
  <2>6. observed.axes[a] # "not_evaluated" /\ recomputed.axes[a] # "not_evaluated"
    BY <1>10, <2>1, <2>3, <2>5 DEF StatusOf
  <2> QED
    BY <1>10, <2>1, <2>2, <2>3, <2>5, <2>6, StatusNeedsEntries DEF TsaUncaptured
<1>17. Claims'
  BY <1>1, <1>13, <1>14, <1>15, <1>16 DEF Claims, RefusedOnlyForAccusation
<1> QED
  BY <1>1, <1>7, <1>8, <1>17, EndIInv

----------------------------------------------------------------------------
(* The theorems.                                                           *)

\* Every step preserves the invariant.
LEMMA NextIInv == IInv /\ [Next]_allVars => IInv'
<1> SUFFICES ASSUME IInv, [Next]_allVars PROVE IInv'
  OBVIOUS
<1>1. CASE UNCHANGED allVars
  BY <1>1, StutterIInv
<1>2. CASE Verifier
  <2>1. CASE (Recompute \/ NativeMain) /\ UNCHANGED srsVars
    BY <2>1, DigestAssetIInv, ProbeFailsIInv, LaunchIInv, RunTimesOutIInv, CanonicalizeIInv, CheckOnlyIInv,
      StartNativeIInv, CompareNativeIInv, NativeRaisesIInv DEF Recompute, NativeMain
  <2>2. CASE SrsMain
    BY <2>2, ReadAssetIInv, ReadRestIInv, StageParseIInv, StageCorrespondenceIInv, StageConformanceIInv,
      StageConstructIInv, StartRecomputeIInv, RefuseRecomputeIInv, StageCompareIInv DEF SrsMain
  <2> QED
    BY <1>2, <2>1, <2>2 DEF Verifier
<1>3. CASE Environment /\ UNCHANGED srsVars
  BY <1>3, AlterIInv, ReplaceIInv, TickIInv, ProbeAnswerIInv, RunAnswersIInv, AnswerGarbledIInv
    DEF Environment
<1> QED
  BY <1>1, <1>2, <1>3 DEF Next, Halt

\* The invariant always holds.
LEMMA AlwaysIInv == Spec => []IInv
  BY InitIInv, NextIInv, PTL DEF Spec

\* The state of both command lines and of recompute keeps its shape.
THEOREM TypeCorrect == Spec => []TypeOK
<1>1. IInv => TypeOK
  BY DEF IInv
<1> QED
  BY <1>1, AlwaysIInv, PTL

\* recompute: whatever files are replaced while it runs, the digests of a finding made
\* over a frozen copy name the bytes the validator read; so do those of the command
\* line when nothing is replaced.
THEOREM DigestsNameRunBytes == Spec => []DigestNamesRunBytes
<1>1. IInv => DigestNamesRunBytes
  BY DEF IInv, Claims
<1> QED
  BY <1>1, AlwaysIInv, PTL

\* consume_observation: status 0 is a comparison of two evaluations of the bytes the
\* observation names, with the claims of the retained report, for every validator.
THEOREM StatusZeroIsCorroborated == Spec => []CompletedIsCorroborated
<1>1. IInv => CompletedIsCorroborated
  BY DEF IInv, Claims
<1> QED
  BY <1>1, AlwaysIInv, PTL

\* _assemble: an axis reported as agreeing has entries in both reports.
THEOREM AgreementsAreGrounded == Spec => []AgreementGrounded
<1>1. IInv => AgreementGrounded
  BY DEF IInv, Claims
<1> QED
  BY <1>1, AlwaysIInv, PTL

\* check_report accepts only accusations grounded in the two sides, and refuses what
\* build_report assembled of sound sides only for an accusation.
THEOREM ComparisonAndCheckerAgree == Spec => []CheckerAgrees
<1>1. IInv => AcceptedAccusationGrounded
  BY AcceptedAccusation DEF IInv, Claims, AcceptedInv, AcceptedAccusationGrounded
<1>2. IInv => CheckerAgrees
  BY <1>1 DEF IInv, Claims, CheckerAgrees
<1> QED
  BY <1>2, AlwaysIInv, PTL
----------------------------------------------------------------------------
(* Where an accusation comes from.                                         *)

\* What is compared: at the comparison, and in an accepted run that compared.
Comparing == pc = "compare" \/ (exit = 0 /\ in.caller # "check")

\* The version a finding records is the executable's, if its probe answered, and its
\* entries are those the executable reported of the bytes it read at some instant.
OriginInv ==
  /\ pc \in {"launch", "running", "canonical"} \/ Comparing => version \in {0, in.exe}
  /\ (pc = "canonical" \/ Comparing) /\ outcome.form = "evaluated" =>
       \E t : outcome = NativeReport(ran.asset, IF external THEN ran.store ELSE 0, in.exe, t)
  /\ Comparing =>
       \E s : /\ recomputed = IF outcome.form = "evaluated"
                              THEN canonical_finding(outcome.entries, outcome.state, FreshContext(s))
                              ELSE canonical_finding_unavailable(FreshContext(s))
              /\ ~external => s = 0
  /\ exit = 0 /\ in.caller # "check" => report = build_report(Observed, recomputed)

\* It holds at the start.
LEMMA InitOriginInv == SrsInit => OriginInv
  BY DEF SrsInit, Init, OriginInv, Comparing

\* The finding is made of the answer and of what the files are by then.
LEMMA CanonicalizeOriginInv == IInv /\ OriginInv /\ Canonicalize /\ UNCHANGED srsVars => OriginInv'
<1> SUFFICES ASSUME IInv, OriginInv, Canonicalize, UNCHANGED srsVars PROVE OriginInv'
  OBVIOUS
<1> USE DEF Canonicalize, world, Raise
<1>1. /\ UNCHANGED <<in, external, digest, version, outcome, ran>> /\ pc = "canonical"
      /\ exit = -1 /\ exit' # 0
  BY DEF IInv, TypeOK
<1>2. PICK s : s = IF external THEN Files.store ELSE 0
  OBVIOUS
<1>3. Context = FreshContext(s) /\ FreshContext(s)' = FreshContext(s)
  BY <1>1, <1>2 DEF Context, FreshContext
<1>4. pc' = "compare" =>
        recomputed' = IF outcome.form = "evaluated"
                      THEN canonical_finding(outcome.entries, outcome.state, FreshContext(s))
                      ELSE canonical_finding_unavailable(FreshContext(s))
  BY <1>3
<1>5. pc' \in {"compare", "raised"} /\ (Comparing' <=> pc' = "compare")
  BY <1>1 DEF Comparing
<1>6. version \in {0, in.exe}
  BY <1>1 DEF OriginInv
<1>7. outcome.form = "evaluated" =>
        \E t : outcome = NativeReport(ran.asset, IF external THEN ran.store ELSE 0, in.exe, t)
  BY <1>1 DEF OriginInv
<1>8. Comparing' =>
       \E s1 : /\ recomputed' = IF outcome.form = "evaluated"
                               THEN canonical_finding(outcome.entries, outcome.state, FreshContext(s1)')
                               ELSE canonical_finding_unavailable(FreshContext(s1)')
               /\ ~external => s1 = 0
  BY <1>2, <1>3, <1>4, <1>5
<1> QED
  BY <1>1, <1>5, <1>6, <1>7, <1>8 DEF OriginInv

\* A step that leaves the finding and where it comes from alone.
LEMMA OriginKept ==
  ASSUME OriginInv, Comparing' => Comparing,
         pc' \in {"launch", "running", "canonical"} => pc' = pc,
         UNCHANGED <<in, external, digest, version, outcome, ran, recomputed>>,
         exit' = 0 /\ in'.caller # "check" => report' = build_report(Observed', recomputed')
  PROVE  OriginInv'
<1>1. \A s : FreshContext(s)' = FreshContext(s)
  BY DEF FreshContext
<1>2. pc' \in {"launch", "running", "canonical"} \/ Comparing' => version' \in {0, in'.exe}
  BY DEF OriginInv
<1>3. (pc' = "canonical" \/ Comparing') /\ outcome'.form = "evaluated" =>
        \E t : outcome' = NativeReport(ran'.asset, IF external' THEN ran'.store ELSE 0, in'.exe, t)
  BY DEF OriginInv
<1>4. Comparing' =>
       \E s : /\ recomputed' = IF outcome'.form = "evaluated"
                               THEN canonical_finding(outcome'.entries, outcome'.state, FreshContext(s)')
                               ELSE canonical_finding_unavailable(FreshContext(s)')
              /\ ~external' => s = 0
  BY <1>1 DEF OriginInv
<1> QED
  BY <1>2, <1>3, <1>4 DEF OriginInv

\* The steps of recompute before the finding.
LEMMA RecomputeOriginInv ==
  IInv /\ OriginInv
    /\ (DigestAsset \/ ProbeAnswer \/ ProbeFails \/ Launch \/ RunAnswers \/ RunTimesOut \/ AnswerGarbled)
  => OriginInv'
<1> SUFFICES ASSUME IInv, OriginInv,
                    DigestAsset \/ ProbeAnswer \/ ProbeFails \/ Launch \/ RunAnswers \/ RunTimesOut \/ AnswerGarbled
             PROVE  OriginInv'
  OBVIOUS
<1>1. exit' # 0 /\ pc' # "compare"
  BY DEF IInv, TypeOK, DigestAsset, ProbeAnswer, ProbeFails, Launch, RunAnswers, RunTimesOut,
    AnswerGarbled, Raise
<1>2. ~Comparing'
  BY <1>1 DEF Comparing
<1>3. CASE DigestAsset \/ AnswerGarbled
  BY <1>1, <1>2, <1>3 DEF OriginInv, DigestAsset, AnswerGarbled, Raise
<1>4. CASE ProbeAnswer \/ ProbeFails
  BY <1>1, <1>2, <1>4 DEF OriginInv, ProbeAnswer, ProbeFails, world
<1>5. CASE Launch
  BY <1>1, <1>2, <1>5 DEF OriginInv, Launch, world
<1>6. CASE RunAnswers
  <2>1. pc' = "canonical" /\ version' = version /\ in' = in /\ ran' = ran /\ external' = external
    BY <1>6 DEF RunAnswers, world
  <2>2. outcome'.form = "evaluated" =>
          outcome' = NativeReport(ran.asset, IF external THEN ran.store ELSE 0, in.exe, now)
    BY <1>6 DEF RunAnswers, Silent
  <2> QED
    BY <1>1, <1>2, <1>6, <2>1, <2>2 DEF OriginInv, RunAnswers
<1>7. CASE RunTimesOut
  <2>1. outcome'.form # "evaluated"
    BY <1>7 DEF RunTimesOut, Silent
  <2> QED
    BY <1>1, <1>2, <1>7, <2>1 DEF OriginInv, RunTimesOut, world
<1> QED
  BY <1>3, <1>4, <1>5, <1>6, <1>7

\* The two comparisons.
LEMMA CompareOriginInv ==
  IInv /\ OriginInv /\ ((CompareNative /\ UNCHANGED srsVars) \/ StageCompare) => OriginInv'
<1> SUFFICES ASSUME IInv, OriginInv, (CompareNative /\ UNCHANGED srsVars) \/ StageCompare
             PROVE  OriginInv'
  OBVIOUS
<1>1. /\ pc = "compare" /\ pc' = "done"
      /\ UNCHANGED <<in, external, digest, version, outcome, ran, recomputed, observed>>
  BY DEF CompareNative, srsVars, world, End, StageCompare, Finish
<1>2. CASE CompareNative /\ UNCHANGED srsVars
  <2>1. report' = build_report(Observed', recomputed')
    BY <1>1, <1>2 DEF CompareNative, Observed
  <2> QED
    BY <1>1, <2>1, OriginKept DEF Comparing
<1>3. CASE StageCompare
  <2>1. exit' = 0 => stages'["comparison"] = "completed"
    BY <1>3, StageNamesAre DEF StageCompare, Finish, Stopped, End
  <2>2. stages'["comparison"] = CompareOutcome
    BY <1>3, StageNamesAre DEF StageCompare, IInv, TypeOK
  <2>3. exit' = 0 => CompareOutcome = "completed"
    BY <2>1, <2>2
  <2>4. CompareOutcome = "completed" => observed.asset = recomputed.asset /\ observed.store = recomputed.store
    BY DEF CompareOutcome
  <2>5. exit' = 0 => report' = build_report(observed, recomputed)
    BY <1>3, <2>3, <2>4 DEF StageCompare
  <2>6. in.caller = "srs"
    BY <1>3 DEF StageCompare
  <2> QED
    BY <1>1, <2>5, <2>6, OriginKept DEF Comparing, Observed
<1> QED
  BY <1>2, <1>3

\* The other steps of the two command lines are before the finding, or end without 0.
LEMMA OtherOriginInv ==
  IInv /\ OriginInv /\ (CheckOnly \/ StartNative \/ ReadAsset \/ ReadRest \/ StageParse \/ StageCorrespondence
                          \/ StageConformance \/ StageConstruct \/ StartRecompute \/ NativeRaises
                          \/ RefuseRecompute) => OriginInv'
<1> SUFFICES ASSUME IInv,
                    CheckOnly \/ StartNative \/ ReadAsset \/ ReadRest \/ StageParse \/ StageCorrespondence
                      \/ StageConformance \/ StageConstruct \/ StartRecompute \/ NativeRaises \/ RefuseRecompute
             PROVE  ~Comparing' /\ pc' \notin {"launch", "running", "canonical"}
                      /\ (exit' = 0 => in'.caller = "check")
  BY DEF OriginInv
<1>1. exit = -1
  BY DEF IInv, TypeOK, CheckOnly, StartNative, ReadAsset, ReadRest, StageParse, StageCorrespondence,
    StageConformance, StageConstruct, StartRecompute, NativeRaises, RefuseRecompute
<1>2. CASE CheckOnly \/ StartNative \/ NativeRaises
  BY <1>1, <1>2 DEF CheckOnly, StartNative, NativeRaises, End, world, Comparing
<1>3. CASE ReadAsset \/ ReadRest \/ StageConstruct
  BY <1>1, <1>3 DEF ReadAsset, ReadRest, StageConstruct, End, Comparing
<1>4. ASSUME NEW stage \in StageNames, NEW refused, NEW next \in SrsSteps, Gate(stage, refused, next)
      PROVE  exit' # 0 /\ pc' \in {next, "done"}
  <2>1. refused => stages'[stage] = "refused"
    BY <1>4 DEF Gate, IInv, TypeOK
  <2>2. refused => pc' = "done" /\ exit' = 1
    BY <1>4, <2>1 DEF Gate, Finish, Stopped, End
  <2>3. ~refused => pc' = next /\ exit' = exit
    BY <1>4 DEF Gate
  <2> QED
    BY <1>1, <2>2, <2>3
<1>5. CASE StageParse \/ StageCorrespondence \/ StageConformance
  <2>1. \E stage \in StageNames, next \in {"correspondence", "conformance", "construct"} :
          \E refused \in BOOLEAN : Gate(stage, refused, next)
    BY <1>5, StageNamesAre DEF StageParse, StageCorrespondence, StageConformance
  <2>2. exit' # 0 /\ pc' \in {"correspondence", "conformance", "construct", "done"}
    BY <1>4, <2>1 DEF SrsSteps
  <2> QED
    BY <2>2 DEF Comparing
<1>6. CASE StartRecompute \/ RefuseRecompute
  <2>1. \/ pc' = "digest" /\ exit' = exit
        \/ \E status \in {"refused", "not_evaluated"} :
             stages' = [stages EXCEPT !["native_recomputation"] = status] /\ Finish(stages')
    BY <1>6 DEF StartRecompute, RefuseRecompute
  <2>2. ASSUME NEW status \in {"refused", "not_evaluated"},
               stages' = [stages EXCEPT !["native_recomputation"] = status], Finish(stages')
        PROVE  pc' = "done" /\ exit' = 1
    <3>1. "native_recomputation" \in StageNames
      BY StageNamesAre
    <3>2. stages'["native_recomputation"] # "completed"
      BY <2>2, <3>1 DEF IInv, TypeOK
    <3> QED
      BY <2>2, <3>1, <3>2 DEF Finish, Stopped, End
  <2> QED
    BY <1>1, <2>1, <2>2 DEF Comparing
<1> QED
  BY <1>2, <1>3, <1>5, <1>6

\* Every step keeps it.
LEMMA NextOriginInv == IInv /\ OriginInv /\ [Next]_allVars => OriginInv'
<1> SUFFICES ASSUME IInv, OriginInv, [Next]_allVars PROVE OriginInv'
  OBVIOUS
<1>1. CASE UNCHANGED allVars
  BY <1>1, OriginKept DEF allVars, vars, srsVars, Comparing, OriginInv, Observed
<1>2. CASE (Replace \/ Tick) /\ UNCHANGED srsVars
  <2>1. exit' # 0 /\ pc' = pc
    BY <1>2 DEF IInv, TypeOK, Replace, Tick
  <2> QED
    BY <1>2, <2>1, OriginKept DEF Replace, Tick, Comparing
<1>3. CASE Alter
  <2>1. pc' = "start" /\ exit' # 0
    BY <1>3 DEF IInv, TypeOK, Alter
  <2> QED
    BY <2>1 DEF OriginInv, Comparing
<1>4. CASE Verifier
  BY <1>4, CanonicalizeOriginInv, RecomputeOriginInv, CompareOriginInv, OtherOriginInv
    DEF Verifier, Recompute, NativeMain, SrsMain
<1>5. CASE (ProbeAnswer \/ RunAnswers \/ AnswerGarbled) /\ UNCHANGED srsVars
  BY <1>5, RecomputeOriginInv
<1> QED
  BY <1>1, <1>2, <1>3, <1>4, <1>5 DEF Next, Halt, Environment

\* Of a validator that keeps the promise of the taxonomy's byte_deterministic, an honest
\* observation is not accused on such an axis in an accepted report made by the same
\* version from the same bytes: for any inputs, clock and number of replaced files.
THEOREM HonestSidesAreSpared ==
  ASSUME \A asset, store, v, t, a : Reproducible(asset, store, v, t, a)
  PROVE  Spec => []HonestNotAccused
<1>1. ASSUME IInv, OriginInv PROVE HonestNotAccused
  <2> SUFFICES ASSUME exit = 0, Honest, NEW a \in DOMAIN report.comparison, Accuses(report.comparison[a]),
                      version # 0 \/ in.exe = Observed.version,
                      Observed.klass[a] = "byte_deterministic",
                      in.caller = "native" =>
                        /\ outcome.form = "evaluated" /\ recomputed.asset = ran.asset
                        /\ external => recomputed.store = ran.store
               PROVE  FALSE
    BY DEF HonestNotAccused
  <2> DEFINE o == Observed
             r == NativeReport(o.asset, o.store, o.version, 1)
             f == canonical_finding(r.entries, r.state, o)
  <2>1. in.caller # "check" /\ in.caller \in {"native", "check", "srs"}
    BY <1>1 DEF Honest, IInv, CallerInv, IsInvocation
  <2>2. o.form = "finding" /\ r.form = "evaluated" /\ o.axes = f.axes /\ o.klass = f.klass
    BY DEF Honest
  <2>3. report = build_report(o, recomputed) /\ Comparing
    BY <1>1, <2>1 DEF OriginInv, Comparing
  <2>4. /\ StatusOf(o, a) # StatusOf(recomputed, a)
        /\ \A p \in DOMAIN Comparability(o, recomputed) : Comparability(o, recomputed)[p]
        /\ report.comparison[a].klass = "byte_deterministic"
    <3>1. check_report(report) = {}
      BY <1>1 DEF IInv, Claims, AcceptedInv
    <3>2. report.observed = o /\ report.recomputed = recomputed
      BY <2>3 DEF build_report
    <3> QED
      BY <3>1, <3>2, AcceptedAccusation
  <2>5. o # NoFinding
    BY <2>2 DEF NoFinding
  <2>6. a \in Axes /\ recomputed.klass[a] = "byte_deterministic"
    BY <2>3, <2>4, <2>5 DEF build_report, compare_sides
  <2>7. o.asset = recomputed.asset /\ o.store = recomputed.store /\ o.version = recomputed.version
    BY <2>4 DEF Comparability
  <2>8. /\ outcome.form = "evaluated" /\ recomputed.asset = ran.asset
        /\ external => recomputed.store = ran.store
    <3>1. CASE in.caller = "native"
      BY <3>1
    <3>2. CASE in.caller = "srs"
      <4>1. outcome.form = "evaluated"
        BY <1>1, <3>2 DEF IInv, Claims, CompletedIsCorroborated
      <4>2. recomputed.form = "finding"
        BY <1>1, <2>3, CanonicalFinding, UnavailableFinding DEF OriginInv
      <4> QED
        BY <1>1, <3>2, <4>1, <4>2 DEF IInv, Claims, DigestNamesRunBytes
    <3> QED
      BY <2>1, <3>1, <3>2
  <2>9. PICK s : /\ recomputed = canonical_finding(outcome.entries, outcome.state, FreshContext(s))
                 /\ ~external => s = 0
    BY <1>1, <2>3, <2>8 DEF OriginInv
  <2>10. /\ recomputed.store = s /\ recomputed.version = IF version = 0 THEN Pinned ELSE version
         /\ recomputed.axes = [b \in Axes |-> IF b = "revocation" THEN "not_evaluated"
                                              ELSE AxisStatus(AxisEntries(outcome.entries, b), b)]
         /\ recomputed.klass = [b \in Axes |-> IF b = "revocation" THEN AxisClass[b]
                                               ELSE AxisClassOf(AxisEntries(outcome.entries, b), b)]
    BY <2>9 DEF canonical_finding, FreshContext
  <2>11. o.version = in.exe
    <3>1. version \in {0, in.exe}
      BY <1>1, <2>3 DEF OriginInv
    <3> QED
      BY <2>7, <2>10, <3>1
  <2>12. PICK t : outcome = NativeReport(ran.asset, IF external THEN ran.store ELSE 0, in.exe, t)
    BY <1>1, <2>3, <2>8 DEF OriginInv
  <2>13. o.store = IF external THEN ran.store ELSE 0
    BY <2>7, <2>8, <2>9, <2>10
  <2>14. outcome = NativeReport(o.asset, o.store, o.version, t)
    BY <2>7, <2>8, <2>11, <2>12, <2>13
  <2>15. /\ f.axes = [b \in Axes |-> IF b = "revocation" THEN "not_evaluated"
                                     ELSE AxisStatus(AxisEntries(r.entries, b), b)]
         /\ f.klass = [b \in Axes |-> IF b = "revocation" THEN AxisClass[b]
                                      ELSE AxisClassOf(AxisEntries(r.entries, b), b)]
    BY DEF canonical_finding
  <2>16. Reproducible(o.asset, o.store, o.version, t, a)
    OBVIOUS
  <2> HIDE DEF o, f
  <2>17. a # "revocation"
    <3> SUFFICES ASSUME a = "revocation" PROVE FALSE
      OBVIOUS
    <3>1. o.axes[a] = "not_evaluated" /\ recomputed.axes[a] = "not_evaluated"
          /\ a \in DOMAIN o.axes /\ a \in DOMAIN recomputed.axes
      BY <2>2, <2>6, <2>10, <2>15
    <3> QED
      BY <2>4, <3>1 DEF StatusOf
  <2>18. /\ o.axes[a] = AxisStatus(AxisEntries(r.entries, a), a) /\ a \in DOMAIN o.axes
         /\ AxisClassOf(AxisEntries(r.entries, a), a) = "byte_deterministic"
    BY <2>2, <2>6, <2>15, <2>17 DEF o
  <2>19. /\ recomputed.axes[a] = AxisStatus(AxisEntries(outcome.entries, a), a) /\ a \in DOMAIN recomputed.axes
         /\ AxisClassOf(AxisEntries(outcome.entries, a), a) = "byte_deterministic"
    BY <2>6, <2>10, <2>17
  <2>20. AxisStatus(AxisEntries(r.entries, a), a) = AxisStatus(AxisEntries(outcome.entries, a), a)
    BY <2>2, <2>8, <2>14, <2>16, <2>18, <2>19 DEF Reproducible
  <2> QED
    BY <2>4, <2>18, <2>19, <2>20 DEF StatusOf
<1>2. Spec => []OriginInv
  BY InitIInv, NextIInv, InitOriginInv, NextOriginInv, PTL DEF Spec
<1> QED
  BY <1>1, <1>2, AlwaysIInv, PTL
=============================================================================
