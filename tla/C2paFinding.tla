---------------------------- MODULE C2paFinding ----------------------------
(***************************************************************************)
(* The pure part of arcs_verify/c2pa_native.py: a native validator report  *)
(* normalised axis by axis into a canonical finding, two findings          *)
(* compared, and the checker of the assembled report.                      *)
(*                                                                         *)
(* A report is the set of its entries [scope, severity, code]; a digest is *)
(* the number of the bytes digested, 0 when there are none.  NativeCodes   *)
(* keeps, for each axis of the pinned taxonomy, the codes that behave      *)
(* differently; a code outside it is unmapped.                             *)
(***************************************************************************)
EXTENDS Integers, FiniteSets

\* AXIS_ORDER, and the reproducibility class the taxonomy gives each axis.
AxisClass ==
  [manifest_structure |-> "byte_deterministic", asset_binding |-> "byte_deterministic",
   claim_signature |-> "byte_deterministic", signer_trust |-> "policy_dependent",
   signer_validity |-> "time_dependent", timestamp |-> "time_dependent",
   revocation |-> "resource_dependent", ingredient |-> "byte_deterministic"]

Axes == DOMAIN AxisClass

\* native_codes of the taxonomy: the axis of a code and the status it declares.
NativeCodes ==
  [hashedURI_match |-> [axis |-> "manifest_structure", declared |-> "satisfied"],
   dataHash_match |-> [axis |-> "asset_binding", declared |-> "satisfied"],
   dataHash_mismatch |-> [axis |-> "asset_binding", declared |-> "failed"],
   insideValidity |-> [axis |-> "claim_signature", declared |-> "satisfied"],
   trusted |-> [axis |-> "signer_trust", declared |-> "satisfied"],
   untrusted |-> [axis |-> "signer_trust", declared |-> "failed"],
   expired |-> [axis |-> "signer_validity", declared |-> "failed"],
   notValidYet |-> [axis |-> "signer_validity", declared |-> "failed"],
   timeStamp_trusted |-> [axis |-> "timestamp", declared |-> "satisfied"],
   timeStamp_untrusted |-> [axis |-> "timestamp", declared |-> "indeterminate"],
   revoked |-> [axis |-> "revocation", declared |-> "failed"],
   ingredient_validated |-> [axis |-> "ingredient", declared |-> "satisfied"]]

ClassStrength ==
  [byte_deterministic |-> 0, policy_dependent |-> 1, time_dependent |-> 3, resource_dependent |-> 4]

\* PINNED_VALIDATOR["version"], and the digest of HERMETIC_SETTINGS_TOML.
Pinned == 1
HermeticSettings == 4

DefaultTrust == [mode |-> "default", material |-> 0]

-----------------------------------------------------------------------------
(* Canonicalization. *)

\* An ingredient-scoped entry counts for the ingredient axis whatever its code.
AxisEntries(E, axis) ==
  {e \in E : IF e.scope = "ingredientDeltas" THEN axis = "ingredient"
             ELSE e.code \in DOMAIN NativeCodes /\ NativeCodes[e.code].axis = axis}

\* _axis_status: a failure decides, whatever else was reported.
AxisStatus(E, axis) ==
  LET severe(s) == \E e \in E : e.severity = s
      undecided ==
        \E e \in E : /\ e.code \in DOMAIN NativeCodes
                     /\ NativeCodes[e.code] = [axis |-> axis, declared |-> "indeterminate"]
  IN  CASE E = {} -> "not_evaluated"
        [] severe("failure") -> "failed"
        [] ~severe("failure") /\ severe("success") /\ ~undecided -> "satisfied"
        [] OTHER -> "indeterminate"

\* _axis_class and _weakest_class: the ingredient axis inherits from its codes.
AxisClassOf(E, axis) ==
  LET inherited ==
        {AxisClass[NativeCodes[e.code].axis] :
           e \in {f \in E : f.code \in DOMAIN NativeCodes /\ NativeCodes[f.code].axis # axis}}
      classes == {AxisClass[axis]} \cup (IF axis = "ingredient" THEN inherited ELSE {})
  IN  CHOOSE c \in classes : \A d \in classes : ClassStrength[c] >= ClassStrength[d]

\* canonical_finding_from_native_report: revocation is never concluded.
canonical_finding(E, state, ctx) ==
  [form |-> "finding", side |-> ctx.side, impl |-> ctx.impl, version |-> ctx.version,
   asset |-> ctx.asset, store |-> ctx.store, settings |-> ctx.settings, trust |-> ctx.trust,
   hermetic |-> TRUE, wallClock |-> TRUE, repeated |-> FALSE, status |-> "evaluated", state |-> state,
   anchored |-> \E e \in E : e.code = "timeStamp_trusted" /\ e.severity = "success",
   axes |-> [a \in Axes |-> IF a = "revocation" THEN "not_evaluated"
                            ELSE AxisStatus(AxisEntries(E, a), a)],
   klass |-> [a \in Axes |-> IF a = "revocation" THEN AxisClass[a]
                             ELSE AxisClassOf(AxisEntries(E, a), a)]]

\* canonical_finding_unavailable: the pin is recorded whatever was run.
canonical_finding_unavailable(ctx) ==
  [form |-> "finding", side |-> ctx.side, impl |-> "c2patool", version |-> Pinned,
   asset |-> ctx.asset, store |-> 0, settings |-> ctx.settings, trust |-> ctx.trust,
   hermetic |-> TRUE, wallClock |-> TRUE, repeated |-> FALSE, status |-> "input_unavailable",
   state |-> "none", anchored |-> FALSE,
   axes |-> [a \in Axes |-> "not_evaluated"], klass |-> AxisClass]

NoFinding == [form |-> "none"]

-----------------------------------------------------------------------------
(* Comparison. *)

\* Mutant: any version of the same validator will do.
ComparabilityAnyVersion(o, r) ==
  [validator_identity_match |-> o.impl = r.impl,
   validator_version_match |-> o.impl = r.impl,
   asset_digest_match |-> o.asset = r.asset,
   manifest_store_digest_match |-> o.store = r.store,
   trust_basis_match |-> o.trust = r.trust,
   settings_match |-> o.settings = r.settings]

\* _comparability
Comparability(o, r) ==
  [validator_identity_match |-> o.impl = r.impl,
   validator_version_match |-> o.impl = r.impl /\ o.version = r.version,
   asset_digest_match |-> o.asset = r.asset,
   manifest_store_digest_match |-> o.store = r.store,
   trust_basis_match |-> o.trust = r.trust,
   settings_match |-> o.settings = r.settings]

BasisReason ==
  [signer_trust |-> "trust_basis_delta", timestamp |-> "timestamp_basis_delta",
   revocation |-> "revocation_basis_delta"]

StatusOf(f, a) == IF a \in DOMAIN f.axes THEN f.axes[a] ELSE "none"

\* _compare_axis: the state of an axis and the reason for it.
CompareAxis(a, os, rs, class, c, clockAnchored) ==
  LET apart(reason) == <<"not_comparable", reason>>
  IN  IF os = "none" \/ rs = "none" THEN <<"not_evaluated", "insufficient_evidence">>
      ELSE IF a = "revocation" THEN apart("revocation_basis_delta")
      ELSE IF ~c.asset_digest_match \/ ~c.manifest_store_digest_match THEN apart("input_delta")
      ELSE IF ~c.validator_identity_match THEN apart("validator_implementation_delta")
      ELSE IF ~c.validator_version_match THEN apart("validator_version_delta")
      ELSE IF ~c.trust_basis_match /\ a \in DOMAIN BasisReason THEN apart(BasisReason[a])
      ELSE IF ~c.settings_match THEN apart("policy_delta")
      ELSE IF os = rs THEN <<"match", "same_inputs_same_semantics">>
      ELSE IF class = "time_dependent" /\ ~clockAnchored THEN apart("validation_clock_delta")
      ELSE IF class = "policy_dependent" THEN apart("policy_delta")
      ELSE IF class = "resource_dependent" THEN apart("unsupported_native_feature")
      ELSE <<"mismatch", "same_inputs_same_semantics">>

\* reason_posture_matrix of the taxonomy.
Posture(state, reason) ==
  CASE reason \in {"unsupported_native_feature", "insufficient_evidence"} -> "not_assessable"
    [] state = "mismatch" /\ reason = "same_inputs_same_semantics" -> "possible_substantive_divergence"
    [] OTHER -> "no_integrity_inference"

\* The reasons the matrix has for a state.
LegalReasons(state) ==
  LET same == {"same_inputs_same_semantics"}
      causes == {"validator_implementation_delta", "validator_version_delta", "trust_basis_delta",
                 "revocation_basis_delta", "timestamp_basis_delta", "validation_clock_delta", "input_delta",
                 "policy_delta", "unsupported_native_feature", "insufficient_evidence"}
  IN  CASE state = "match" -> same
        [] state = "mismatch" -> same \cup causes
        [] state = "not_comparable" -> causes
        [] state = "not_evaluated" -> {"insufficient_evidence"}
        [] OTHER -> {}

\* compare_sides: the class of an axis is the recomputed side's.
compare_sides(o, r) ==
  [a \in Axes |->
     LET class == r.klass[a]
         sr == CompareAxis(a, StatusOf(o, a), StatusOf(r, a), class, Comparability(o, r),
                           o.anchored /\ r.anchored)
     IN  [state |-> sr[1], reason |-> sr[2], posture |-> Posture(sr[1], sr[2]), klass |-> class,
          observed |-> StatusOf(o, a), recomputed |-> StatusOf(r, a)]]

\* build_report: a comparison exactly when there is an observed side.
build_report(o, r) ==
  [recomputed |-> r, observed |-> o,
   comparison |-> IF o = NoFinding THEN <<>> ELSE compare_sides(o, r),
   comparability |-> IF o = NoFinding THEN <<>> ELSE Comparability(o, r)]

-----------------------------------------------------------------------------
(* check_report *)

\* The enum of the report's schema, and null.
NativeStates == {"Trusted", "Valid", "Invalid", "none"}

\* The checks of one side: axis set, hermeticity, revocation, clock, availability, schema.
SideFaults(f, side) ==
  {c \in {"SIDE_LABEL"} : f.side # side}
    \cup {c \in {"AXIS_DUPLICATE"} : f.repeated}
    \cup {c \in {"AXIS_COVERAGE"} : DOMAIN f.axes # Axes}
    \cup {c \in {"HERMETICITY"} : ~f.hermetic}
    \cup {c \in {"REVOCATION_IMPLIED"} : StatusOf(f, "revocation") \notin {"not_evaluated", "none"}}
    \cup {c \in {"CLOCK"} : ~f.wallClock}
    \cup {c \in {"UNAVAILABLE_AS_FAILURE"} :
            /\ f.status # "evaluated"
            /\ \E a \in DOMAIN f.axes : f.axes[a] \notin {"not_evaluated", "not_applicable"}}
    \cup {c \in {"UNAVAILABLE_WITH_STATE"} : f.status # "evaluated" /\ f.state # "none"}
    \cup {c \in {"SCHEMA"} : f.state \notin NativeStates}

Accuses(e) == e.posture = "possible_substantive_divergence"

\* Mutant: the entry is held against the matrix only.
EntryFaultsMatrixOnly(e, a, o, r) ==
  IF e.reason \notin LegalReasons(e.state) THEN {"REASON_ILLEGAL_FOR_STATE"}
  ELSE {c \in {"POSTURE_ILLEGAL_FOR_REASON"} : e.posture # Posture(e.state, e.reason)}

\* The checks of one comparison entry; an unknown state or reason skips the others.
EntryFaults(e, a, o, r) ==
  IF e.reason \notin LegalReasons(e.state) THEN {"REASON_ILLEGAL_FOR_STATE"}
  ELSE {c \in {"POSTURE_ILLEGAL_FOR_REASON"} : e.posture # Posture(e.state, e.reason)}
         \cup {c \in {"INTEGRITY_ON_NONDETERMINISTIC_AXIS"} : Accuses(e) /\ e.klass # "byte_deterministic"}
         \cup {c \in {"INTEGRITY_WITHOUT_COMPARABLE_BASIS"} :
                 Accuses(e) /\ \E p \in DOMAIN Comparability(o, r) : ~Comparability(o, r)[p]}
         \cup {c \in {"STATUS_NOT_GROUNDED"} : e.observed # StatusOf(o, a) \/ e.recomputed # StatusOf(r, a)}
         \cup {c \in {"MATCH_WITHOUT_EQUALITY"} : e.state = "match" /\ StatusOf(o, a) # StatusOf(r, a)}
         \cup {c \in {"MISMATCH_WITHOUT_DIFFERENCE"} : e.state = "mismatch" /\ StatusOf(o, a) = StatusOf(r, a)}

\* check_report over a report that is there, aggregate keys apart.
check_report(rep) ==
  LET o == rep.observed
      r == rep.recomputed
      compared == DOMAIN rep.comparison # {}
  IN  IF r = NoFinding THEN {"RECOMPUTATION_REQUIRED"}
      ELSE SideFaults(r, "recomputed")
             \cup (IF o = NoFinding THEN {} ELSE SideFaults(o, "observed"))
             \cup {c \in {"COMPARISON_MISSING"} : o # NoFinding /\ ~compared}
             \cup {c \in {"COMPARISON_UNGROUNDED"} : o = NoFinding /\ compared}
             \cup {c \in {"COMPARABILITY_COUPLING"} : (DOMAIN rep.comparability # {}) # (o # NoFinding)}
             \cup (IF o = NoFinding \/ ~compared THEN {}
                   ELSE {c \in {"COMPARISON_AXIS_COVERAGE"} : DOMAIN rep.comparison # Axes}
                          \cup {c \in {"COMPARABILITY_NOT_RECOMPUTED"} :
                                  rep.comparability # Comparability(o, r)}
                          \cup UNION {EntryFaults(rep.comparison[a], a, o, r) : a \in DOMAIN rep.comparison})
=============================================================================
