------------------------------- MODULE MCC2pa -------------------------------
(***************************************************************************)
(* Both C2PA command lines over three assets.  Asset 1 is intact and       *)
(* carries a trusted timestamp; asset 2 is altered and carries none; asset *)
(* 3 keeps its manifest store apart (store 7).  At instant 2 the signers of *)
(* asset 2 and of the ingredient of asset 1 have expired and the ingredient *)
(* of asset 2 has become valid; version 2 of the validator judges the      *)
(* binding of assets 1 and 2 the other way.                                *)
(***************************************************************************)
EXTENDS C2paSrsObserved

Active(sev, code) == [scope |-> "activeManifest", severity |-> sev, code |-> code]
Ingredient(sev, code) == [scope |-> "ingredientDeltas", severity |-> sev, code |-> code]

Evaluated(E) ==
  [form |-> "evaluated", entries |-> E,
   state |-> IF \E e \in E : e.severity = "failure" /\ e.code # "untrusted" THEN "Invalid" ELSE "Valid"]

Common == {Active("success", "hashedURI_match"), Active("failure", "untrusted"),
           Active("informational", "unlisted_code")}

MCNativeReport(asset, store, v, t) ==
  CASE asset = 1 ->
         Evaluated(Common
           \cup {Active("success", "timeStamp_trusted"), Active("success", "insideValidity"),
                 IF v = 1 THEN Active("success", "dataHash_match") ELSE Active("failure", "dataHash_mismatch"),
                 Ingredient("success", "ingredient_validated")}
           \cup (IF t = 2 THEN {Ingredient("failure", "expired")} ELSE {}))
    [] asset = 2 ->
         Evaluated(Common
           \cup {IF v = 1 THEN Active("failure", "dataHash_mismatch") ELSE Active("success", "dataHash_match"),
                 Active("informational", "timeStamp_untrusted"), Ingredient("success", "ingredient_validated")}
           \cup (IF t = 1 THEN {Ingredient("failure", "notValidYet")} ELSE {Active("failure", "expired")}))
    [] asset = 3 /\ store = 7 ->
         Evaluated(Common \cup {Active("success", "dataHash_match"), Active("success", "insideValidity")})
    [] OTHER -> Silent("input_unavailable")

\* The validator of the instance keeps the promise of the taxonomy.
ASSUME ValidatorAssumption ==
  \A asset \in 0..7, store \in {0, 7}, v \in 1..2, t \in 1..MaxNow, a \in Axes :
    Reproducible(asset, store, v, t, a)

Store(asset) == IF asset = 3 THEN 7 ELSE 0

-----------------------------------------------------------------------------
(* Observations. *)

Observation(asset, v) ==
  LET r == MCNativeReport(asset, Store(asset), v, 1)
  IN  [form |-> "object", asset |-> asset, subject |-> asset,
       store |-> [state |-> "present", digest |-> IF asset = 3 THEN 7 ELSE 8],
       mode |-> IF asset = 3 THEN "external_supplied" ELSE "embedded", uri |-> TRUE,
       report |-> [named |-> TRUE, digest |-> 5, format |-> "c2patool.json", state |-> r.state,
                   fromMachine |-> TRUE],
       findings |-> r.entries, impl |-> "c2patool", version |-> v,
       configPosture |-> "configuration_supplied", config |-> HermeticSettings,
       replay |-> [performed |-> TRUE, fetch |-> FALSE, online |-> FALSE],
       posture |-> "native_validation_performed", unavailable |-> {},
       trust |-> [basis |-> "default_no_trust_material", observation |-> "untrusted", refs |-> {}],
       pinnedTime |-> FALSE, later |-> "comparable", defects |-> {}]

NoObs == [form |-> "none"]

SrsInput(asset, v) ==
  LET obs == Observation(asset, v)
  IN  [caller |-> "srs", disk |-> [asset |-> asset, store |-> Store(asset)], external |-> asset = 3,
       exe |-> v, obs |-> obs, observed |-> NoFinding, report |-> NoReport,
       assetName |-> "plain", pinsHold |-> TRUE,
       kept |-> [report |-> [digest |-> 5, parses |-> TRUE, state |-> obs.report.state,
                             entries |-> obs.findings],
                 config |-> HermeticSettings]]

Side(asset, v) ==
  LET r == MCNativeReport(asset, Store(asset), v, 1)
  IN  canonical_finding(r.entries, r.state,
        [side |-> "observed", impl |-> "c2patool", version |-> v, asset |-> asset, store |-> Store(asset),
         settings |-> HermeticSettings, trust |-> DefaultTrust])

NativeInput(asset, v) ==
  [SrsInput(asset, v) EXCEPT !.caller = "native", !.obs = NoObs, !.observed = Side(asset, v)]

CheckInput(o, r) ==
  [SrsInput(1, 1) EXCEPT !.caller = "check", !.obs = NoObs, !.report = build_report(o, [r EXCEPT !.side = "recomputed"])]

MCInputs ==
  {SrsInput(a, 1) : a \in 1..3} \cup {NativeInput(a, v) : a \in 1..3, v \in 1..2}
    \cup {CheckInput(Side(1, 1), Side(1, 1)), CheckInput(NoFinding, Side(2, 1))}

-----------------------------------------------------------------------------
(* One alteration. *)

AlteredObs(o) ==
  {[o EXCEPT !.form = "not_json"]}
    \cup {[o EXCEPT !.asset = d] : d \in {0, -1, 2}} \cup {[o EXCEPT !.subject = d] : d \in {0, 2}}
    \cup {[o EXCEPT !.asset = 2, !.subject = 2]}
    \cup {[o EXCEPT !.store = s] : s \in [state : {"present", "absent", "odd"}, digest : {0, 7}]}
    \cup {[o EXCEPT !.mode = md, !.uri = FALSE] : md \in {"embedded", "remote_reference", "none"}}
    \cup {[o EXCEPT !.report.named = FALSE], [o EXCEPT !.report.digest = 6],
          [o EXCEPT !.report.format = "other"], [o EXCEPT !.report.fromMachine = FALSE]}
    \cup {[o EXCEPT !.report.state = s] : s \in {"none", "Trusted", "Odd"}}
    \cup {[o EXCEPT !.findings = {}],
          [o EXCEPT !.findings = @ \ {Active("failure", "dataHash_mismatch")}],
          [o EXCEPT !.findings = @ \cup {Active("failure", "dataHash_mismatch")}]}
    \cup {[o EXCEPT !.impl = "other"], [o EXCEPT !.version = 0], [o EXCEPT !.version = 2]}
    \cup {[o EXCEPT !.configPosture = p, !.config = d] :
            p \in {"configuration_supplied", "validator_defaults"}, d \in {0, 2}}
    \cup {[o EXCEPT !.replay = r] : r \in [performed : BOOLEAN, fetch : BOOLEAN, online : BOOLEAN]}
    \cup {[o EXCEPT !.posture = "input_unavailable"], [o EXCEPT !.posture = "not_performed"],
          [o EXCEPT !.posture = "input_unavailable", !.unavailable = {"manifest_store"},
                    !.report.named = FALSE, !.report.digest = 0, !.report.state = "none", !.findings = {}]}
    \cup {[o EXCEPT !.unavailable = {"tsa_trust_material"}]}
    \cup {[o EXCEPT !.trust = t] :
            t \in [basis : {"default_no_trust_material", "explicit_anchors", "official_trust_list",
                            "unknown_not_captured", "odd"},
                   observation : {"trusted", "untrusted"}, refs : {{}, {9}, {9, 10}}]}
    \cup {[o EXCEPT !.pinnedTime = TRUE], [o EXCEPT !.later = "not_comparable"],
          [o EXCEPT !.defects = {"FIELD_SCHEMA"}]}

AlteredSide(f) ==
  {[f EXCEPT !.asset = 2], [f EXCEPT !.version = 2], [f EXCEPT !.impl = "other"], [f EXCEPT !.store = 6],
   [f EXCEPT !.trust = [mode |-> "anchors_supplied", material |-> 9]], [f EXCEPT !.settings = 2],
   [f EXCEPT !.hermetic = FALSE], [f EXCEPT !.wallClock = FALSE], [f EXCEPT !.repeated = TRUE],
   [f EXCEPT !.side = "recomputed"], [f EXCEPT !.status = "input_unavailable"],
   [f EXCEPT !.state = "Odd"], [f EXCEPT !.anchored = ~@],
   [f EXCEPT !.axes = [a \in Axes \ {"ingredient"} |-> f.axes[a]]]}
    \cup {[f EXCEPT !.axes[a] = s] : a \in Axes, s \in {"satisfied", "failed", "not_evaluated"}}

AlteredReport(r) ==
  {[r EXCEPT !.recomputed = NoFinding], [r EXCEPT !.comparison = <<>>], [r EXCEPT !.comparability = <<>>],
   [r EXCEPT !.observed = NoFinding]}
    \cup (IF r.observed = NoFinding THEN {}
          ELSE {[r EXCEPT !.observed = f] : f \in AlteredSide(r.observed)}
                 \cup {[r EXCEPT !.comparability.asset_digest_match = FALSE]}
                 \cup {build_report(f, r.recomputed) : f \in AlteredSide(r.observed)}
                 \cup {[r EXCEPT !.comparison["asset_binding"].posture = "possible_substantive_divergence",
                                 !.comparison["asset_binding"].state = s,
                                 !.comparison["asset_binding"].recomputed = t] :
                         s \in {"match", "mismatch", "odd"}, t \in {"satisfied", "failed"}})

MCAltered(i) ==
  {[i EXCEPT !.exe = v] : v \in 0..2}
    \cup (CASE i.caller = "srs" ->
                 {[i EXCEPT !.obs = o] : o \in AlteredObs(i.obs)}
                   \cup {[i EXCEPT !.disk.asset = b] : b \in {0, 2}}
                   \cup {[i EXCEPT !.assetName = n] : n \in {"invalid", "hermetic.toml", "manifest-store.c2pa"}}
                   \cup {[i EXCEPT !.external = ~@], [i EXCEPT !.pinsHold = FALSE],
                         [i EXCEPT !.kept.config = 0], [i EXCEPT !.kept.config = 2],
                         [i EXCEPT !.kept.report.digest = 0], [i EXCEPT !.kept.report.digest = 6],
                         [i EXCEPT !.kept.report.parses = FALSE]}
            [] i.caller = "native" ->
                 {[i EXCEPT !.observed = f] : f \in {NoFinding, [form |-> "broken"]}}
                   \cup (IF i.observed.form # "finding" THEN {}
                         ELSE {[i EXCEPT !.observed = f] : f \in AlteredSide(i.observed)})
                   \cup {[i EXCEPT !.external = ~@]} \cup {[i EXCEPT !.disk.asset = b] : b \in {0, 2}}
            [] OTHER -> IF DOMAIN i.report.comparison = {} THEN {}
                        ELSE {[i EXCEPT !.report = r] : r \in AlteredReport(i.report)})

MCContents == {0, 2}
=============================================================================
