---------------------------- MODULE ExitOOrigin ----------------------------
(***************************************************************************)
(* arcs_verify/exit_o_origin_authentication.py and its command line        *)
(* exit_o_origin_cli.py: the findings about a receipt in which a present   *)
(* attester vouches for a historical act, recomputed from the receipt, a   *)
(* trust bundle, a key-principal binding, genesis evidence and the bytes   *)
(* of four evidence layers.                                                *)
(*                                                                         *)
(* References, digests, keys and scopes are numbers: 0 is missing, -1 not  *)
(* well-formed.  A timestamp is 10 * instant + spelling, so that two texts *)
(* can name one instant; 0 is missing and -1 does not parse.  A signature  *)
(* verifies under the key it was made with while the receipt is sealed,    *)
(* that is, unaltered since.                                               *)
(***************************************************************************)
EXTENDS Integers, Sequences

CONSTANTS
  Inputs,              \* the invocations that may be put together (external)
  Altered(_),          \* the invocations one alteration away (external)
  MaxFaults            \* bound on alterations

ASSUME FaultsAssumption == MaxFaults \in Nat

VARIABLES
  in,                  \* caller, options and the files
  faults,              \* alterations so far
  pc,                  \* the step of main and of the verifier
  k,                   \* the layer being looked at
  structural,          \* the structural findings that are True
  finding,             \* the substantive findings
  codes,               \* failure codes
  key,                 \* resolved_entry: the key that verified, or 0
  exit                 \* exit status, -1 before the end

vars == <<in, faults, pc, k, structural, finding, codes, key, exit>>

Layers == <<"key_authentication", "act_principal", "semantic_authority", "semantic_act">>

Substantive ==
  {Layers[j] : j \in DOMAIN Layers}
    \cup {"proof_receipt_signature", "historical_scope_authorization", "temporal_consistency"}

\* _KEY_BINDING_AUTHORITY_DOMAIN, as a domain.
InstitutionalAdmission == 1

IsRef(d) == d > 0

\* _parse_offset_aware_iso8601
Parses(t) == t > 0
Instant(t) == t \div 10

Init ==
  /\ in \in Inputs /\ faults = 0 /\ pc = "edit" /\ k = 1 /\ structural = {}
  /\ finding = [f \in Substantive |-> "not_evaluated"] /\ codes = {} /\ key = 0 /\ exit = -1

report == <<k, structural, finding, codes, key>>

Alter ==
  /\ pc = "edit" /\ faults < MaxFaults /\ faults' = faults + 1 /\ in' \in Altered(in)
  /\ UNCHANGED <<pc, report, exit>>

Submit == pc = "edit" /\ pc' = "load" /\ UNCHANGED <<in, faults, report, exit>>

\* The two mains.  The module's own hands the receipt to json.load and
\* catches nothing; it has no other input.
LoadInputs ==
  /\ pc = "load"
  /\ \/ /\ in.caller = "cli"
        /\ IF \/ in.time = -1
              \/ \E x \in {in.receipt, in.trust, in.binding, in.genesis} : x.form = "unusable"
             THEN pc' = "done" /\ exit' = 2
             ELSE pc' = "schema" /\ UNCHANGED exit
     \/ /\ in.caller = "module"
        /\ IF in.receipt.form = "unusable" THEN pc' = "raised" /\ exit' = 1
           ELSE pc' = "schema" /\ UNCHANGED exit
     \/ in.caller = "library" /\ pc' = "schema" /\ UNCHANGED exit
  /\ UNCHANGED <<in, faults, report>>

----------------------------------------------------------------------------
(* The structural findings.                                                *)

\* _load_pinned_schema, and the receipt against the pinned schema.
CheckSchema ==
  /\ pc = "schema"
  /\ LET pinned == in.schema = "pinned"
         conforms == pinned /\ in.receipt.profile /\ in.receipt.conforms
         mapping == in.receipt.form # "not_mapping"
         loading == CASE in.schema = "unreadable" -> {"profile_schema_unreadable"}
                      [] in.schema = "drifted" -> {"profile_schema_pin_mismatch"}
                      [] pinned -> {}
     IN /\ structural' = (IF pinned THEN {"profile_schema_pinned"} ELSE {})
                           \cup (IF mapping /\ conforms THEN {"proof_receipt_conformance"} ELSE {})
        /\ codes' = loading \cup
             CASE ~mapping -> {"receipt_not_object"}
               [] mapping /\ pinned /\ ~in.receipt.profile -> {"wrong_profile_or_version"}
               [] mapping /\ pinned /\ in.receipt.profile /\ ~in.receipt.conforms -> {"conformance_failed"}
               [] OTHER -> {}
        /\ IF mapping THEN pc' = "binding" /\ UNCHANGED exit ELSE pc' = "done" /\ exit' = 1
  /\ UNCHANGED <<in, faults, k, finding, key>>

\* exact_semantic_disposition_binding
ExactBinding(r) ==
  /\ r.semantic_act.object /\ r.disposition_ref # 0
  /\ r.semantic_act.binding_ref = r.disposition_ref
  /\ IsRef(r.semantic_act.binding_digest) /\ r.semantic_act.binding_digest = r.disposition_digest

CheckDisposition ==
  /\ pc = "binding" /\ pc' = "temporal"
  /\ IF ExactBinding(in.receipt)
       THEN structural' = structural \cup {"exact_semantic_disposition_binding"} /\ UNCHANGED codes
       ELSE /\ codes' = codes \cup {IF in.receipt.semantic_act.object THEN "exact_act_binding_mismatch"
                                    ELSE "semantic_act_absent"}
            /\ UNCHANGED structural
  /\ UNCHANGED <<in, faults, k, finding, key, exit>>

----------------------------------------------------------------------------
(* Findings of time and scope.                                             *)

TemporalCode(r) ==
  CASE ~(Parses(r.historical_act_time) /\ Parses(r.present_attestation_time) /\ Parses(r.issued_at)) ->
         "temporal_fields_invalid"
    [] Parses(r.historical_act_time) /\ Parses(r.present_attestation_time) /\ Parses(r.issued_at)
       /\ r.present_attestation_time # r.issued_at -> "attestation_time_mismatch"
    [] Parses(r.historical_act_time) /\ Parses(r.issued_at) /\ r.present_attestation_time = r.issued_at
       /\ Instant(r.historical_act_time) >= Instant(r.present_attestation_time) ->
         "historical_not_before_present"
    [] OTHER -> "none"

\* The end of the interval may be left out; a missing or unparsable start
\* covers nothing.
Covers(interval, t) ==
  /\ interval.object /\ Parses(t) /\ Parses(interval.not_before) /\ interval.not_after # -1
  /\ Instant(interval.not_before) <= Instant(t)
  /\ interval.not_after = 0 \/ Instant(t) <= Instant(interval.not_after)

ScopeCode(r) ==
  LET hsa == r.historical_scope_authorization
  IN IF ~hsa.object THEN "historical_scope_authorization_absent"
     ELSE IF hsa.scope # r.scope THEN "historical_scope_mismatch"
     ELSE IF ~Covers(hsa.interval, r.present_attestation_time)
       THEN "historical_scope_interval_excludes_attestation"
     ELSE IF hsa.binding_ref = r.scope.historical_actor THEN "historical_scope_same_string_as_actor"
     ELSE "none"

\* The copy of the issuer scope in the layer semantic_authority.
AuthorityScopeDiffers(r) ==
  r.semantic_authority.object /\
    \E n \in {"semantic_issuer", "authority_profile", "domain"} : r.semantic_authority.scope[n] # r.scope[n]

Fail(cond) == IF cond THEN "fail" ELSE "not_evaluated"

CheckTimeAndScope ==
  /\ pc = "temporal" /\ pc' = "signature"
  /\ LET r == in.receipt
     IN /\ finding' =
             [finding EXCEPT
                !["temporal_consistency"] = IF TemporalCode(r) = "none" THEN "pass" ELSE "fail",
                !["historical_scope_authorization"] = Fail(ScopeCode(r) # "none"),
                !["semantic_authority"] = Fail(AuthorityScopeDiffers(r))]
        /\ codes' = codes \cup ({TemporalCode(r), ScopeCode(r)} \ {"none"})
                      \cup (IF AuthorityScopeDiffers(r) THEN {"semantic_authority_scope_mismatch"} ELSE {})
  /\ UNCHANGED <<in, faults, k, structural, key, exit>>

----------------------------------------------------------------------------
(* The signature.                                                          *)

\* _resolve_trust_bundle_entry: the first entry with the key id, as a set.
Entry(trust, key_id) ==
  LET same == {j \in DOMAIN trust.keys : trust.keys[j].object /\ trust.keys[j].key_id = key_id}
  IN IF trust.keys_is_list THEN {trust.keys[j] : j \in {i \in same : \A l \in same : i <= l}} ELSE {}

\* Mutant: the window is open at its start.
WithinOpen(not_before, not_after, t) ==
  /\ not_before # 0 => Instant(not_before) < t
  /\ not_after # 0 => t < Instant(not_after)

Within(not_before, not_after, t) ==
  /\ not_before # 0 => Instant(not_before) <= t
  /\ not_after # 0 => t < Instant(not_after)

\* _key_entry_usability_failure: explicit absence of a revocation, the window
\* at the time of issue and at the time of verification (-1 without an
\* offset), the profile.
UsabilityCode(e, issued_at, now) ==
  CASE e.revocation = "malformed" -> "trust_bundle_entry_malformed"
    [] e.revocation = "revoked" -> "signature_key_revoked"
    [] e.revocation = "compromise" -> "signature_key_compromised"
    [] e.revocation = "none" /\ ~Parses(issued_at) -> "signature_issued_at_invalid"
    [] e.revocation = "none" /\ Parses(issued_at) /\ now = -1 -> "signature_verification_time_invalid"
    [] OTHER -> IF -1 \in {e.not_before, e.not_after} THEN "trust_bundle_entry_malformed"
                ELSE IF ~Within(e.not_before, e.not_after, Instant(issued_at))
                  THEN "signature_key_outside_validity_window"
                ELSE IF ~Within(e.not_before, e.not_after, now)
                  THEN "signature_key_outside_verification_window"
                ELSE IF ~e.allows_profile THEN "signature_key_profile_not_allowed" ELSE "none"

\* The codes in the order the code asks; "none" when the signature verifies.
SignatureCode(r, trust, now) ==
  LET s == r.signature
      entry == CHOOSE e \in Entry(trust, s.key_id) : TRUE
  IN IF ~s.members THEN "signature_object_invalid"
     ELSE IF trust.form = "not_mapping" THEN "trust_bundle_malformed"
     ELSE IF Entry(trust, s.key_id) = {} THEN "signature_key_id_unresolved"
     ELSE IF UsabilityCode(entry, r.issued_at, now) # "none" THEN UsabilityCode(entry, r.issued_at, now)
     ELSE IF ~s.encoded THEN "signature_encoding_invalid"
     ELSE IF entry.public_key = 0 THEN "trust_bundle_public_key_invalid"
     ELSE IF ~s.canonical THEN "preimage_canonicalization_failed"
     ELSE IF s.by # entry.public_key \/ ~s.sealed THEN "signature_invalid" ELSE "none"

CheckSignature ==
  /\ pc = "signature" /\ pc' = "layers"
  /\ LET r == in.receipt
         code == SignatureCode(r, in.trust, in.now)
     IN \/ /\ ~r.signature.object
           /\ finding' = [finding EXCEPT !["proof_receipt_signature"] = "fail"]
           /\ codes' = codes \cup {"signature_absent"} /\ UNCHANGED key
        \/ /\ r.signature.object /\ in.trust.form = "omitted" /\ UNCHANGED <<finding, codes, key>>
        \/ /\ r.signature.object /\ in.trust.form # "omitted" /\ code # "none"
           /\ finding' = [finding EXCEPT !["proof_receipt_signature"] = "fail"]
           /\ codes' = codes \cup {code} /\ UNCHANGED key
        \/ /\ r.signature.object /\ in.trust.form # "omitted" /\ code = "none"
           /\ finding' = [finding EXCEPT !["proof_receipt_signature"] = "pass"]
           /\ key' = (CHOOSE e \in Entry(in.trust, r.signature.key_id) : TRUE).public_key
           /\ UNCHANGED codes
  /\ UNCHANGED <<in, faults, k, structural, exit>>

----------------------------------------------------------------------------
(* The four evidence layers, one at a time.                                *)

\* Mutant: missing bytes are looked at before an earlier failure.
LayerFindingForgets(l, evidence, before) ==
  IF ~l.object THEN [value |-> "fail", code |-> "layer_absent"]
  ELSE IF ~IsRef(l.binding_digest) THEN [value |-> "fail", code |-> "layer_digest_malformed"]
  ELSE IF evidence = 0 THEN [value |-> "unavailable", code |-> "none"]
  ELSE IF before = "fail" THEN [value |-> "fail", code |-> "none"]
  ELSE IF evidence = -1 THEN [value |-> "fail", code |-> "layer_evidence_bytes_invalid"]
  ELSE IF evidence # l.binding_digest THEN [value |-> "fail", code |-> "layer_evidence_digest_mismatch"]
  ELSE [value |-> "not_evaluated", code |-> "none"]

LayerFinding(l, evidence, before) ==
  IF ~l.object THEN [value |-> "fail", code |-> "layer_absent"]
  ELSE IF ~IsRef(l.binding_digest) THEN [value |-> "fail", code |-> "layer_digest_malformed"]
  ELSE IF before = "fail" THEN [value |-> "fail", code |-> "none"]
  ELSE IF evidence = 0 THEN [value |-> "unavailable", code |-> "none"]
  ELSE IF evidence = -1 THEN [value |-> "fail", code |-> "layer_evidence_bytes_invalid"]
  ELSE IF evidence # l.binding_digest THEN [value |-> "fail", code |-> "layer_evidence_digest_mismatch"]
  ELSE [value |-> "not_evaluated", code |-> "none"]

CheckLayer ==
  /\ pc = "layers"
  /\ LET name == Layers[k]
         found == LayerFinding(in.receipt[name], in.evidence[name], finding[name])
     IN /\ finding' = [finding EXCEPT ![name] = found.value]
        /\ codes' = codes \cup ({found.code} \ {"none"})
  /\ IF k = Len(Layers) THEN pc' = "key" /\ UNCHANGED k ELSE k' = k + 1 /\ UNCHANGED pc
  /\ UNCHANGED <<in, faults, structural, key, exit>>

----------------------------------------------------------------------------
(* Key authentication and the overall result.                              *)

\* Mutant: a key bound to some principal is enough.
BindingCodeAnyPrincipal(r, b, g, fingerprint) ==
  IF b.fingerprint # fingerprint THEN "key_authentication_fingerprint_mismatch"
  ELSE IF b.key_id # r.signature.key_id THEN "key_authentication_binding_key_id_mismatch"
  ELSE IF b.domain # InstitutionalAdmission THEN "key_authentication_binding_domain_mismatch"
  ELSE IF ~b.purpose THEN "key_authentication_binding_purpose_mismatch"
  ELSE "none"

\* The fingerprint is recomputed from the key in the trust bundle.
BindingCode(r, b, g, fingerprint) ==
  IF b.form = "not_mapping" THEN "key_authentication_binding_malformed"
  ELSE IF b.fingerprint # fingerprint THEN "key_authentication_fingerprint_mismatch"
  ELSE IF b.key_id # r.signature.key_id THEN "key_authentication_binding_key_id_mismatch"
  ELSE IF b.domain # InstitutionalAdmission THEN "key_authentication_binding_domain_mismatch"
  ELSE IF ~b.purpose THEN "key_authentication_binding_purpose_mismatch"
  ELSE IF b.actor # r.scope.present_attester THEN "key_authentication_binding_attester_mismatch"
  ELSE IF b.authority_profile # r.scope.authority_profile THEN "key_authentication_binding_profile_mismatch"
  ELSE IF b.domain # r.scope.domain THEN "key_authentication_binding_receipt_domain_mismatch"
  ELSE IF g.form # "omitted" /\
          ~(g.form = "object" /\ b.actor = g.actor /\ b.authority_profile = g.authority_profile
              /\ b.genesis = g.genesis)
    THEN "key_authentication_genesis_mismatch"
  ELSE "none"

\* Runs only if the layer itself has not failed.
KeyFinding ==
  LET code == BindingCode(in.receipt, in.binding, in.genesis, key)
  IN IF finding["key_authentication"] = "fail" THEN [value |-> "fail", code |-> "none"]
     ELSE IF finding["proof_receipt_signature"] = "fail"
       THEN [value |-> "fail", code |-> "key_authentication_signature_failed"]
     ELSE IF finding["proof_receipt_signature"] = "not_evaluated" \/ in.binding.form = "omitted"
       THEN [value |-> finding["key_authentication"], code |-> "none"]
     ELSE IF code # "none" THEN [value |-> "fail", code |-> code]
     ELSE [value |-> "pass", code |-> "none"]

\* _compute_exit_o_chain_satisfied
ChainSatisfied(s, f) ==
  /\ {"profile_schema_pinned", "proof_receipt_conformance", "exact_semantic_disposition_binding"} \subseteq s
  /\ \A n \in Substantive : f[n] = "pass"

\* The exit status is the library caller's report, too.
ConcludeKey ==
  /\ pc = "key" /\ pc' = "done"
  /\ finding' = [finding EXCEPT !["key_authentication"] = KeyFinding.value]
  /\ codes' = codes \cup ({KeyFinding.code} \ {"none"})
  /\ exit' = IF \/ ChainSatisfied(structural, finding')
                \/ /\ in.caller = "cli" /\ in.require_key_authentication
                   /\ finding'["proof_receipt_signature"] = "pass"
                   /\ finding'["key_authentication"] = "pass"
               THEN 0 ELSE 1
  /\ UNCHANGED <<in, faults, k, structural, key>>

Verify ==
  LoadInputs \/ CheckSchema \/ CheckDisposition \/ CheckTimeAndScope \/ CheckSignature \/ CheckLayer
    \/ ConcludeKey

Next == Alter \/ Submit \/ Verify

Spec == Init /\ [][Next]_vars

----------------------------------------------------------------------------
(* What is checked.                                                        *)

TypeOK ==
  /\ pc \in {"edit", "load", "schema", "binding", "temporal", "signature", "layers", "key", "done", "raised"}
  /\ k \in DOMAIN Layers
  /\ structural \subseteq {"profile_schema_pinned", "proof_receipt_conformance",
                           "exact_semantic_disposition_binding"}
  /\ finding \in [Substantive -> {"pass", "fail", "not_evaluated", "unavailable"}]
  /\ faults \in 0 .. MaxFaults /\ exit \in -1 .. 2 /\ (exit = -1 <=> pc \notin {"done", "raised"})

\* A finding that has failed stays failed: neither the loop over the layers,
\* which runs after the checks across fields, nor the recomputation of the
\* key's binding, which runs after the loop, may report it as unavailable,
\* not evaluated or passed.
FailureIsTerminal == [][\A f \in Substantive : finding[f] = "fail" => finding'[f] = "fail"]_vars

\* What the holder of trust bundle and binding vouches for is so, as far as
\* this receipt asks: the key bound to an actor is his, and a key that is
\* not revoked was alive at the two instants if its window has them.
EvidenceIsTrue(x) ==
  /\ x.binding.form # "omitted" =>
       x.binding.fingerprint \in DOMAIN x.owner /\ x.owner[x.binding.fingerprint] = x.binding.actor
  /\ \A j \in DOMAIN x.trust.keys :
       LET e == x.trust.keys[j]
       IN e.object /\ e.revocation \notin {"malformed", "revoked", "compromise"} =>
            /\ e.public_key \in DOMAIN x.lifetime
            /\ \A t \in {Instant(x.receipt.issued_at), x.now} :
                 Within(e.not_before, e.not_after, t) => t \in x.lifetime[e.public_key]

\* An attester is authenticated only by a key of his own, alive when the
\* receipt was issued and when it is verified, over the receipt as signed:
\* unless trust bundle or binding vouch for what is not so, no receipt of
\* one attester passes under the key and binding of another.
AuthenticatedByOwnKey ==
  finding["key_authentication"] = "pass" /\ EvidenceIsTrue(in) =>
    /\ in.owner[in.receipt.signature.by] = in.receipt.scope.present_attester
    /\ in.receipt.signature.sealed
    /\ \A t \in {Instant(in.receipt.issued_at), in.now} : t \in in.lifetime[in.receipt.signature.by]

\* The receipt an institution issued authenticates its key to the holder of
\* its trust bundle and binding, with the other layers left open.
HonestReceiptAuthenticates ==
  pc = "done" /\ faults = 0 /\ in.caller = "cli" /\ in.consistent =>
    /\ finding["key_authentication"] = "pass" /\ codes = {}
    /\ in.require_key_authentication => exit = 0

=============================================================================
