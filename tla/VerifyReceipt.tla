--------------------------- MODULE VerifyReceipt ---------------------------
(***************************************************************************)
(* The signed-SRS path of arcs-verify: the default CLI command             *)
(* (cli._verify_srs) around verifier.verify_receipt.                       *)
(*                                                                         *)
(* One invocation is one behaviour.  The state is the report under         *)
(* construction and the point the code has reached; each action is one     *)
(* block of verify_receipt, in the order of the source, with its early     *)
(* returns.  Ed25519 is symbolic: a signature value names the key that     *)
(* made it and the preimage it was made over, and verifies under exactly   *)
(* that key and that preimage.                                             *)
(***************************************************************************)
EXTENDS Integers, Sequences, FiniteSets

CONSTANTS
  Inputs,                        \* the invocations considered (see InputOK)
  Registry,                      \* keys of PROFILE_REGISTRY
  ACPS_SDK_ENFORCEMENT_PROFILE,  \* the profile with a companion wire
  PUBLIC_PUBLICATION_PROFILE,    \* the profile bound to envelope v0.2.1
  ACCEPTED_SCHEMA_SHA256,        \* the pinned envelope schema digests
  V021,                          \* the pin of srs-envelope v0.2.1
  None                           \* an absent value (JSON null, no such member)

ASSUME RegistryAssumption ==
  /\ None \notin Registry
  /\ None \notin {0, 1, 2}
  /\ ACPS_SDK_ENFORCEMENT_PROFILE \in Registry
  /\ PUBLIC_PUBLICATION_PROFILE \in Registry
  /\ V021 \in ACCEPTED_SCHEMA_SHA256

VARIABLES
  pc,      \* the block of the code to run next
  input,   \* what the caller supplied; never written
  results,                   \* the Boolean findings of the VerificationReport
  principal_binding_digest,  \* its companion-wire finding
  decision_branch,           \* its lowering_consistency and outcome_binding
  codes,                     \* its failure_codes after _dedupe: a set
  exit                       \* exit status of the process, None while it runs

scoped == <<principal_binding_digest, decision_branch>>
report == <<results, scoped, codes>>
vars == <<pc, input, report, exit>>

----------------------------------------------------------------------------
(* The data.                                                               *)

\* Findings of the report that gate `passed'.
BooleanResults ==
  {"schema_digest", "envelope", "profile", "raw_content_exclusion",
   "signature_valid", "issuer_key_resolved", "issuer_key_trusted",
   "attestation_limits_present"}

TriState == {"not_applicable", "not_evaluated", "pass", "fail"}

\* VerificationReport.passed, of the Boolean findings r and the companion-wire
\* finding c.  Nothing here sets chain_status, its other conjunct.
Passed(r, c) == (\A b \in BooleanResults : r[b]) /\ c # "fail"

\* What the signature covers: the receipt without the signature value, so
\* the key_id member of the signature object is covered too.
Preimage(content, key_id) == [content |-> content, key_id |-> key_id]

\* next(item for item in entries if item["key_id"] == key_id): the first
\* entry of the trust bundle that carries the key id.
Matches(keyring, key_id) == {i \in DOMAIN keyring : keyring[i].key_id = key_id}
Resolved(keyring, key_id) == Matches(keyring, key_id) # {}
FirstEntry(keyring, key_id) ==
  keyring[CHOOSE i \in Matches(keyring, key_id) :
            \A j \in Matches(keyring, key_id) : i <= j]

\* _profile_errors: an unregistered name is an error, every registered
\* profile pins profile_id and profile_version, the rest of its rules are
\* the attribute `conforms', and public publication also pins the envelope.
ProfileErrors(content, selected, schema) ==
  (IF selected \notin Registry THEN {"profile.unsupported_selection"} ELSE {})
  \cup (IF selected \in Registry /\ ~(content.profile = selected /\ content.conforms)
          THEN {"profile.invalid"} ELSE {})
  \cup (IF selected = PUBLIC_PUBLICATION_PROFILE /\ schema # V021
          THEN {"public_publication.envelope_identity_mismatch"} ELSE {})

\* _check_principal_binding_digest.  A companion is None, or a wire with the
\* digest its RFC 8785 form hashes to (None: not canonicalizable) and a reason.
PrincipalBindingDigest(content, selected, companion) ==
  CASE \/ selected # ACPS_SDK_ENFORCEMENT_PROFILE
       \/ ~content.caller_resolution_failed
       \/ content.principal_binding = None          -> "not_applicable"
    [] OTHER ->
       IF companion = None THEN "not_evaluated"
       ELSE IF /\ companion.digest # None
               /\ companion.digest = content.principal_binding.unresolved_digest
               /\ companion.reason = content.principal_binding.unresolved_reason
            THEN "pass" ELSE "fail"

\* The validity window test of the trust block; an unparseable time raises
\* inside the try and leaves the key untrusted.
WithinWindow(entry, issued_at) ==
  /\ issued_at # None /\ entry.not_before # None /\ entry.not_after # None
  /\ entry.not_before <= issued_at /\ issued_at <= entry.not_after

\* Mutant: any trusted key in its window speaks for every issuer.
KeyTrustedAnyIssuer(entry, content) ==
  entry.trusted /\ WithinWindow(entry, content.issued_at)

KeyTrusted(entry, content) ==
  /\ entry.trusted
  /\ entry.issuer_id = content.issuer_id
  /\ WithinWindow(entry, content.issued_at)

\* Ed25519PublicKey.verify, symbolic.
Verifies(entry, sig, content) ==
  /\ sig.made_by = entry.public_key
  /\ sig.over = Preimage(content, sig.key_id)

----------------------------------------------------------------------------
Init ==
  /\ pc = "load"
  /\ input \in Inputs
  /\ results = [b \in BooleanResults |-> FALSE]
  /\ principal_binding_digest = "not_applicable"
  /\ decision_branch = "not_applicable"
  /\ codes = {}
  /\ exit = None

\* One block: record the finding, its codes, and go on.
Record(from, to, result, value, failures) ==
  /\ pc = from
  /\ pc' = to
  /\ results' = [results EXCEPT ![result] = value]
  /\ codes' = codes \cup failures
  /\ UNCHANGED <<input, scoped, exit>>

\* `return _dedupe(report)', then the CLI's `return 0 if report.passed else 1'.
Return(r, failures) ==
  /\ pc' = "exited"
  /\ results' = r
  /\ codes' = codes \cup failures
  /\ exit' = IF Passed(r, principal_binding_digest) THEN 0 ELSE 1
  /\ UNCHANGED <<input, scoped>>

\* The block has nothing to record.
Continue(to) == pc' = to /\ UNCHANGED <<input, report, exit>>

\* An exception no caller catches: the interpreter exits 1 without a report.
Raise ==
  /\ pc' = "raised"
  /\ exit' = 1
  /\ UNCHANGED <<input, report>>

\* _verify_srs loads receipt, keyring, schema and companion; any of them
\* missing, unreadable, malformed or not an object is exit 2.
LoadInputs ==
  /\ pc = "load"
  /\ IF input.unusable # {}
       THEN pc' = "source_error" /\ exit' = 2
       ELSE pc' = "companion" /\ UNCHANGED exit
  /\ UNCHANGED <<input, report>>

CheckCompanion ==
  LET binding == PrincipalBindingDigest(input.content, input.selected, input.companion)
      branch  == IF /\ input.selected = ACPS_SDK_ENFORCEMENT_PROFILE
                    /\ ~input.content.caller_resolution_failed
                   THEN "not_evaluated" ELSE "not_applicable"
  IN /\ pc = "companion"
     /\ pc' = "schema"
     /\ principal_binding_digest' = binding
     /\ decision_branch' = branch
     /\ codes' = codes \cup
          (IF binding = "fail"
             THEN {"acps_b1.principal_binding_digest_verification_failed"} ELSE {})
     /\ UNCHANGED <<input, results, exit>>

CheckSchemaDigest ==
  LET ok == input.schema \in ACCEPTED_SCHEMA_SHA256
  IN Record("schema", "envelope", "schema_digest", ok,
            IF ok THEN {} ELSE {"schema.digest_mismatch"})

\* A schema outside the pinned ones is still evaluated; one that is not a
\* Draft 2020-12 schema makes the validator raise.
CheckEnvelope ==
  LET ok == input.schema \in input.content.validates_under
  IN \/ pc = "envelope" /\ ~input.schema_evaluates /\ Raise
     \/ /\ input.schema_evaluates
        /\ Record("envelope", "profile", "envelope", ok,
                  IF ok THEN {} ELSE {"envelope.schema_invalid"})

\* The profile routines index and hash members whose type the envelope
\* finding does not gate, so a mistyped member raises here.
CheckProfile ==
  \/ /\ pc = "profile"
     /\ input.selected \in Registry /\ input.content.mistyped
     /\ Raise
  \/ LET errors == ProfileErrors(input.content, input.selected, input.schema)
     IN /\ ~(input.selected \in Registry /\ input.content.mistyped)
        /\ Record("profile", "raw", "profile", errors = {}, errors)

CheckRawContent ==
  Record("raw", "limits", "raw_content_exclusion", input.content.raw_clean,
         IF input.content.raw_clean THEN {} ELSE {"raw_content.violation"})

CheckAttestationLimits ==
  Record("limits", "signature_object", "attestation_limits_present",
         input.content.limits_present,
         IF input.content.limits_present THEN {} ELSE {"attestation.missing_or_empty"})

\* A string signature is legacy; a malformed object is rejected; both return.
CheckSignatureObject ==
  /\ pc = "signature_object"
  /\ CASE input.sig.form = "string" -> Return(results, {"legacy_unverified"})
       [] input.sig.form = "invalid_object" -> Return(results, {"signature_object_invalid"})
       [] OTHER -> Continue("resolve")

\* The trust bundle is an object; its `issuers' member may be anything.
ResolveKey ==
  \/ /\ pc = "resolve" /\ input.keyring = None
     /\ Raise
  \/ /\ pc = "resolve" /\ input.keyring # None
     /\ ~Resolved(input.keyring, input.sig.key_id)
     /\ Return(results, {"key_id_unresolved"})
  \/ /\ input.keyring # None
     /\ Resolved(input.keyring, input.sig.key_id)
     /\ Record("resolve", "decode", "issuer_key_resolved", TRUE, {})

\* Both values are base64url-decoded before either length (32, 64 bytes) is
\* looked at: the code reported is that of the first test that fails.
EncodingErrors(key, sig) ==
  CASE key = "malformed"    -> {"public_key_encoding_invalid"}
    [] key # "malformed" /\ sig = "malformed" -> {"signature_encoding_invalid"}
    [] key = "wrong_length" /\ sig # "malformed" -> {"public_key_encoding_invalid"}
    [] key = "ok" /\ sig = "wrong_length" -> {"signature_encoding_invalid"}
    [] OTHER -> {}

DecodeKeyMaterial ==
  LET errors == EncodingErrors(FirstEntry(input.keyring, input.sig.key_id).encoding,
                               input.sig.encoding)
  IN /\ pc = "decode"
     /\ IF errors # {}
          THEN Return(results, errors)
          ELSE Continue("canonicalize")

CanonicalizePreimage ==
  /\ pc = "canonicalize"
  /\ IF input.content.canonicalizable
       THEN Continue("verify")
       ELSE Return(results, {"preimage_canonicalization_failed"})

VerifySignature ==
  LET ok == Verifies(FirstEntry(input.keyring, input.sig.key_id), input.sig, input.content)
  IN Record("verify", "binding", "signature_valid", ok,
            IF ok THEN {} ELSE {"signature_invalid"})

\* Mutant: the mismatch is reported but the signature finding stands.
CheckVersionBindingKeepsSignature ==
  LET bound == /\ input.selected \in Registry
               /\ input.content.version_current
               /\ input.content.profile = input.selected
  IN Record("binding", "trust", "signature_valid",
            results["signature_valid"],
            IF bound THEN {} ELSE {"version_binding_mismatch"})

\* A receipt whose version or profile identity is not the selected one has
\* its signature finding withdrawn.
CheckVersionBinding ==
  LET bound == /\ input.selected \in Registry
               /\ input.content.version_current
               /\ input.content.profile = input.selected
  IN Record("binding", "trust", "signature_valid",
            results["signature_valid"] /\ bound,
            IF bound THEN {} ELSE {"version_binding_mismatch"})

CheckKeyTrust ==
  LET ok == KeyTrusted(FirstEntry(input.keyring, input.sig.key_id), input.content)
  IN /\ pc = "trust"
     /\ Return([results EXCEPT !["issuer_key_trusted"] = ok],
               IF ok THEN {} ELSE {"key_untrusted"})

Next ==
  \/ LoadInputs
  \/ CheckCompanion
  \/ CheckSchemaDigest
  \/ CheckEnvelope
  \/ CheckProfile
  \/ CheckRawContent
  \/ CheckAttestationLimits
  \/ CheckSignatureObject
  \/ ResolveKey
  \/ DecodeKeyMaterial
  \/ CanonicalizePreimage
  \/ VerifySignature
  \/ CheckVersionBinding
  \/ CheckKeyTrust

Spec == Init /\ [][Next]_vars

----------------------------------------------------------------------------
(* The inputs.                                                             *)

Times == Int \cup {None}
Encodings == {"malformed", "wrong_length", "ok"}

EntryOK(e) ==
  /\ e.trusted \in BOOLEAN
  /\ e.encoding \in Encodings
  /\ e.not_before \in Times /\ e.not_after \in Times

\* The JSON values an invocation may be given.  A receipt of the wrong types
\* conforms to no profile, and only a schema outside the pins fails to be one.
InputOK(in) ==
  /\ in.content.conforms \in BOOLEAN /\ in.content.mistyped \in BOOLEAN
  /\ in.content.version_current \in BOOLEAN /\ in.content.raw_clean \in BOOLEAN
  /\ in.content.limits_present \in BOOLEAN /\ in.content.canonicalizable \in BOOLEAN
  /\ in.content.issued_at \in Times
  /\ in.content.mistyped => ~in.content.conforms
  /\ in.schema_evaluates \in BOOLEAN
  /\ in.schema \in ACCEPTED_SCHEMA_SHA256 => in.schema_evaluates
  /\ in.sig.form \in {"string", "invalid_object", "object"}
  /\ in.sig.encoding \in Encodings
  /\ in.keyring # None =>
       /\ DOMAIN in.keyring \subseteq Nat
       /\ \A i \in DOMAIN in.keyring : EntryOK(in.keyring[i])

ASSUME InputsAssumption == \A in \in Inputs : InputOK(in)

----------------------------------------------------------------------------
(* What is checked.                                                        *)

Terminal == {"exited", "raised", "source_error"}
Running ==
  {"load", "companion", "schema", "envelope", "profile", "raw", "limits",
   "signature_object", "resolve", "decode", "canonicalize", "verify",
   "binding", "trust"}

\* Types of the report, and: the process has an exit status exactly when it
\* has left verify_receipt or the loading code (cli._verify_srs).
TypeOK ==
  /\ pc \in Running \cup Terminal
  /\ InputOK(input)
  /\ results \in [BooleanResults -> BOOLEAN]
  /\ principal_binding_digest \in TriState
  /\ decision_branch \in {"not_applicable", "not_evaluated"}
  /\ exit \in {None, 0, 1, 2}
  /\ exit = None <=> pc \in Running

\* A report passes exactly when it carries no failure code: no early return
\* of verify_receipt leaves a failing report unexplained, and no code is
\* attached to a report that passes (VerificationReport.passed is computed
\* from the findings and never looks at failure_codes).
PassIffNoCodes ==
  pc = "exited" => (Passed(results, principal_binding_digest) <=> codes = {})

\* The receipt was signed, over exactly these bytes, by a key the trust
\* bundle lists under the key id the receipt names, trusted for its issuer
\* at its issue time.
Authentic(in) ==
  /\ in.keyring # None
  /\ \E i \in DOMAIN in.keyring :
       LET e == in.keyring[i] IN
       /\ e.key_id = in.sig.key_id /\ e.encoding = "ok"
       /\ e.trusted /\ e.issuer_id = in.content.issuer_id
       /\ in.content.issued_at # None /\ e.not_before # None /\ e.not_after # None
       /\ e.not_before <= in.content.issued_at /\ in.content.issued_at <= e.not_after
       /\ e.public_key = in.sig.made_by
  /\ in.sig.form = "object" /\ in.sig.encoding = "ok"
  /\ in.content.canonicalizable
  /\ in.sig.over = [content |-> in.content, key_id |-> in.sig.key_id]

\* The receipt is what the caller asked to verify: pinned envelope schema,
\* selected profile and version, no raw content, limits stated.
Conforming(in) ==
  /\ in.schema \in ACCEPTED_SCHEMA_SHA256 /\ in.schema \in in.content.validates_under
  /\ in.selected \in Registry
  /\ in.content.profile = in.selected
  /\ in.content.conforms /\ in.content.version_current
  /\ in.selected = PUBLIC_PUBLICATION_PROFILE => in.schema = V021
  /\ in.content.raw_clean /\ in.content.limits_present

\* A companion wire supplied for a caller_resolution_failed admission is the
\* wire the receipt committed to.
CompanionConsistent(in) ==
  (/\ in.selected = ACPS_SDK_ENFORCEMENT_PROFILE
   /\ in.content.caller_resolution_failed
   /\ in.content.principal_binding # None
   /\ in.companion # None)
  => /\ in.companion.digest # None
     /\ in.companion.digest = in.content.principal_binding.unresolved_digest
     /\ in.companion.reason = in.content.principal_binding.unresolved_reason

Acceptable(in) ==
  in.unusable = {} /\ Conforming(in) /\ Authentic(in) /\ CompanionConsistent(in)

\* No key id is listed twice: then the first match is the only one.
UniqueKeyIds(in) ==
  in.keyring # None =>
    \A i, j \in DOMAIN in.keyring : in.keyring[i].key_id = in.keyring[j].key_id => i = j

MustAccept(in) == Acceptable(in) /\ UniqueKeyIds(in)

UnusableInput(in) == in.unusable # {}

Verdict ==
  CASE exit = 0 -> "pass" [] exit = 1 -> "fail" [] exit = 2 -> "none"
    [] OTHER -> "pending"

Contract ==
  INSTANCE ReceiptVerdict WITH
    Unusable <- UnusableInput,
    MayPass  <- Acceptable,
    MustPass <- MustAccept,
    request  <- input,
    verdict  <- Verdict

\* Exit 0 is given to acceptable receipts only, and to every one of them
\* whose trust bundle lists each key id once; exit 2 exactly to unusable
\* inputs; and the status never changes (README.md, "Exit codes").  The
\* findings are computed by fourteen blocks with five early returns; the
\* acceptance condition says nothing of blocks, order or first match.
RefinesReceiptVerdict == Contract!Spec

=============================================================================
