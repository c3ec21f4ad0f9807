--------------------------- MODULE AdmissionEvent ---------------------------
(***************************************************************************)
(* arcs_verify/admission_event.py, admission_event_v0_2.py and             *)
(* admission_event_v0_3.py: the three verifiers of an admission-event      *)
(* receipt.  v0.1 states its profile in Python; v0.2 and v0.3 validate a   *)
(* pinned profile schema and add the rules that bind a supersession;       *)
(* v0.3 also discloses whether the captured bytes of the two editions      *)
(* have one digest.                                                        *)
(*                                                                         *)
(* References, digests, keys and instants are numbers; 0 is missing and -1 *)
(* ill-formed.  Members of a receipt that only have to be well-formed are  *)
(* named in `defects' when they are not.  A signature verifies under the   *)
(* key it was made with while the receipt is sealed, that is, unaltered.   *)
(***************************************************************************)
EXTENDS Integers, Sequences

CONSTANTS
  Inputs,              \* the invocations that may be put together (external)
  Altered(_),          \* the invocations one alteration away (external)
  MaxFaults            \* bound on alterations

\* The members of the supersession that v0.3 compares.
Compared(s) == {s.predecessor_digest, s.successor_digest, s.predecessor_source, s.successor_source}

\* One of the three verifiers, a list of keys, and numbers as said above.
IsInvocation(x) ==
  /\ x.version \in 1 .. 3 /\ DOMAIN x.keyring \subseteq Nat
  /\ Compared(x.receipt.supersession) \subseteq Nat \cup {-1}

ASSUME FaultsAssumption == MaxFaults \in Nat
ASSUME InputsAssumption == \A x \in Inputs : IsInvocation(x)

VARIABLES
  in,                  \* the verifier's version and its files
  faults,              \* alterations so far
  pc,                  \* the stage of main and of the verifier
  holds,               \* the report's flags that are True
  codes,               \* failure codes
  comparison,          \* content_digest_comparison and its reason (v0.3)
  captured,            \* the verified_* identity: none, receipt or supersession
  exit                 \* exit status, -1 before the end

vars == <<in, faults, pc, holds, codes, comparison, captured, exit>>

NotEvaluated == [result |-> "NOT_EVALUATED", reason |-> "CONTENT_DIGEST_ABSENT"]

\* What passed asks for.
Required(version) ==
  {"envelope_schema_digest", "envelope", "profile", "raw_content_exclusion", "attestation_limits_present",
   "signature_valid", "issuer_key_resolved", "issuer_key_trusted"}
  \cup (IF version = 1 THEN {}
        ELSE {"profile_schema_digest", "supersession_binding", "authority_field_exclusion"})

Passed(version, flags) == Required(version) \subseteq flags

Init ==
  /\ in \in Inputs /\ faults = 0 /\ pc = "edit" /\ holds = {} /\ codes = {}
  /\ comparison = NotEvaluated /\ captured = "none" /\ exit = -1

Alter ==
  /\ pc = "edit" /\ faults < MaxFaults /\ faults' = faults + 1 /\ in' \in Altered(in) /\ IsInvocation(in')
  /\ UNCHANGED <<pc, holds, codes, comparison, captured, exit>>

\* The end of the verifier and of main.
Finish == pc' = "done" /\ exit' = IF Passed(in.version, holds') THEN 0 ELSE 1

Continue(stage) == pc' = stage /\ UNCHANGED exit

\* main: both files are read and must hold an object.
Load ==
  /\ pc = "edit"
  /\ IF "unusable" \in {in.receipt_file, in.keyring_file} THEN pc' = "done" /\ exit' = 2
     ELSE Continue(IF in.version = 3 THEN "compare" ELSE "envelope")
  /\ UNCHANGED <<in, faults, holds, codes, comparison, captured>>

----------------------------------------------------------------------------
(* v0.3: the comparison of the content digests, before everything else.    *)

\* _digest_shape and _source_shape: a member that is there is never absent.
Shape(x) == CASE x = 0 -> "absent" [] x = -1 -> "malformed" [] OTHER -> "well_formed"

\* Mutant: an absent source is not asked for.
compare_content_digestsUnsourced(s) ==
  LET d == {Shape(s.predecessor_digest), Shape(s.successor_digest)}
  IN CASE s.form # "object" \/ "absent" \in d -> NotEvaluated
       [] s.form = "object" /\ "absent" \notin d /\ "malformed" \in d ->
            [result |-> "NOT_EVALUATED", reason |-> "CONTENT_DIGEST_MALFORMED"]
       [] s.form = "object" /\ d = {"well_formed"} ->
            [result |-> IF s.predecessor_digest = s.successor_digest THEN "MATCH" ELSE "DIVERGED", reason |-> "none"]

compare_content_digests(s) ==
  LET d == {Shape(s.predecessor_digest), Shape(s.successor_digest)}
      p == {Shape(s.predecessor_source), Shape(s.successor_source)}
      unevaluated(reason) == [result |-> "NOT_EVALUATED", reason |-> reason]
  IN IF s.form # "object" \/ "absent" \in d THEN NotEvaluated
     ELSE IF "malformed" \in d THEN unevaluated("CONTENT_DIGEST_MALFORMED")
     ELSE IF "absent" \in p THEN unevaluated("CONTENT_DIGEST_PROVENANCE_ABSENT")
     ELSE IF "malformed" \in p THEN unevaluated("CONTENT_DIGEST_PROVENANCE_INVALID")
     ELSE [result |-> IF s.predecessor_digest = s.successor_digest THEN "MATCH" ELSE "DIVERGED",
           reason |-> "none"]

CompareDigests ==
  /\ pc = "compare" /\ comparison' = compare_content_digests(in.receipt.supersession)
  /\ Continue("envelope") /\ UNCHANGED <<in, faults, holds, codes, captured>>

----------------------------------------------------------------------------
(* The envelope and the profile.                                           *)

\* A schema that drifted is a finding and still used, one that does not
\* parse ends the verification, a missing one is an uncaught OSError.
CheckEnvelope ==
  /\ pc = "envelope"
  /\ \/ /\ in.envelope_schema = "missing" /\ pc' = "raised" /\ exit' = 1 /\ UNCHANGED <<holds, codes>>
     \/ /\ in.envelope_schema = "unreadable" /\ UNCHANGED holds
        /\ codes' = codes \cup {"schema.digest_mismatch", "envelope.schema_unreadable"} /\ Finish
     \/ /\ in.envelope_schema \in {"pinned", "drifted"}
        /\ holds' = holds \cup (IF in.envelope_schema = "pinned" THEN {"envelope_schema_digest"} ELSE {})
                      \cup (IF "envelope" \notin in.receipt.defects THEN {"envelope"} ELSE {})
        /\ codes' = codes \cup (IF in.envelope_schema = "drifted" THEN {"schema.digest_mismatch"} ELSE {})
                      \cup (IF "envelope" \in in.receipt.defects THEN {"envelope.schema_invalid"} ELSE {})
        /\ Continue("profile")
  /\ UNCHANGED <<in, faults, comparison, captured>>

\* Well-formedness the three profiles ask for alike: required members, the
\* constants, texts, visibility, digests, basis, classes, limitations.
CommonDefects ==
  {"missing_required", "constant", "text", "visibility", "digest", "basis_refs", "covered", "excluded",
   "machine_limitations", "extensions"}

StandingActs == {"ADMITTED", "REFUSED", "DEFERRED", "SUPERSEDED"}

\* Mutant: any version of the profile will do.
ProfileV1AnyVersion(r) ==
  /\ r.defects \cap CommonDefects = {}
  /\ r.standing_act \in StandingActs /\ r.subject_ref = r.subject_edition_ref
  /\ r.authority # "aggregate"

\* _profile_errors of v0.1: it knows no supersession members, and of the
\* authority-shaped keys only the aggregate ones, at the root.
ProfileV1(r) ==
  /\ r.defects \cap CommonDefects = {} /\ r.profile_version = 1
  /\ r.standing_act \in StandingActs /\ r.subject_ref = r.subject_edition_ref
  /\ r.authority # "aggregate"

\* The profile schemas of v0.2 and v0.3.  A supersession is required exactly
\* of a superseding receipt; only v0.3 knows the content digests.  No key of
\* the authority membrane may be at the root.
ProfileSchema(version, r) ==
  LET s == r.supersession
  IN /\ r.defects \cap CommonDefects = {} /\ r.profile_version = version
     /\ r.standing_act \in StandingActs /\ 1 \in r.limits /\ r.authority \notin {"aggregate", "root"}
     /\ IF r.standing_act = "SUPERSEDED"
          THEN /\ s.form = "object" /\ s.required /\ 2 \in r.limits
               /\ IF version = 2 THEN Compared(s) = {0} ELSE -1 \notin Compared(s)
          ELSE s.form = "absent"

CheckProfile ==
  LET schema == in.version = 1 \/ in.profile_schema = "pinned"
      valid == IF in.version = 1 THEN ProfileV1(in.receipt) ELSE ProfileSchema(in.version, in.receipt)
  IN /\ pc = "profile"
     /\ holds' = holds \cup (IF schema /\ in.version > 1 THEN {"profile_schema_digest"} ELSE {})
                   \cup (IF schema /\ valid THEN {"profile"} ELSE {})
     /\ codes' = codes \cup CASE schema /\ valid -> {}
                              [] schema /\ ~valid -> {"profile_invalid"}
                              [] ~schema -> {"profile_schema"}
     /\ Continue(IF in.version = 1 THEN "content" ELSE "supersession")
     /\ UNCHANGED <<in, faults, comparison, captured>>

\* Mutant: the successor may be of any record.
SupersessionErrorsAnyRecord(r) ==
  LET s == r.supersession
  IN IF r.subject_ref # r.subject_edition_ref THEN {"subject_binding_mismatch"}
     ELSE IF r.standing_act # "SUPERSEDED" THEN {}
     ELSE IF s.form # "object" THEN {"supersession_extension_missing"}
     ELSE (IF s.predecessor = s.successor THEN {"supersession_same_event"} ELSE {})
          \cup (IF r.subject_edition_ref = s.successor_edition THEN {"supersession_same_edition"} ELSE {})
          \cup (IF {s.predecessor, s.successor, s.owner_binding} \subseteq r.basis THEN {} ELSE {"ref_not_in_basis"})

\* _supersession_errors
SupersessionErrors(r) ==
  LET s == r.supersession
  IN IF r.subject_ref # r.subject_edition_ref THEN {"subject_binding_mismatch"}
     ELSE IF r.standing_act # "SUPERSEDED" THEN {}
     ELSE IF s.form # "object" THEN {"supersession_extension_missing"}
     ELSE (IF s.predecessor = s.successor THEN {"supersession_same_event"} ELSE {})
          \cup (IF r.subject_edition_ref = s.successor_edition THEN {"supersession_same_edition"} ELSE {})
          \cup (IF r.subject_record_ref # s.successor_record THEN {"supersession_cross_record"} ELSE {})
          \cup (IF {s.predecessor, s.successor, s.owner_binding} \subseteq r.basis THEN {} ELSE {"ref_not_in_basis"})

\* The supersession and, with _authority_errors, the keys at every depth.
CheckBindings ==
  LET errors == SupersessionErrors(in.receipt)
  IN /\ pc = "supersession"
     /\ holds' = holds \cup (IF errors = {} THEN {"supersession_binding"} ELSE {})
                   \cup (IF in.receipt.authority = "none" THEN {"authority_field_exclusion"} ELSE {})
     /\ codes' = codes \cup errors \cup (IF in.receipt.authority = "none" THEN {} ELSE {"authority_field.forbidden"})
     /\ Continue("content") /\ UNCHANGED <<in, faults, comparison, captured>>

----------------------------------------------------------------------------
(* Raw content and attestation limits.                                     *)

\* _raw_key_failure: a content-shaped key may only hold the evidence its
\* suffix promises.
RawKeyFails(m) ==
  ~ \/ m.suffix = "digest" /\ m.value = "digest"
    \/ m.suffix = "ref" /\ m.value \in {"digest", "reference"}
    \/ m.suffix = "refs" /\ m.value = "references"
    \/ m.suffix = "id" /\ m.value \in {"digest", "reference", "identifier"}
    \/ m.suffix = "ids" /\ m.value \in {"references", "identifiers"}

\* The content-shaped keys at every depth, and prohibited values.
RawContentErrors(r) == r.prohibited_value \/ \E m \in r.raw_members : RawKeyFails(m)

LimitsPresent(version, r) ==
  /\ r.limits_well_formed /\ 1 \in r.limits
  /\ version > 1 /\ r.standing_act = "SUPERSEDED" => 2 \in r.limits

CheckContent ==
  /\ pc = "content"
  /\ holds' = holds \cup (IF RawContentErrors(in.receipt) THEN {} ELSE {"raw_content_exclusion"})
                \cup (IF LimitsPresent(in.version, in.receipt) THEN {"attestation_limits_present"} ELSE {})
  /\ codes' = codes \cup (IF RawContentErrors(in.receipt) THEN {"raw_content"} ELSE {})
                \cup (IF LimitsPresent(in.version, in.receipt) THEN {} ELSE {"attestation.missing_required_limit"})
  /\ Continue("signature") /\ UNCHANGED <<in, faults, comparison, captured>>

----------------------------------------------------------------------------
(* The signature and the issuer.                                           *)

\* The first entry with the key id, as a set.
Entry(keyring, key_id) ==
  LET same == {j \in DOMAIN keyring : keyring[j].object /\ keyring[j].key_id = key_id}
  IN {keyring[j] : j \in {i \in same : \A l \in same : i <= l}}

\* _capture_verified_identity: on every way out of v0.2 and v0.3 from here.
CaptureVerifiedIdentity ==
  captured' = CASE in.version = 1 \/ ~in.receipt.canonical -> "none"
                [] in.version > 1 /\ in.receipt.canonical /\ in.receipt.standing_act = "SUPERSEDED"
                   /\ {"profile", "supersession_binding"} \subseteq holds' -> "supersession"
                [] OTHER -> "receipt"

\* The code of the first early return, or "none".  The public key 0 does not
\* decode, -1 is of the wrong length.
Unverifiable(r, entry) ==
  IF ~r.signature.well_formed THEN "signature_object_invalid"
  ELSE IF entry = {} THEN "key_id_unresolved"
  ELSE IF \E e \in entry : e.public_key = 0 THEN "public_key_encoding_invalid"
  ELSE IF r.signature.encoding = "undecodable" THEN "signature_encoding_invalid"
  ELSE IF \E e \in entry : e.public_key = -1 THEN "public_key_encoding_invalid"
  ELSE IF r.signature.encoding = "short" THEN "signature_encoding_invalid"
  ELSE IF ~r.canonical THEN "preimage_canonicalization_failed"
  ELSE "none"

\* Where the entries are looked for: the items of a text or an object are no entries.
Issuers(x) == IF x.issuers = "list" THEN x.keyring ELSE <<>>

\* An issuers member that cannot be iterated, null or a number, raises.
CheckSignature ==
  LET r == in.receipt
      entry == Entry(Issuers(in), r.signature.key_id)
      early == Unverifiable(r, entry)
      resolved == IF r.signature.well_formed /\ entry # {} THEN {"issuer_key_resolved"} ELSE {}
      valid == r.signature.sealed /\ \E e \in entry : e.public_key = r.signature.by
  IN /\ pc = "signature"
     /\ \/ /\ r.signature.well_formed /\ in.issuers = "scalar"
           /\ pc' = "raised" /\ exit' = 1 /\ UNCHANGED <<holds, codes, captured>>
        \/ /\ r.signature.well_formed => in.issuers # "scalar"
           /\ early # "none" /\ holds' = holds \cup resolved /\ CaptureVerifiedIdentity
           /\ codes' = codes \cup {early}
                         \cup (IF in.version > 1 /\ ~r.canonical
                                 THEN {"verified_receipt_canonicalization_failed"} ELSE {})
           /\ Finish
        \/ /\ r.signature.well_formed => in.issuers # "scalar"
           /\ early = "none"
           /\ holds' = holds \cup resolved \cup (IF valid THEN {"signature_valid"} ELSE {})
           /\ codes' = codes \cup (IF valid THEN {} ELSE {"signature_invalid"})
           /\ Continue("trust") /\ UNCHANGED captured
     /\ UNCHANGED <<in, faults, comparison>>

\* Mutant: the key need not be the issuer's.
TrustedAnyIssuer(e, r) ==
  /\ e.trusted /\ e.algorithm \in {"none", "Ed25519"}
  /\ r.issued_at > 0 /\ e.not_before > 0 /\ e.not_after > 0
  /\ e.not_before <= r.issued_at /\ r.issued_at <= e.not_after

\* A time that is missing or does not parse makes the key untrusted.
Trusted(e, r) ==
  /\ e.trusted /\ e.issuer_id = r.issuer_id /\ e.algorithm \in {"none", "Ed25519"}
  /\ r.issued_at > 0 /\ e.not_before > 0 /\ e.not_after > 0
  /\ e.not_before <= r.issued_at /\ r.issued_at <= e.not_after

CheckTrust ==
  LET trusted == \E e \in Entry(Issuers(in), in.receipt.signature.key_id) : Trusted(e, in.receipt)
  IN /\ pc = "trust"
     /\ holds' = holds \cup (IF trusted THEN {"issuer_key_trusted"} ELSE {})
     /\ codes' = codes \cup (IF trusted THEN {} ELSE {"key_untrusted"})
     /\ CaptureVerifiedIdentity /\ Finish /\ UNCHANGED <<in, faults, comparison>>

Next ==
  \/ Alter \/ Load \/ CompareDigests \/ CheckEnvelope \/ CheckProfile \/ CheckBindings \/ CheckContent
  \/ CheckSignature \/ CheckTrust

Spec == Init /\ [][Next]_vars

----------------------------------------------------------------------------
(* What is checked.                                                        *)

TypeOK ==
  /\ pc \in {"edit", "compare", "envelope", "profile", "supersession", "content", "signature", "trust", "done",
             "raised"}
  /\ holds \subseteq Required(2) /\ (in.version = 1 => holds \subseteq Required(1))
  /\ comparison.result \in {"MATCH", "DIVERGED", "NOT_EVALUATED"}
  /\ captured \in {"none", "receipt", "supersession"}
  /\ faults \in 0 .. MaxFaults /\ exit \in -1 .. 2 /\ (exit = -1 <=> pc \notin {"done", "raised"})

\* The holder of the keyring vouches for nothing that is not so, as far as
\* this receipt asks: a trusted entry has the key of the issuer it names,
\* alive at the time of issue if the entry's window has that time.
KeyringIsTrue(x) ==
  \A j \in DOMAIN x.keyring :
    LET e == x.keyring[j]
        t == x.receipt.issued_at
    IN e.object /\ e.trusted =>
         /\ e.public_key \in DOMAIN x.owner /\ x.owner[e.public_key] = e.issuer_id
         /\ e.not_before <= t /\ t <= e.not_after => t \in x.lifetime[e.public_key]

\* Exit 0 is for the receipt as its issuer's own trusted key sealed it, with
\* the key alive at the time of issue, whoever else is in the keyring.
PassIsTheIssuers ==
  exit = 0 /\ KeyringIsTrue(in) =>
    /\ in.receipt.signature.sealed /\ in.owner[in.receipt.signature.by] = in.receipt.issuer_id
    /\ in.receipt.issued_at \in in.lifetime[in.receipt.signature.by]

\* A receipt passes under the verifier of its own profile version alone, so
\* that a supersession never escapes the rules of v0.2 by being shown to the
\* verifier of v0.1, which has none; and from v0.2 on a pass hands on the
\* identity it is about, the supersession with it.
NoDowngrade ==
  exit = 0 =>
    /\ in.receipt.profile_version = in.version
    /\ in.version > 1 =>
         captured = IF in.receipt.standing_act = "SUPERSEDED" THEN "supersession" ELSE "receipt"

\* The supersession a report hands on as verified is a replacement within
\* one record of one edition by another, through events its basis names,
\* even in a report that fails.
CapturedIsReplacement ==
  captured = "supersession" =>
    LET s == in.receipt.supersession
    IN /\ in.receipt.subject_record_ref = s.successor_record
       /\ in.receipt.subject_edition_ref # s.successor_edition /\ s.predecessor # s.successor
       /\ {s.predecessor, s.successor} \subseteq in.receipt.basis

\* Wherever the report ends and whatever else it finds, the digests are
\* compared exactly when both and both their sources are well-formed, and
\* MATCH is for equal ones; it is never read out of something missing.
ComparisonIndependent ==
  pc = "done" /\ exit # 2 /\ in.version = 3 =>
    LET s == in.receipt.supersession
    IN /\ comparison.result # "NOT_EVALUATED" <=> s.form = "object" /\ \A x \in Compared(s) : x > 0
       /\ comparison.result = "MATCH" => s.predecessor_digest = s.successor_digest
       /\ comparison.result = "DIVERGED" => s.predecessor_digest # s.successor_digest

=============================================================================
