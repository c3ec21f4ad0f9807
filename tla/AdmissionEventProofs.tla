------------------------- MODULE AdmissionEventProofs -------------------------
(***************************************************************************)
(* Proofs about AdmissionEvent, for every set of invocations and every way *)
(* of altering one.  The inductive invariant says what each flag of the    *)
(* report that is True means of the files, at whatever stage and whatever  *)
(* exit of the verifier.                                                   *)
(***************************************************************************)
EXTENDS AdmissionEvent, TLAPS

\* The entry the receipt's key id names, the first of that id.
Resolved(x) == Entry(Issuers(x), x.receipt.signature.key_id)

\* The flags and the comparison before their stages.
StageInv ==
  /\ IsInvocation(in)
  /\ pc \in {"edit", "compare", "envelope"} => holds = {}
  /\ pc = "supersession" => in.version # 1
  /\ pc = "trust" => in.receipt.canonical
  /\ pc # "done" => captured = "none" /\ "issuer_key_trusted" \notin holds

\* What a flag says of the files.
FlagInv ==
  /\ "profile" \in holds => in.receipt.profile_version = in.version
  /\ "supersession_binding" \in holds => SupersessionErrors(in.receipt) = {}
  /\ "signature_valid" \in holds =>
       in.receipt.signature.sealed /\ \E e \in Resolved(in) : e.public_key = in.receipt.signature.by
  /\ "issuer_key_trusted" \in holds => \E e \in Resolved(in) : Trusted(e, in.receipt)

\* What is captured, and what a report that reached the trust check captures.
CaptureInv ==
  /\ captured = "supersession" => in.receipt.standing_act = "SUPERSEDED" /\ "supersession_binding" \in holds
  /\ {"profile", "supersession_binding", "issuer_key_trusted"} \subseteq holds /\ in.version > 1 =>
       captured = IF in.receipt.standing_act = "SUPERSEDED" THEN "supersession" ELSE "receipt"

\* The comparison is made once, first, and not touched again.
ComparisonInv ==
  in.version = 3 /\ exit # 2 /\ pc \notin {"edit", "compare"} =>
    comparison = compare_content_digests(in.receipt.supersession)

PassInv == exit = 0 => Passed(in.version, holds)

IInv == TypeOK /\ StageInv /\ FlagInv /\ CaptureInv /\ ComparisonInv /\ PassInv

----------------------------------------------------------------------------
\* The comparison has one of three results; it compares exactly when all
\* four members are well-formed, and tells equal digests from others.
LEMMA ComparisonMeans ==
  ASSUME NEW s, Compared(s) \subseteq Nat \cup {-1}
  PROVE  LET c == compare_content_digests(s)
         IN /\ c.result \in {"MATCH", "DIVERGED", "NOT_EVALUATED"}
            /\ c.result # "NOT_EVALUATED" <=> s.form = "object" /\ \A x \in Compared(s) : x > 0
            /\ c.result = "MATCH" => s.predecessor_digest = s.successor_digest
            /\ c.result = "DIVERGED" => s.predecessor_digest # s.successor_digest
<1> DEFINE c == compare_content_digests(s)
<1>1. \A x \in Nat \cup {-1} : Shape(x) = "well_formed" <=> x > 0
  BY DEF Shape
<1>2. \A x : Shape(x) \in {"absent", "malformed", "well_formed"}
  BY DEF Shape
<1>3. CASE s.form = "object" /\ \A x \in Compared(s) : Shape(x) = "well_formed"
  <2>1. c.result = IF s.predecessor_digest = s.successor_digest THEN "MATCH" ELSE "DIVERGED"
    BY <1>3 DEF compare_content_digests, Compared
  <2> QED BY <1>1, <1>3, <2>1
<1>4. CASE ~(s.form = "object" /\ \A x \in Compared(s) : Shape(x) = "well_formed")
  <2>1. c.result = "NOT_EVALUATED"
    BY <1>2, <1>4 DEF compare_content_digests, Compared, NotEvaluated
  <2> QED BY <1>1, <1>4, <2>1
<1> QED BY <1>3, <1>4

\* What a key id resolves to is in the keyring itself.
LEMMA ResolvedByKeyring ==
  ASSUME NEW e \in Resolved(in)
  PROVE  e \in Entry(in.keyring, in.receipt.signature.key_id) /\ Issuers(in) = in.keyring
<1>1. Entry(<<>>, in.receipt.signature.key_id) = {}
  BY DEF Entry
<1> QED BY <1>1 DEF Resolved, Issuers

\* A key id resolves to one entry at most.
LEMMA ResolvedUnique ==
  ASSUME IsInvocation(in), NEW e \in Resolved(in), NEW f \in Resolved(in)
  PROVE  e = f
<1> DEFINE same == {j \in DOMAIN in.keyring :
                      in.keyring[j].object /\ in.keyring[j].key_id = in.receipt.signature.key_id}
<1>1. PICK i \in same : e = in.keyring[i] /\ \A l \in same : i <= l
  BY ResolvedByKeyring DEF Entry
<1>2. PICK j \in same : f = in.keyring[j] /\ \A l \in same : j <= l
  BY ResolvedByKeyring DEF Entry
<1>3. i \in Nat /\ j \in Nat
  BY DEF IsInvocation
<1> QED BY <1>1, <1>2, <1>3

\* An entry the key id resolves to is an object of the keyring.
LEMMA ResolvedInKeyring ==
  ASSUME NEW e \in Resolved(in)
  PROVE  \E j \in DOMAIN in.keyring : e = in.keyring[j] /\ e.object
BY ResolvedByKeyring DEF Entry

\* Without errors a supersession is a replacement within one record.
LEMMA NoErrorsMeans ==
  ASSUME NEW r, SupersessionErrors(r) = {}, r.standing_act = "SUPERSEDED"
  PROVE  LET s == r.supersession
         IN /\ r.subject_record_ref = s.successor_record
            /\ r.subject_edition_ref # s.successor_edition /\ s.predecessor # s.successor
            /\ {s.predecessor, s.successor} \subseteq r.basis
BY DEF SupersessionErrors

\* The profile a receipt conforms to is the verifier's.
LEMMA ProfileMeans ==
  ASSUME NEW version, NEW r,
         IF version = 1 THEN ProfileV1(r) ELSE ProfileSchema(version, r)
  PROVE  r.profile_version = version
BY DEF ProfileV1, ProfileSchema

----------------------------------------------------------------------------
(* The steps, one conjunct of the invariant at a time.                     *)

\* Every stage keeps the types; only v0.2 and v0.3 reach the supersession flags.
LEMMA TypeStep == TypeOK /\ StageInv /\ [Next]_vars => TypeOK'
<1> SUFFICES ASSUME TypeOK, StageInv, [Next]_vars PROVE TypeOK'
  OBVIOUS
<1> USE FaultsAssumption
<1>1. CASE Alter
  BY <1>1 DEF Alter, TypeOK, StageInv
<1>2. CASE Load
  BY <1>2 DEF Load, Continue, TypeOK
<1>3. CASE CompareDigests
  <2>1. comparison'.result \in {"MATCH", "DIVERGED", "NOT_EVALUATED"}
    BY <1>3, ComparisonMeans DEF CompareDigests, StageInv, IsInvocation
  <2> QED BY <1>3, <2>1 DEF CompareDigests, Continue, TypeOK
<1>4. CASE CheckEnvelope
  <2>1. holds' \subseteq Required(2) /\ (in.version = 1 => holds' \subseteq Required(1))
    BY <1>4 DEF CheckEnvelope, TypeOK, Required
  <2> QED BY <1>4, <2>1 DEF CheckEnvelope, Continue, Finish, TypeOK
<1>5. CASE CheckProfile
  <2>1. holds' \subseteq Required(2) /\ (in.version = 1 => holds' \subseteq Required(1))
    BY <1>5 DEF CheckProfile, TypeOK, Required
  <2> QED BY <1>5, <2>1 DEF CheckProfile, Continue, TypeOK
<1>6. CASE CheckBindings
  <2>1. holds' \subseteq Required(2) /\ in.version # 1
    BY <1>6 DEF CheckBindings, TypeOK, StageInv, Required
  <2> QED BY <1>6, <2>1 DEF CheckBindings, Continue, TypeOK
<1>7. CASE CheckContent
  <2>1. holds' \subseteq Required(2) /\ (in.version = 1 => holds' \subseteq Required(1))
    BY <1>7 DEF CheckContent, TypeOK, Required
  <2> QED BY <1>7, <2>1 DEF CheckContent, Continue, TypeOK
<1>8. CASE CheckSignature
  <2>1. holds' \subseteq Required(2) /\ (in.version = 1 => holds' \subseteq Required(1))
    BY <1>8 DEF CheckSignature, TypeOK, Required
  <2>2. captured' \in {"none", "receipt", "supersession"}
    BY <1>8 DEF CheckSignature, TypeOK, CaptureVerifiedIdentity
  <2>3. /\ pc' \in {"raised", "done", "trust"} /\ exit' \in -1 .. 2
        /\ exit' = -1 <=> pc' \notin {"done", "raised"}
    BY <1>8 DEF CheckSignature, Continue, Finish, TypeOK
  <2> QED BY <1>8, <2>1, <2>2, <2>3 DEF CheckSignature, TypeOK
<1>9. CASE CheckTrust
  <2>1. holds' \subseteq Required(2) /\ (in.version = 1 => holds' \subseteq Required(1))
    BY <1>9 DEF CheckTrust, TypeOK, Required
  <2>2. captured' \in {"none", "receipt", "supersession"}
    BY <1>9 DEF CheckTrust, CaptureVerifiedIdentity
  <2> QED BY <1>9, <2>1, <2>2 DEF CheckTrust, Finish, TypeOK
<1>10. CASE UNCHANGED vars BY <1>10 DEF vars, TypeOK
<1> QED BY <1>1, <1>2, <1>3, <1>4, <1>5, <1>6, <1>7, <1>8, <1>9, <1>10 DEF Next

\* Every stage keeps what is said of the stages.
LEMMA StageStep == TypeOK /\ StageInv /\ [Next]_vars => StageInv'
<1> SUFFICES ASSUME TypeOK, StageInv, [Next]_vars PROVE StageInv'
  OBVIOUS
<1> USE DEF StageInv
<1>1. CASE Alter BY <1>1 DEF Alter
<1>2. CASE Load BY <1>2 DEF Load, Continue
<1>3. CASE CompareDigests BY <1>3 DEF CompareDigests, Continue
<1>4. CASE CheckEnvelope BY <1>4 DEF CheckEnvelope, Continue, Finish
<1>5. CASE CheckProfile BY <1>5 DEF CheckProfile, Continue
<1>6. CASE CheckBindings BY <1>6 DEF CheckBindings, Continue
<1>7. CASE CheckContent BY <1>7 DEF CheckContent, Continue
<1>8. CASE CheckSignature
  <2>1. pc' \in {"raised", "done", "trust"} /\ UNCHANGED in
    BY <1>8 DEF CheckSignature, Continue, Finish
  <2>2. pc' = "trust" => in.receipt.canonical
    BY <1>8 DEF CheckSignature, Finish, Unverifiable
  <2>3. pc' # "done" => captured' = "none" /\ "issuer_key_trusted" \notin holds'
    BY <1>8 DEF CheckSignature, Continue, Finish
  <2> QED BY <2>1, <2>2, <2>3
<1>9. CASE CheckTrust BY <1>9 DEF CheckTrust, Finish
<1>10. CASE UNCHANGED vars BY <1>10 DEF vars
<1> QED BY <1>1, <1>2, <1>3, <1>4, <1>5, <1>6, <1>7, <1>8, <1>9, <1>10 DEF Next

\* A flag is raised only with its meaning, and the files stay put after edit.
LEMMA FlagStep == TypeOK /\ StageInv /\ FlagInv /\ [Next]_vars => FlagInv'
<1> SUFFICES ASSUME TypeOK, StageInv, FlagInv, [Next]_vars PROVE FlagInv'
  OBVIOUS
<1>1. CASE Alter \/ Load \/ CompareDigests
  <2>1. holds = {} /\ holds' = {}
    BY <1>1 DEF Alter, Load, CompareDigests, StageInv
  <2> QED BY <2>1 DEF FlagInv
<1>2. CASE CheckEnvelope
  <2>1. UNCHANGED in /\ holds' \subseteq {"envelope_schema_digest", "envelope"}
    BY <1>2 DEF CheckEnvelope, StageInv
  <2> QED BY <2>1 DEF FlagInv
<1>3. CASE CheckProfile
  <2>1. UNCHANGED in /\ holds' \subseteq holds \cup {"profile_schema_digest", "profile"}
    BY <1>3 DEF CheckProfile
  <2>2. "profile" \in holds' => "profile" \in holds \/ in.receipt.profile_version = in.version
    BY <1>3, ProfileMeans DEF CheckProfile
  <2> QED BY <2>1, <2>2 DEF FlagInv
<1>4. CASE CheckBindings
  <2>1. UNCHANGED in /\ holds' \subseteq holds \cup {"supersession_binding", "authority_field_exclusion"}
    BY <1>4 DEF CheckBindings
  <2>2. "supersession_binding" \in holds' =>
          "supersession_binding" \in holds \/ SupersessionErrors(in.receipt) = {}
    BY <1>4 DEF CheckBindings
  <2> QED BY <2>1, <2>2 DEF FlagInv
<1>5. CASE CheckContent
  <2>1. UNCHANGED in /\ holds' \subseteq holds \cup {"raw_content_exclusion", "attestation_limits_present"}
    BY <1>5 DEF CheckContent
  <2> QED BY <2>1 DEF FlagInv
<1>6. CASE CheckSignature
  <2>1. UNCHANGED in /\ holds' \subseteq holds \cup {"issuer_key_resolved", "signature_valid"}
    BY <1>6 DEF CheckSignature
  <2>2. "signature_valid" \in holds' =>
          \/ "signature_valid" \in holds
          \/ in.receipt.signature.sealed /\ \E e \in Resolved(in) : e.public_key = in.receipt.signature.by
    BY <1>6 DEF CheckSignature, Resolved
  <2> QED BY <2>1, <2>2 DEF FlagInv
<1>7. CASE CheckTrust
  <2>1. UNCHANGED in /\ holds' \subseteq holds \cup {"issuer_key_trusted"}
    BY <1>7 DEF CheckTrust
  <2>2. "issuer_key_trusted" \in holds' =>
          "issuer_key_trusted" \in holds \/ \E e \in Resolved(in) : Trusted(e, in.receipt)
    BY <1>7 DEF CheckTrust, Resolved
  <2> QED BY <2>1, <2>2 DEF FlagInv
<1>8. CASE UNCHANGED vars BY <1>8 DEF vars, FlagInv
<1> QED BY <1>1, <1>2, <1>3, <1>4, <1>5, <1>6, <1>7, <1>8 DEF Next

\* The identity is captured at the end alone, from the flags as they then are.
LEMMA CaptureStep == TypeOK /\ StageInv /\ CaptureInv /\ [Next]_vars => CaptureInv'
<1> SUFFICES ASSUME TypeOK, StageInv, CaptureInv, [Next]_vars PROVE CaptureInv'
  OBVIOUS
<1>1. CASE Alter \/ Load \/ CompareDigests \/ CheckEnvelope \/ CheckProfile \/ CheckBindings \/ CheckContent
  <2>1. pc # "done" /\ UNCHANGED captured
    BY <1>1 DEF Alter, Load, CompareDigests, CheckEnvelope, CheckProfile, CheckBindings, CheckContent
  <2>2. captured' = "none"
    BY <2>1 DEF StageInv
  <2>3. "issuer_key_trusted" \notin holds
    BY <2>1 DEF StageInv
  <2>4. "issuer_key_trusted" \notin holds'
    <3>1. CASE Alter \/ Load \/ CompareDigests BY <2>3, <3>1 DEF Alter, Load, CompareDigests
    <3>2. CASE CheckEnvelope BY <2>3, <3>2 DEF CheckEnvelope
    <3>3. CASE CheckProfile BY <2>3, <3>3 DEF CheckProfile
    <3>4. CASE CheckBindings BY <2>3, <3>4 DEF CheckBindings
    <3>5. CASE CheckContent BY <2>3, <3>5 DEF CheckContent
    <3> QED BY <1>1, <3>1, <3>2, <3>3, <3>4, <3>5
  <2> QED BY <2>2, <2>4 DEF CaptureInv
<1>2. CASE CheckSignature
  <2>1. pc # "done" /\ UNCHANGED in
    BY <1>2 DEF CheckSignature
  <2>2. "issuer_key_trusted" \notin holds' /\ captured = "none"
    BY <1>2, <2>1 DEF CheckSignature, StageInv
  <2>3. captured' = "supersession" =>
          in.receipt.standing_act = "SUPERSEDED" /\ "supersession_binding" \in holds'
    BY <1>2, <2>2 DEF CheckSignature, CaptureVerifiedIdentity
  <2> QED BY <2>1, <2>2, <2>3 DEF CaptureInv
<1>3. CASE CheckTrust
  <2>1. UNCHANGED in /\ CaptureVerifiedIdentity /\ in.receipt.canonical /\ in.version \in 1 .. 3
    BY <1>3 DEF CheckTrust, StageInv, IsInvocation
  <2>2. captured' = "supersession" =>
          in.receipt.standing_act = "SUPERSEDED" /\ "supersession_binding" \in holds'
    BY <2>1 DEF CaptureVerifiedIdentity
  <2>3. {"profile", "supersession_binding", "issuer_key_trusted"} \subseteq holds' /\ in.version > 1 =>
          captured' = IF in.receipt.standing_act = "SUPERSEDED" THEN "supersession" ELSE "receipt"
    BY <2>1 DEF CaptureVerifiedIdentity
  <2> QED BY <2>1, <2>2, <2>3 DEF CaptureInv
<1>4. CASE UNCHANGED vars BY <1>4 DEF vars, CaptureInv
<1> QED BY <1>1, <1>2, <1>3, <1>4 DEF Next

\* Nothing after CompareDigests touches the comparison.
LEMMA ComparisonStep == TypeOK /\ ComparisonInv /\ [Next]_vars => ComparisonInv'
<1> SUFFICES ASSUME TypeOK, ComparisonInv, [Next]_vars PROVE ComparisonInv'
  OBVIOUS
<1>1. CASE Alter BY <1>1 DEF Alter, ComparisonInv
<1>2. CASE Load BY <1>2 DEF Load, Continue, ComparisonInv
<1>3. CASE CompareDigests BY <1>3 DEF CompareDigests, Continue, ComparisonInv
<1>4. CASE CheckEnvelope \/ CheckProfile \/ CheckBindings \/ CheckContent \/ CheckSignature \/ CheckTrust
  <2>1. UNCHANGED <<in, comparison>> /\ pc \notin {"edit", "compare", "done", "raised"}
    BY <1>4 DEF CheckEnvelope, CheckProfile, CheckBindings, CheckContent, CheckSignature, CheckTrust
  <2>2. exit # 2
    BY <2>1 DEF TypeOK
  <2> QED BY <2>1, <2>2 DEF ComparisonInv
<1>5. CASE UNCHANGED vars BY <1>5 DEF vars, ComparisonInv
<1> QED BY <1>1, <1>2, <1>3, <1>4, <1>5 DEF Next

\* Exit 0 comes from Finish alone.
LEMMA PassStep == TypeOK /\ PassInv /\ [Next]_vars => PassInv'
<1> SUFFICES ASSUME TypeOK, PassInv, [Next]_vars, exit' = 0 PROVE Passed(in.version, holds)'
  BY DEF PassInv
<1>1. CASE UNCHANGED vars BY <1>1 DEF vars, PassInv
<1>2. CASE Next
  <2>1. pc \notin {"done", "raised"}
    BY <1>2 DEF Next, Alter, Load, CompareDigests, CheckEnvelope, CheckProfile, CheckBindings, CheckContent,
                CheckSignature, CheckTrust
  <2>2. exit = -1
    BY <2>1 DEF TypeOK
  <2>3. Finish /\ UNCHANGED in
    BY <1>2, <2>2 DEF Next, Alter, Load, CompareDigests, CheckEnvelope, CheckProfile, CheckBindings, CheckContent,
                CheckSignature, CheckTrust, Continue
  <2> QED BY <2>3 DEF Finish
<1> QED BY <1>1, <1>2

\* IInv is an invariant of the three verifiers.
LEMMA InvariantIInv == Spec => []IInv
<1>1. Init => IInv
  BY FaultsAssumption, InputsAssumption
     DEF Init, IInv, TypeOK, StageInv, FlagInv, CaptureInv, ComparisonInv, PassInv, NotEvaluated, Required
<1>2. IInv /\ [Next]_vars => IInv'
  BY TypeStep, StageStep, FlagStep, CaptureStep, ComparisonStep, PassStep DEF IInv
<1> QED BY <1>1, <1>2, PTL DEF Spec

----------------------------------------------------------------------------
(* The theorems.                                                           *)

\* Every reachable state is well-typed: v0.1 never has a flag of the later
\* reports, and there is an exit status exactly when main has ended.
THEOREM TypeCorrect == Spec => []TypeOK
BY InvariantIInv, PTL DEF IInv

\* A pass is for what the issuer's own live key sealed, in every keyring
\* whose holder vouches for nothing untrue.
THEOREM PassesAreTheIssuers == Spec => []PassIsTheIssuers
<1>1. IInv => PassIsTheIssuers
  <2> SUFFICES ASSUME IInv, exit = 0, KeyringIsTrue(in)
               PROVE  /\ in.receipt.signature.sealed
                      /\ in.owner[in.receipt.signature.by] = in.receipt.issuer_id
                      /\ in.receipt.issued_at \in in.lifetime[in.receipt.signature.by]
    BY DEF PassIsTheIssuers
  <2>1. {"signature_valid", "issuer_key_trusted"} \subseteq holds
    BY DEF IInv, PassInv, Passed, Required
  <2>2. PICK e \in Resolved(in) : e.public_key = in.receipt.signature.by
    BY <2>1 DEF IInv, FlagInv
  <2>3. PICK f \in Resolved(in) : Trusted(f, in.receipt)
    BY <2>1 DEF IInv, FlagInv
  <2>4. e = f
    BY <2>2, <2>3, ResolvedUnique DEF IInv, StageInv
  <2>5. PICK j \in DOMAIN in.keyring : e = in.keyring[j] /\ e.object
    BY <2>2, ResolvedInKeyring
  <2>6. /\ e.trusted /\ e.issuer_id = in.receipt.issuer_id
        /\ e.not_before <= in.receipt.issued_at /\ in.receipt.issued_at <= e.not_after
    BY <2>3, <2>4 DEF Trusted
  <2>7. in.owner[e.public_key] = e.issuer_id /\ in.receipt.issued_at \in in.lifetime[e.public_key]
    BY <2>5, <2>6 DEF KeyringIsTrue
  <2>8. in.receipt.signature.sealed
    BY <2>1 DEF IInv, FlagInv
  <2> QED BY <2>2, <2>6, <2>7, <2>8
<1> QED BY <1>1, InvariantIInv, PTL

\* A receipt passes under the verifier of its own profile version alone, and
\* from v0.2 on with the identity it is about.
THEOREM NoReceiptDowngrades == Spec => []NoDowngrade
<1>1. IInv => NoDowngrade
  <2> SUFFICES ASSUME IInv, exit = 0
               PROVE  /\ in.receipt.profile_version = in.version
                      /\ in.version > 1 =>
                           captured = IF in.receipt.standing_act = "SUPERSEDED" THEN "supersession"
                                      ELSE "receipt"
    BY DEF NoDowngrade
  <2>1. in.version \in 1 .. 3 /\ Required(in.version) \subseteq holds
    BY DEF IInv, StageInv, IsInvocation, PassInv, Passed
  <2>2. "profile" \in holds
    BY <2>1 DEF Required
  <2>3. in.version > 1 => {"profile", "supersession_binding", "issuer_key_trusted"} \subseteq holds
    BY <2>1 DEF Required
  <2> QED BY <2>2, <2>3 DEF IInv, FlagInv, CaptureInv
<1> QED BY <1>1, InvariantIInv, PTL

\* A captured supersession replaces an edition within its record.
THEOREM CapturedReplaces == Spec => []CapturedIsReplacement
<1>1. IInv => CapturedIsReplacement
  BY NoErrorsMeans DEF IInv, FlagInv, CaptureInv, CapturedIsReplacement
<1> QED BY <1>1, InvariantIInv, PTL

\* The comparison is what the two digests and their sources say, at every
\* end of the report.
THEOREM ComparisonStands == Spec => []ComparisonIndependent
<1>1. IInv => ComparisonIndependent
  <2> SUFFICES ASSUME IInv, pc = "done", exit # 2, in.version = 3
               PROVE  LET s == in.receipt.supersession
                      IN /\ comparison.result # "NOT_EVALUATED" <=>
                              s.form = "object" /\ \A x \in Compared(s) : x > 0
                         /\ comparison.result = "MATCH" => s.predecessor_digest = s.successor_digest
                         /\ comparison.result = "DIVERGED" => s.predecessor_digest # s.successor_digest
    BY DEF ComparisonIndependent
  <2>1. comparison = compare_content_digests(in.receipt.supersession)
    BY DEF IInv, ComparisonInv
  <2>2. Compared(in.receipt.supersession) \subseteq Nat \cup {-1}
    BY DEF IInv, StageInv, IsInvocation
  <2> QED BY <2>1, <2>2, ComparisonMeans
<1> QED BY <1>1, InvariantIInv, PTL
=============================================================================
