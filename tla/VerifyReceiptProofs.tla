------------------------ MODULE VerifyReceiptProofs ------------------------
(***************************************************************************)
(* Theorems about VerifyReceipt, for every set of inputs, registry, pinned *)
(* schemas and trust bundle.                                               *)
(*                                                                         *)
(* The inductive invariant says, of each point of verify_receipt, which    *)
(* findings have been recorded (Recorded), that the others are still       *)
(* false, that a recorded finding is what the input justifies (Evidence),  *)
(* and that failure_codes is empty exactly when nothing recorded failed.   *)
(***************************************************************************)
EXTENDS VerifyReceipt, WellFoundedInduction, TLAPS

\* The blocks that run after the block named, in source order.
AfterSchema == {"envelope"} \cup {"profile", "raw", "limits", "signature_object",
  "resolve", "decode", "canonicalize", "verify", "binding", "trust"}
AfterEnvelope == AfterSchema \ {"envelope"}
AfterProfile == AfterEnvelope \ {"profile"}
AfterRaw == AfterProfile \ {"raw"}
AfterLimits == AfterRaw \ {"limits"}
AfterSignatureObject == AfterLimits \ {"signature_object"}
AfterResolve == AfterSignatureObject \ {"resolve"}
AfterDecode == AfterResolve \ {"decode"}
AfterCanonicalize == AfterDecode \ {"canonicalize"}
AfterVerify == AfterCanonicalize \ {"verify"}

Entry0 == FirstEntry(input.keyring, input.sig.key_id)

VersionBound ==
  /\ input.selected \in Registry
  /\ input.content.version_current
  /\ input.content.profile = input.selected

\* What the input says of each finding, in terms of the first matching entry.
SchemaOK == input.schema \in ACCEPTED_SCHEMA_SHA256
EnvelopeOK == input.schema \in input.content.validates_under
ProfileOK == ProfileErrors(input.content, input.selected, input.schema) = {}
KeyResolved == input.keyring # None /\ Resolved(input.keyring, input.sig.key_id)
SignatureOK ==
  /\ Verifies(Entry0, input.sig, input.content)
  /\ pc = "trust" => VersionBound
Binding == PrincipalBindingDigest(input.content, input.selected, input.companion)

\* Each finding is false until its block has run and then what the input says.
FindingsInv ==
  /\ results["schema_digest"] <=> pc \in AfterSchema /\ SchemaOK
  /\ results["envelope"] <=> pc \in AfterEnvelope /\ EnvelopeOK
  /\ results["profile"] <=> pc \in AfterProfile /\ ProfileOK
  /\ results["raw_content_exclusion"] <=> pc \in AfterRaw /\ input.content.raw_clean
  /\ results["attestation_limits_present"] <=>
       pc \in AfterLimits /\ input.content.limits_present
  /\ results["issuer_key_resolved"] <=> pc \in AfterResolve
  /\ results["signature_valid"] <=> pc \in AfterVerify /\ SignatureOK
  /\ ~results["issuer_key_trusted"]

\* No failure code yet means that no block that has run failed.
CodesInv ==
  codes = {} <=>
    /\ pc # "load" /\ pc # "companion" => Binding # "fail"
    /\ pc \in AfterSchema => SchemaOK
    /\ pc \in AfterEnvelope => EnvelopeOK
    /\ pc \in AfterProfile => ProfileOK
    /\ pc \in AfterRaw => input.content.raw_clean
    /\ pc \in AfterLimits => input.content.limits_present
    /\ pc \in AfterVerify => SignatureOK

\* What the early returns behind a block rule out.
GuardsInv ==
  /\ pc # "load" => input.unusable = {}
  /\ principal_binding_digest =
       IF pc \in {"load", "companion"} THEN "not_applicable" ELSE Binding
  /\ pc \in AfterEnvelope => input.schema_evaluates
  /\ pc \in AfterSignatureObject => input.sig.form = "object"
  /\ pc \in AfterResolve => KeyResolved
  /\ pc \in AfterDecode => EncodingErrors(Entry0.encoding, input.sig.encoding) = {}
  /\ pc \in AfterCanonicalize => input.content.canonicalizable

RunningInv == pc \in Running => FindingsInv /\ CodesInv /\ GuardsInv

\* What the end of an invocation says of its input.
FinalInv ==
  /\ pc = "exited" =>
       /\ input.unusable = {}
       /\ exit = IF Passed(results, principal_binding_digest) THEN 0 ELSE 1
  /\ pc = "raised" => exit = 1 /\ input.unusable = {}
  /\ pc = "source_error" => exit = 2 /\ input.unusable # {}

IInv == TypeOK /\ RunningInv /\ FinalInv /\ PassIffNoCodes

----------------------------------------------------------------------------
(* The first match.                                                        *)

\* A nonempty set of natural numbers has a least element: the
\* first match of the code's loops exists.
LEMMA LeastElement ==
  ASSUME NEW S, S \subseteq Nat, S # {}
  PROVE  \E i \in S : \A j \in S : i <= j
<1> DEFINE R == {ss \in Nat \X Nat : ss[1] < ss[2]}
<1>1. IsWellFoundedOn(R, Nat)
  BY NatLessThanWellFounded DEF OpToRel
<1> HIDE DEF R
<1>2. PICK x \in S : \A y \in S : ~(<<y, x>> \in R)
  BY <1>1, WFMin
<1>3. \A y \in S : ~(y < x)
  BY <1>2 DEF R
<1> QED
  BY <1>3

\* A resolved key id resolves to an entry of the trust bundle that carries it.
LEMMA FirstEntryMatches ==
  ASSUME NEW keyring, NEW key_id, DOMAIN keyring \subseteq Nat,
         Resolved(keyring, key_id)
  PROVE  \E i \in DOMAIN keyring :
           /\ keyring[i].key_id = key_id
           /\ FirstEntry(keyring, key_id) = keyring[i]
<1> DEFINE M == Matches(keyring, key_id)
<1>1. M \subseteq DOMAIN keyring /\ M # {}
  BY DEF Matches, Resolved
<1>2. \E i \in M : \A j \in M : i <= j
  BY <1>1, LeastElement
<1>3. (CHOOSE i \in M : \A j \in M : i <= j) \in M
  BY <1>2
<1> QED
  BY <1>1, <1>3 DEF FirstEntry, Matches

----------------------------------------------------------------------------
(* Invariance, one lemma per block.                                        *)

USE DEF AfterSchema, AfterEnvelope, AfterProfile, AfterRaw, AfterLimits,
        AfterSignatureObject, AfterResolve, AfterDecode, AfterCanonicalize,
        AfterVerify, scoped, report

\* The initial states satisfy the invariant.
LEMMA InitIInv == Init => IInv
<1> SUFFICES ASSUME Init PROVE IInv
  OBVIOUS
<1> USE DEF Init
<1>1. TypeOK
  BY RegistryAssumption, InputsAssumption
  DEF TypeOK, Running, Terminal, TriState, BooleanResults
<1>2. FindingsInv
  BY DEF FindingsInv, BooleanResults
<1>3. CodesInv /\ GuardsInv
  BY DEF CodesInv, GuardsInv
<1> QED
  BY <1>1, <1>2, <1>3 DEF IInv, RunningInv, FinalInv, PassIffNoCodes, Running

\* LoadInputs preserves the invariant.
LEMMA LoadInputsIInv == IInv /\ LoadInputs => IInv'
<1> SUFFICES ASSUME IInv, LoadInputs PROVE IInv'
  OBVIOUS
<1> USE DEF LoadInputs
<1>1. TypeOK' BY RegistryAssumption DEF IInv, TypeOK, Running, Terminal
<1>2. RunningInv'
  BY DEF IInv, RunningInv, FindingsInv, CodesInv, GuardsInv, Running
<1>3. FinalInv' /\ PassIffNoCodes' BY DEF IInv, FinalInv, PassIffNoCodes
<1> QED BY <1>1, <1>2, <1>3 DEF IInv

\* CheckCompanion preserves the invariant.
LEMMA CheckCompanionIInv == IInv /\ CheckCompanion => IInv'
<1> SUFFICES ASSUME IInv, CheckCompanion PROVE IInv'
  OBVIOUS
<1> USE DEF CheckCompanion
<1>0. Binding \in TriState
  BY DEF Binding, PrincipalBindingDigest, TriState
<1>1. TypeOK' BY <1>0 DEF IInv, TypeOK, Running, Terminal, Binding
<1>2. RunningInv'
  BY <1>0 DEF IInv, RunningInv, FindingsInv, CodesInv, GuardsInv, Running, Binding
<1>3. FinalInv' /\ PassIffNoCodes' BY DEF IInv, FinalInv, PassIffNoCodes
<1> QED BY <1>1, <1>2, <1>3 DEF IInv

\* CheckSchemaDigest preserves the invariant.
LEMMA CheckSchemaDigestIInv == IInv /\ CheckSchemaDigest => IInv'
<1> SUFFICES ASSUME IInv, CheckSchemaDigest PROVE IInv'
  OBVIOUS
<1> USE DEF CheckSchemaDigest, Record
<1>1. TypeOK' BY DEF IInv, TypeOK, Running, Terminal, BooleanResults
<1>2. RunningInv'
  BY DEF IInv, TypeOK, RunningInv, FindingsInv, CodesInv, GuardsInv, Running, Binding, SchemaOK, BooleanResults
<1>3. FinalInv' /\ PassIffNoCodes' BY DEF IInv, FinalInv, PassIffNoCodes
<1> QED BY <1>1, <1>2, <1>3 DEF IInv

\* CheckEnvelope preserves the invariant.
LEMMA CheckEnvelopeIInv == IInv /\ CheckEnvelope => IInv'
<1> SUFFICES ASSUME IInv, CheckEnvelope PROVE IInv'
  OBVIOUS
<1> USE DEF CheckEnvelope, Record, Raise
<1>1. TypeOK' BY RegistryAssumption DEF IInv, TypeOK, Running, Terminal, BooleanResults,
     InputOK
<1>2. RunningInv'
  BY DEF IInv, TypeOK, RunningInv, FindingsInv, CodesInv, GuardsInv, Running,
     BooleanResults, EnvelopeOK, SchemaOK, Binding
<1>3. FinalInv'
  BY DEF IInv, RunningInv, GuardsInv, FinalInv, Running
<1>4. PassIffNoCodes'
  BY DEF IInv, RunningInv, FindingsInv, CodesInv, GuardsInv, PassIffNoCodes, Passed,
     Running, BooleanResults
<1> QED BY <1>1, <1>2, <1>3, <1>4 DEF IInv

\* CheckProfile preserves the invariant.
LEMMA CheckProfileIInv == IInv /\ CheckProfile => IInv'
<1> SUFFICES ASSUME IInv, CheckProfile PROVE IInv'
  OBVIOUS
<1> USE DEF CheckProfile, Record, Raise
<1>1. TypeOK' BY RegistryAssumption DEF IInv, TypeOK, Running, Terminal, BooleanResults
<1>2. RunningInv'
  <2>1. CASE pc' = "raised"
    BY <2>1 DEF RunningInv, Running
  <2>2. CASE pc' = "raw"
    <3>0. pc = "profile" /\ TypeOK /\ FindingsInv /\ CodesInv /\ GuardsInv
      BY DEF IInv, RunningInv, Running
    <3>1. FindingsInv'
      BY <2>2, <3>0 DEF TypeOK, FindingsInv, BooleanResults, EnvelopeOK, SchemaOK, ProfileOK
    <3>2. CodesInv'
      BY <2>2, <3>0 DEF CodesInv, EnvelopeOK, SchemaOK, ProfileOK, Binding
    <3>3. GuardsInv'
      BY <2>2, <3>0 DEF GuardsInv, Binding
    <3> QED BY <3>1, <3>2, <3>3 DEF RunningInv
  <2> QED BY <2>1, <2>2
<1>3. FinalInv'
  BY DEF IInv, RunningInv, GuardsInv, FinalInv, Running
<1>4. PassIffNoCodes'
  BY DEF IInv, RunningInv, FindingsInv, CodesInv, GuardsInv, PassIffNoCodes, Passed,
     Running, BooleanResults
<1> QED BY <1>1, <1>2, <1>3, <1>4 DEF IInv

\* CheckRawContent preserves the invariant.
LEMMA CheckRawContentIInv == IInv /\ CheckRawContent => IInv'
<1> SUFFICES ASSUME IInv, CheckRawContent PROVE IInv'
  OBVIOUS
<1> USE DEF CheckRawContent, Record
<1>1. TypeOK' BY RegistryAssumption DEF IInv, TypeOK, Running, Terminal, BooleanResults,
     InputOK
<1>2. RunningInv'
  BY DEF IInv, TypeOK, RunningInv, FindingsInv, CodesInv, GuardsInv, Running,
     BooleanResults, EnvelopeOK, SchemaOK, Binding, ProfileOK
<1>3. FinalInv'
  BY DEF IInv, RunningInv, GuardsInv, FinalInv, Running
<1>4. PassIffNoCodes'
  BY DEF IInv, RunningInv, FindingsInv, CodesInv, GuardsInv, PassIffNoCodes, Passed,
     Running, BooleanResults
<1> QED BY <1>1, <1>2, <1>3, <1>4 DEF IInv

\* CheckAttestationLimits preserves the invariant.
LEMMA CheckAttestationLimitsIInv == IInv /\ CheckAttestationLimits => IInv'
<1> SUFFICES ASSUME IInv, CheckAttestationLimits PROVE IInv'
  OBVIOUS
<1> USE DEF CheckAttestationLimits, Record
<1>1. TypeOK' BY RegistryAssumption DEF IInv, TypeOK, Running, Terminal, BooleanResults,
     InputOK
<1>2. RunningInv'
  BY DEF IInv, TypeOK, RunningInv, FindingsInv, CodesInv, GuardsInv, Running,
     BooleanResults, EnvelopeOK, SchemaOK, Binding, ProfileOK
<1>3. FinalInv'
  BY DEF IInv, RunningInv, GuardsInv, FinalInv, Running
<1>4. PassIffNoCodes'
  BY DEF IInv, RunningInv, FindingsInv, CodesInv, GuardsInv, PassIffNoCodes, Passed,
     Running, BooleanResults
<1> QED BY <1>1, <1>2, <1>3, <1>4 DEF IInv

\* CheckSignatureObject preserves the invariant.
LEMMA CheckSignatureObjectIInv == IInv /\ CheckSignatureObject => IInv'
<1> SUFFICES ASSUME IInv, CheckSignatureObject PROVE IInv'
  OBVIOUS
<1> USE DEF CheckSignatureObject, Return, Continue
<1>1. TypeOK' BY RegistryAssumption DEF IInv, TypeOK, Running, Terminal, BooleanResults
<1>2. RunningInv'
  <2>1. CASE pc' = "exited"
    BY <2>1 DEF RunningInv, Running
  <2>2. CASE pc' = "resolve" /\ input.sig.form = "object"
    BY <2>2 DEF IInv, TypeOK, RunningInv, FindingsInv, CodesInv, GuardsInv, Running,
     BooleanResults, EnvelopeOK, SchemaOK, Binding, ProfileOK
  <2> QED BY <2>1, <2>2 DEF IInv, TypeOK, InputOK
<1>3. FinalInv'
  BY DEF IInv, RunningInv, GuardsInv, FinalInv, Running
<1>4. PassIffNoCodes'
  BY DEF IInv, RunningInv, FindingsInv, CodesInv, GuardsInv, PassIffNoCodes, Passed,
     Running, BooleanResults
<1> QED BY <1>1, <1>2, <1>3, <1>4 DEF IInv

\* ResolveKey preserves the invariant.
LEMMA ResolveKeyIInv == IInv /\ ResolveKey => IInv'
<1> SUFFICES ASSUME IInv, ResolveKey PROVE IInv'
  OBVIOUS
<1> USE DEF ResolveKey, Record, Return, Raise
<1>1. TypeOK' BY RegistryAssumption DEF IInv, TypeOK, Running, Terminal, BooleanResults
<1>2. RunningInv'
  BY DEF IInv, TypeOK, RunningInv, FindingsInv, CodesInv, GuardsInv, Running,
     BooleanResults, EnvelopeOK, SchemaOK, Binding, ProfileOK, KeyResolved
<1>3. FinalInv'
  BY DEF IInv, RunningInv, GuardsInv, FinalInv, Running
<1>4. PassIffNoCodes'
  BY DEF IInv, RunningInv, FindingsInv, CodesInv, GuardsInv, PassIffNoCodes, Passed,
     Running, BooleanResults
<1> QED BY <1>1, <1>2, <1>3, <1>4 DEF IInv

\* DecodeKeyMaterial preserves the invariant.
LEMMA DecodeKeyMaterialIInv == IInv /\ DecodeKeyMaterial => IInv'
<1> SUFFICES ASSUME IInv, DecodeKeyMaterial PROVE IInv'
  OBVIOUS
<1> USE DEF DecodeKeyMaterial, Return, Continue
<1>1. TypeOK' BY RegistryAssumption DEF IInv, TypeOK, Running, Terminal, BooleanResults
<1>2. RunningInv'
  BY DEF IInv, TypeOK, RunningInv, FindingsInv, CodesInv, GuardsInv, Running,
     BooleanResults, EnvelopeOK, SchemaOK, Binding, ProfileOK, KeyResolved, Entry0
<1>3. FinalInv'
  BY DEF IInv, RunningInv, GuardsInv, FinalInv, Running
<1>4. PassIffNoCodes'
  BY DEF IInv, RunningInv, FindingsInv, CodesInv, GuardsInv, PassIffNoCodes, Passed,
     Running, BooleanResults
<1> QED BY <1>1, <1>2, <1>3, <1>4 DEF IInv

\* CanonicalizePreimage preserves the invariant.
LEMMA CanonicalizePreimageIInv == IInv /\ CanonicalizePreimage => IInv'
<1> SUFFICES ASSUME IInv, CanonicalizePreimage PROVE IInv'
  OBVIOUS
<1> USE DEF CanonicalizePreimage, Return, Continue
<1>1. TypeOK' BY RegistryAssumption DEF IInv, TypeOK, Running, Terminal, BooleanResults
<1>2. RunningInv'
  BY DEF IInv, TypeOK, RunningInv, FindingsInv, CodesInv, GuardsInv, Running,
     BooleanResults, EnvelopeOK, SchemaOK, Binding, ProfileOK, KeyResolved, Entry0
<1>3. FinalInv'
  BY DEF IInv, RunningInv, GuardsInv, FinalInv, Running
<1>4. PassIffNoCodes'
  BY DEF IInv, RunningInv, FindingsInv, CodesInv, GuardsInv, PassIffNoCodes, Passed,
     Running, BooleanResults
<1> QED BY <1>1, <1>2, <1>3, <1>4 DEF IInv

\* VerifySignature preserves the invariant.
LEMMA VerifySignatureIInv == IInv /\ VerifySignature => IInv'
<1> SUFFICES ASSUME IInv, VerifySignature PROVE IInv'
  OBVIOUS
<1> USE DEF VerifySignature, Record
<1>1. TypeOK' BY RegistryAssumption DEF IInv, TypeOK, Running, Terminal, BooleanResults,
     Verifies
<1>2. RunningInv'
  BY DEF IInv, TypeOK, RunningInv, FindingsInv, CodesInv, GuardsInv, Running,
     BooleanResults, EnvelopeOK, SchemaOK, Binding, ProfileOK, KeyResolved, Entry0, SignatureOK
<1>3. FinalInv'
  BY DEF IInv, RunningInv, GuardsInv, FinalInv, Running
<1>4. PassIffNoCodes'
  BY DEF IInv, RunningInv, FindingsInv, CodesInv, GuardsInv, PassIffNoCodes, Passed,
     Running, BooleanResults
<1> QED BY <1>1, <1>2, <1>3, <1>4 DEF IInv

\* CheckVersionBinding preserves the invariant.
LEMMA CheckVersionBindingIInv == IInv /\ CheckVersionBinding => IInv'
<1> SUFFICES ASSUME IInv, CheckVersionBinding PROVE IInv'
  OBVIOUS
<1> USE DEF CheckVersionBinding, Record
<1>1. TypeOK' BY RegistryAssumption DEF IInv, TypeOK, Running, Terminal, BooleanResults
<1>2. RunningInv'
  BY DEF IInv, TypeOK, RunningInv, FindingsInv, CodesInv, GuardsInv, Running,
     BooleanResults, EnvelopeOK, SchemaOK, Binding, ProfileOK, KeyResolved, Entry0, SignatureOK, VersionBound
<1>3. FinalInv'
  BY DEF IInv, RunningInv, GuardsInv, FinalInv, Running
<1>4. PassIffNoCodes'
  BY DEF IInv, RunningInv, FindingsInv, CodesInv, GuardsInv, PassIffNoCodes, Passed,
     Running, BooleanResults
<1> QED BY <1>1, <1>2, <1>3, <1>4 DEF IInv

\* CheckKeyTrust preserves the invariant.
LEMMA CheckKeyTrustIInv == IInv /\ CheckKeyTrust => IInv'
<1> SUFFICES ASSUME IInv, CheckKeyTrust PROVE IInv'
  OBVIOUS
<1> USE DEF CheckKeyTrust, Return
<1>1. TypeOK' BY RegistryAssumption DEF IInv, TypeOK, Running, Terminal, BooleanResults,
     KeyTrusted, WithinWindow, InputOK
<1>2. RunningInv'
  BY DEF IInv, TypeOK, RunningInv, FindingsInv, CodesInv, GuardsInv, Running,
     BooleanResults
<1>3. FinalInv'
  BY DEF IInv, RunningInv, GuardsInv, FinalInv, Running
<1>4. PassIffNoCodes'
  BY DEF IInv, TypeOK, VersionBound, KeyTrusted, RunningInv, FindingsInv, CodesInv, GuardsInv, PassIffNoCodes, Passed,
     Running, BooleanResults
<1> QED BY <1>1, <1>2, <1>3, <1>4 DEF IInv

\* Every step preserves the invariant.
LEMMA NextIInv == IInv /\ [Next]_vars => IInv'
<1>1. IInv /\ UNCHANGED vars => IInv'
  <2> SUFFICES ASSUME IInv, UNCHANGED vars PROVE IInv'
    OBVIOUS
  <2> USE DEF vars
  <2>1. TypeOK' BY DEF IInv, TypeOK
  <2>2. RunningInv'
    BY DEF IInv, RunningInv, FindingsInv, CodesInv, GuardsInv, SchemaOK, EnvelopeOK,
       ProfileOK, KeyResolved, SignatureOK, Entry0, VersionBound, Binding
  <2>3. FinalInv' /\ PassIffNoCodes' BY DEF IInv, FinalInv, PassIffNoCodes
  <2> QED BY <2>1, <2>2, <2>3 DEF IInv
<1> QED
  BY <1>1, LoadInputsIInv, CheckCompanionIInv, CheckSchemaDigestIInv, CheckEnvelopeIInv,
     CheckProfileIInv, CheckRawContentIInv, CheckAttestationLimitsIInv,
     CheckSignatureObjectIInv, ResolveKeyIInv, DecodeKeyMaterialIInv,
     CanonicalizePreimageIInv, VerifySignatureIInv, CheckVersionBindingIInv,
     CheckKeyTrustIInv
  DEF Next

\* Every reachable state satisfies the invariant.
LEMMA InductiveInvariant == Spec => []IInv
  BY InitIInv, NextIInv, PTL DEF Spec

\* The report keeps its types, and the process has an exit status exactly
\* when it has left the verifier.
THEOREM TypeCorrect == Spec => []TypeOK
  BY InductiveInvariant, PTL DEF IInv

\* A report passes exactly when it carries no failure code, whatever the
\* receipt, trust bundle, schema and profile registry.
THEOREM CodesExplainVerdict == Spec => []PassIffNoCodes
  BY InductiveInvariant, PTL DEF IInv

----------------------------------------------------------------------------
(* The exit status keeps the contract of ReceiptVerdict.                   *)

\* The first match of a bundle without duplicate key ids is any match.
LEMMA UniqueMatchIsFirst ==
  ASSUME NEW in, InputOK(in), in.keyring # None, UniqueKeyIds(in),
         NEW i \in DOMAIN in.keyring, in.keyring[i].key_id = in.sig.key_id
  PROVE  FirstEntry(in.keyring, in.sig.key_id) = in.keyring[i]
<1>1. Resolved(in.keyring, in.sig.key_id)
  BY DEF Resolved, Matches
<1>2. DOMAIN in.keyring \subseteq Nat
  BY DEF InputOK
<1>3. PICK j \in DOMAIN in.keyring :
        /\ in.keyring[j].key_id = in.sig.key_id
        /\ FirstEntry(in.keyring, in.sig.key_id) = in.keyring[j]
  BY <1>1, <1>2, FirstEntryMatches
<1> QED
  BY <1>3 DEF UniqueKeyIds

\* An acceptable receipt resolves to an entry that verifies it and is trusted.
LEMMA MustAcceptEntry ==
  ASSUME IInv, MustAccept(input)
  PROVE  /\ KeyResolved
         /\ EncodingErrors(Entry0.encoding, input.sig.encoding) = {}
         /\ Verifies(Entry0, input.sig, input.content)
         /\ KeyTrusted(Entry0, input.content)
<1>1. InputOK(input) /\ Authentic(input) /\ UniqueKeyIds(input)
  BY DEF IInv, TypeOK, MustAccept, Acceptable
<1>2. PICK i \in DOMAIN input.keyring :
        LET e == input.keyring[i] IN
        /\ e.key_id = input.sig.key_id /\ e.encoding = "ok"
        /\ e.trusted /\ e.issuer_id = input.content.issuer_id
        /\ input.content.issued_at # None /\ e.not_before # None /\ e.not_after # None
        /\ e.not_before <= input.content.issued_at /\ input.content.issued_at <= e.not_after
        /\ e.public_key = input.sig.made_by
  BY <1>1 DEF Authentic
<1>3. input.keyring # None
  BY <1>1 DEF Authentic
<1>4. Entry0 = input.keyring[i]
  BY <1>1, <1>2, <1>3, UniqueMatchIsFirst DEF Entry0
<1>5. KeyResolved
  BY <1>2, <1>3 DEF KeyResolved, Resolved, Matches
<1>6. EncodingErrors(Entry0.encoding, input.sig.encoding) = {}
  BY <1>1, <1>2, <1>4 DEF EncodingErrors, Authentic
<1>7. Verifies(Entry0, input.sig, input.content)
  BY <1>1, <1>2, <1>4 DEF Verifies, Preimage, Authentic
<1>8. KeyTrusted(Entry0, input.content)
  BY <1>1, <1>2, <1>4 DEF KeyTrusted, WithinWindow
<1> QED
  BY <1>5, <1>6, <1>7, <1>8

\* Conformance makes every finding that needs no key true.
LEMMA ConformingFindings ==
  ASSUME IInv, Conforming(input), CompanionConsistent(input)
  PROVE  /\ SchemaOK /\ EnvelopeOK /\ ProfileOK /\ VersionBound /\ Binding # "fail"
         /\ input.schema_evaluates
         /\ ~input.content.mistyped
<1>1. ProfileOK
  BY DEF ProfileOK, ProfileErrors, Conforming
<1>2. Binding # "fail"
  BY DEF Binding, PrincipalBindingDigest, CompanionConsistent
<1> QED
  BY <1>1, <1>2 DEF IInv, TypeOK, InputOK, SchemaOK, EnvelopeOK, VersionBound, Conforming

\* A report with every finding true is about an acceptable receipt.
LEMMA PassedIsAcceptable ==
  ASSUME IInv, pc = "trust", KeyTrusted(Entry0, input.content),
         \A b \in BooleanResults \ {"issuer_key_trusted"} : results[b],
         principal_binding_digest # "fail"
  PROVE  Acceptable(input)
<1>1. /\ SchemaOK /\ EnvelopeOK /\ ProfileOK /\ SignatureOK
      /\ input.content.raw_clean /\ input.content.limits_present
  BY DEF IInv, RunningInv, FindingsInv, Running, BooleanResults
<1>2. /\ input.unusable = {} /\ input.sig.form = "object" /\ KeyResolved
      /\ EncodingErrors(Entry0.encoding, input.sig.encoding) = {}
      /\ input.content.canonicalizable /\ Binding # "fail"
  BY DEF IInv, RunningInv, GuardsInv, Running
<1>3. Conforming(input)
  BY <1>1 DEF Conforming, SchemaOK, EnvelopeOK, ProfileOK, ProfileErrors, SignatureOK,
     VersionBound
<1>4. CompanionConsistent(input)
  BY <1>2 DEF CompanionConsistent, Binding, PrincipalBindingDigest
<1>5. InputOK(input) /\ input.keyring # None /\ DOMAIN input.keyring \subseteq Nat
  BY <1>2 DEF IInv, TypeOK, KeyResolved, InputOK
<1>6. PICK i \in DOMAIN input.keyring :
        input.keyring[i].key_id = input.sig.key_id /\ Entry0 = input.keyring[i]
  BY <1>2, <1>5, FirstEntryMatches DEF KeyResolved, Entry0
<1>7. EntryOK(Entry0)
  BY <1>5, <1>6 DEF InputOK
<1>8. Entry0.encoding = "ok" /\ input.sig.encoding = "ok"
  BY <1>2, <1>5, <1>7 DEF EncodingErrors, EntryOK, InputOK, Encodings
<1>9. Authentic(input)
  BY <1>1, <1>2, <1>5, <1>6, <1>8
  DEF Authentic, SignatureOK, Verifies, Preimage, KeyTrusted, WithinWindow
<1> QED
  BY <1>2, <1>3, <1>4, <1>9 DEF Acceptable

\* The last block gives exit 0 to acceptable receipts only, and to every
\* receipt that must be accepted.
LEMMA CheckKeyTrustVerdict ==
  ASSUME IInv, CheckKeyTrust
  PROVE  /\ exit' = 0 => Acceptable(input)
         /\ MustAccept(input) => exit' = 0
<1> DEFINE ok == KeyTrusted(Entry0, input.content)
<1>0. ok \in BOOLEAN
  BY DEF KeyTrusted, WithinWindow, IInv, TypeOK, InputOK
<1>1. /\ pc = "trust"
      /\ results' = [results EXCEPT !["issuer_key_trusted"] = ok]
      /\ exit' = IF Passed(results', principal_binding_digest) THEN 0 ELSE 1
  BY DEF CheckKeyTrust, Return, Entry0
<1> HIDE DEF ok
<1>2. /\ \A b \in BooleanResults \ {"issuer_key_trusted"} : results'[b] = results[b]
      /\ results'["issuer_key_trusted"] = ok
  BY <1>1 DEF IInv, TypeOK, BooleanResults
<1>3. ASSUME exit' = 0 PROVE Acceptable(input)
  <2>1. Passed(results', principal_binding_digest)
    BY <1>1, <1>3
  <2>2. /\ \A b \in BooleanResults \ {"issuer_key_trusted"} : results[b]
        /\ ok /\ principal_binding_digest # "fail"
    BY <1>2, <2>1 DEF Passed, BooleanResults
  <2> QED
    BY <1>1, <2>2, PassedIsAcceptable DEF ok
<1>4. ASSUME MustAccept(input) PROVE exit' = 0
  <2>1. ok /\ KeyResolved /\ Verifies(Entry0, input.sig, input.content)
    BY <1>4, MustAcceptEntry DEF ok
  <2>2. SchemaOK /\ EnvelopeOK /\ ProfileOK /\ VersionBound /\ Binding # "fail"
    BY <1>4, ConformingFindings DEF MustAccept, Acceptable
  <2>3. input.content.raw_clean /\ input.content.limits_present
    BY <1>4 DEF MustAccept, Acceptable, Conforming
  <2>4. \A b \in BooleanResults \ {"issuer_key_trusted"} : results[b]
    BY <1>1, <2>1, <2>2, <2>3
    DEF IInv, RunningInv, FindingsInv, Running, BooleanResults, SignatureOK
  <2>5. principal_binding_digest # "fail"
    BY <1>1, <2>2 DEF IInv, RunningInv, GuardsInv, Running
  <2> QED
    BY <1>1, <1>2, <2>1, <2>4, <2>5 DEF Passed
<1> QED
  BY <1>3, <1>4

\* Every other way out is taken by receipts that need not be accepted, and
\* is never exit 0.
LEMMA EarlyExitVerdict ==
  ASSUME IInv, Next, ~CheckKeyTrust, pc' \in {"exited", "raised"}
  PROVE  exit' = 1 /\ ~MustAccept(input)
<1>1. \/ CheckEnvelope /\ ~input.schema_evaluates
      \/ CheckProfile /\ input.content.mistyped
      \/ CheckSignatureObject /\ input.sig.form # "object"
      \/ ResolveKey /\ ~KeyResolved
      \/ DecodeKeyMaterial /\ EncodingErrors(Entry0.encoding, input.sig.encoding) # {}
      \/ CanonicalizePreimage /\ ~input.content.canonicalizable
  BY DEF Next, LoadInputs, CheckCompanion, CheckSchemaDigest, CheckEnvelope, CheckProfile,
     CheckRawContent, CheckAttestationLimits, CheckSignatureObject, ResolveKey,
     DecodeKeyMaterial, CanonicalizePreimage, VerifySignature, CheckVersionBinding,
     Record, Continue, KeyResolved, Entry0, IInv, TypeOK, InputOK
<1>2. ~MustAccept(input)
  <2> SUFFICES ASSUME MustAccept(input) PROVE FALSE
    OBVIOUS
  <2>1. KeyResolved /\ EncodingErrors(Entry0.encoding, input.sig.encoding) = {}
    BY MustAcceptEntry
  <2>2. input.schema_evaluates /\ ~input.content.mistyped
    BY ConformingFindings DEF MustAccept, Acceptable
  <2>3. input.sig.form = "object" /\ input.content.canonicalizable
    BY DEF MustAccept, Acceptable, Authentic
  <2> QED
    BY <1>1, <2>1, <2>2, <2>3
<1>3. ~results["issuer_key_trusted"]
  BY <1>1 DEF CheckEnvelope, CheckProfile, CheckSignatureObject, ResolveKey,
     DecodeKeyMaterial, CanonicalizePreimage, Record, IInv, RunningInv, FindingsInv, Running
<1>4. exit' = 1
  BY <1>1, <1>3 DEF CheckEnvelope, CheckProfile, CheckSignatureObject, ResolveKey,
     DecodeKeyMaterial, CanonicalizePreimage, Record, Raise, Return, Continue, Passed,
     BooleanResults, KeyResolved, Entry0
<1> QED
  BY <1>2, <1>4

\* Every step of the verifier is a step of the contract or changes nothing
\* the contract speaks of.
LEMMA StepRefines ==
  ASSUME IInv, IInv', [Next]_vars
  PROVE  [Contract!Decide]_<<input, Verdict>>
<1>1. CASE UNCHANGED vars
  BY <1>1 DEF vars, Verdict
<1>2. CASE Next
  <2>1. pc \in Running /\ exit = None /\ UNCHANGED input
    BY <1>2 DEF Next, LoadInputs, CheckCompanion, CheckSchemaDigest, CheckEnvelope,
       CheckProfile, CheckRawContent, CheckAttestationLimits, CheckSignatureObject,
       ResolveKey, DecodeKeyMaterial, CanonicalizePreimage, VerifySignature,
       CheckVersionBinding, CheckKeyTrust, Record, Return, Raise, Continue, Running, IInv,
       TypeOK
  <2>2. Verdict = "pending"
    BY <2>1, RegistryAssumption DEF Verdict
  <2>3. CASE pc' \in Running
    BY <2>1, <2>2, <2>3, RegistryAssumption DEF Verdict, IInv, TypeOK
  <2>4. CASE pc' \notin Running
    <3>1. pc' \in Terminal /\ exit' \in {0, 1, 2}
      BY <2>4 DEF IInv, TypeOK, Terminal
    <3>2. exit' = 2 <=> UnusableInput(input)
      BY <2>1, <3>1 DEF IInv, FinalInv, Terminal, UnusableInput
    <3>3. exit' = 0 => Acceptable(input)
      BY <1>2, <3>1, <3>2, CheckKeyTrustVerdict, EarlyExitVerdict DEF IInv, FinalInv, Terminal
    <3>4. MustAccept(input) => exit' = 0
      <4>1. MustAccept(input) => ~UnusableInput(input)
        BY DEF MustAccept, Acceptable, UnusableInput
      <4> QED
        BY <1>2, <3>1, <3>2, <4>1, CheckKeyTrustVerdict, EarlyExitVerdict
        DEF IInv, FinalInv, Terminal, UnusableInput
    <3>5. /\ Verdict' \in {"pass", "fail", "none"}
          /\ Verdict' = "pass" <=> exit' = 0
          /\ Verdict' = "none" <=> exit' = 2
      BY <3>1 DEF Verdict
    <3> QED
      BY <2>1, <2>2, <3>2, <3>3, <3>4, <3>5 DEF Contract!Decide
  <2> QED
    BY <2>3, <2>4
<1> QED
  BY <1>1, <1>2

\* The exit status of the signed-SRS command keeps its contract: for every
\* trust bundle and receipt, exit 0 only for acceptable receipts, always for
\* acceptable ones under unique key ids, exit 2 exactly for unusable inputs.
THEOREM ImplementsReceiptVerdict == Spec => RefinesReceiptVerdict
<1>1. Init => Contract!Init
  BY RegistryAssumption DEF Init, Contract!Init, Verdict
<1> QED
  BY <1>1, InductiveInvariant, StepRefines, PTL
  DEF Spec, RefinesReceiptVerdict, Contract!Spec
=============================================================================
