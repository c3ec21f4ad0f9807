-------------------------- MODULE ExitOOriginProofs --------------------------
(***************************************************************************)
(* Proofs about ExitOOrigin, for every set of invocations and every way of *)
(* altering one.  The inductive invariant says which finding may still     *)
(* change at a stage, and what a passed one means of the files.            *)
(***************************************************************************)
EXTENDS ExitOOrigin, TLAPS

Before == {"edit", "load", "schema", "binding", "temporal"}

\* No finding is made before the structural checks are through, and the
\* signature's only by CheckSignature, which never finds it unavailable: the
\* test of the key's finding takes everything but fail and not_evaluated for
\* a signature that passed.
FreshInv ==
  /\ pc \in Before => \A f \in Substantive : finding[f] = "not_evaluated"
  /\ pc = "signature" => finding["proof_receipt_signature"] = "not_evaluated"
  /\ finding["proof_receipt_signature"] # "unavailable"

\* A signature that passed verified under the resolved key.
SignedInv ==
  finding["proof_receipt_signature"] = "pass" =>
    /\ SignatureCode(in.receipt, in.trust, in.now) = "none"
    /\ key = (CHOOSE e \in Entry(in.trust, in.receipt.signature.key_id) : TRUE).public_key

\* A key is authenticated last, by a binding that fits key and receipt.
KeyInv ==
  finding["key_authentication"] = "pass" =>
    /\ pc = "done" /\ finding["proof_receipt_signature"] = "pass"
    /\ in.binding.form # "omitted"
    /\ BindingCode(in.receipt, in.binding, in.genesis, key) = "none"

IInv == TypeOK /\ FreshInv /\ SignedInv /\ KeyInv

----------------------------------------------------------------------------
\* The four layers of the code's tuple, and the seven findings.
LEMMA LayerNames ==
  /\ DOMAIN Layers = 1 .. 4 /\ Len(Layers) = 4
  /\ Layers[1] = "key_authentication" /\ Layers[2] = "act_principal"
  /\ Layers[3] = "semantic_authority" /\ Layers[4] = "semantic_act"
  /\ Substantive = {"key_authentication", "act_principal", "semantic_authority", "semantic_act",
                    "proof_receipt_signature", "historical_scope_authorization", "temporal_consistency"}
<1>1. DOMAIN Layers = 1 .. 4 /\ Len(Layers) = 4
  BY DEF Layers
<1>2. /\ Layers[1] = "key_authentication" /\ Layers[2] = "act_principal"
      /\ Layers[3] = "semantic_authority" /\ Layers[4] = "semantic_act"
  BY DEF Layers
<1>3. {Layers[j] : j \in DOMAIN Layers}
        = {"key_authentication", "act_principal", "semantic_authority", "semantic_act"}
  <2>1. \A j \in 1 .. 4 : j = 1 \/ j = 2 \/ j = 3 \/ j = 4
    OBVIOUS
  <2> QED BY <1>1, <1>2, <2>1
<1> QED BY <1>1, <1>2, <1>3 DEF Substantive

\* The layer the loop is at is a finding, and not the signature's.
LEMMA LayerIsFinding ==
  ASSUME k \in DOMAIN Layers
  PROVE  Layers[k] \in Substantive /\ Layers[k] # "proof_receipt_signature"
<1>1. k = 1 \/ k = 2 \/ k = 3 \/ k = 4
  BY LayerNames
<1> QED BY <1>1, LayerNames

\* A layer is never passed by looking at its bytes, and one that has failed
\* stays failed.
LEMMA LayerFindingFacts ==
  ASSUME NEW l, NEW evidence, NEW before
  PROVE  /\ LayerFinding(l, evidence, before).value \in {"fail", "unavailable", "not_evaluated"}
         /\ before = "fail" => LayerFinding(l, evidence, before).value = "fail"
BY DEF LayerFinding

\* The key's finding stays failed, and passes only on a fitting binding.
LEMMA KeyFindingFacts ==
  ASSUME TypeOK, FreshInv
  PROVE  /\ KeyFinding.value \in {"pass", "fail", "not_evaluated", "unavailable"}
         /\ finding["key_authentication"] = "fail" => KeyFinding.value = "fail"
         /\ KeyFinding.value = "pass" /\ finding["key_authentication"] # "pass" =>
              /\ finding["proof_receipt_signature"] = "pass"
              /\ in.binding.form # "omitted"
              /\ BindingCode(in.receipt, in.binding, in.genesis, key) = "none"
<1>1. /\ finding["key_authentication"] \in {"pass", "fail", "not_evaluated", "unavailable"}
      /\ finding["proof_receipt_signature"] \in {"pass", "fail", "not_evaluated"}
  BY LayerNames DEF TypeOK, FreshInv
<1> QED BY <1>1 DEF KeyFinding

\* TypeOK, once: the stage, the layer, the flags, the findings, the bounds.
LEMMA TypeStep == TypeOK /\ FreshInv /\ [Next]_vars => TypeOK'
<1> SUFFICES ASSUME TypeOK, FreshInv, [Next]_vars PROVE TypeOK'
  OBVIOUS
<1> USE FaultsAssumption
<1>1. CASE Alter BY <1>1 DEF Alter, TypeOK, report
<1>2. CASE Submit BY <1>2 DEF Submit, TypeOK, report
<1>3. CASE LoadInputs BY <1>3 DEF LoadInputs, TypeOK, report
<1>4. CASE CheckSchema BY <1>4 DEF CheckSchema, TypeOK
<1>5. CASE CheckDisposition BY <1>5 DEF CheckDisposition, TypeOK
<1>6. CASE CheckTimeAndScope
  <2>1. finding' \in [Substantive -> {"pass", "fail", "not_evaluated", "unavailable"}]
    BY <1>6 DEF CheckTimeAndScope, TypeOK, Fail
  <2> QED BY <1>6, <2>1 DEF CheckTimeAndScope, TypeOK
<1>7. CASE CheckSignature
  <2>1. finding' \in [Substantive -> {"pass", "fail", "not_evaluated", "unavailable"}]
    BY <1>7 DEF CheckSignature, TypeOK
  <2> QED BY <1>7, <2>1 DEF CheckSignature, TypeOK
<1>8. CASE CheckLayer
  <2>1. finding' \in [Substantive -> {"pass", "fail", "not_evaluated", "unavailable"}]
    <3> DEFINE v == LayerFinding(in.receipt[Layers[k]], in.evidence[Layers[k]], finding[Layers[k]]).value
    <3>1. v \in {"pass", "fail", "not_evaluated", "unavailable"}
      BY LayerFindingFacts
    <3>2. finding' = [finding EXCEPT ![Layers[k]] = v]
      BY <1>8 DEF CheckLayer
    <3> QED BY <3>1, <3>2 DEF TypeOK
  <2>2. k' \in DOMAIN Layers /\ pc' \in {"layers", "key"}
    BY <1>8, LayerNames DEF CheckLayer, TypeOK
  <2> QED BY <1>8, <2>1, <2>2 DEF CheckLayer, TypeOK
<1>9. CASE ConcludeKey
  <2>1. finding' \in [Substantive -> {"pass", "fail", "not_evaluated", "unavailable"}]
    BY <1>9, KeyFindingFacts DEF ConcludeKey, TypeOK
  <2>2. exit' \in {0, 1} /\ pc' = "done"
    BY <1>9 DEF ConcludeKey
  <2> QED BY <1>9, <2>1, <2>2 DEF ConcludeKey, TypeOK
<1>10. CASE UNCHANGED vars BY <1>10 DEF vars, TypeOK
<1> QED BY <1>1, <1>2, <1>3, <1>4, <1>5, <1>6, <1>7, <1>8, <1>9, <1>10 DEF Next, Verify

\* What a step leaves of the findings not made yet.
LEMMA FreshStep == TypeOK /\ FreshInv /\ [Next]_vars => FreshInv'
<1> SUFFICES ASSUME TypeOK, FreshInv, [Next]_vars PROVE FreshInv'
  OBVIOUS
<1>1. CASE Alter \/ Submit \/ LoadInputs
  BY <1>1 DEF Alter, Submit, LoadInputs, report, FreshInv, Before, TypeOK
<1>2. CASE CheckSchema \/ CheckDisposition
  BY <1>2 DEF CheckSchema, CheckDisposition, FreshInv, Before, TypeOK
<1>3. CASE CheckTimeAndScope
  <2>1. finding'["proof_receipt_signature"] = "not_evaluated"
    BY <1>3, LayerNames DEF CheckTimeAndScope, FreshInv, Before, TypeOK
  <2> QED BY <1>3, <2>1 DEF CheckTimeAndScope, FreshInv, Before
<1>4. CASE CheckSignature
  <2>1. finding'["proof_receipt_signature"] # "unavailable"
    BY <1>4, LayerNames DEF CheckSignature, FreshInv, TypeOK
  <2> QED BY <1>4, <2>1 DEF CheckSignature, FreshInv, Before
<1>5. CASE CheckLayer
  <2>1. finding'["proof_receipt_signature"] = finding["proof_receipt_signature"]
    BY <1>5, LayerNames, LayerIsFinding DEF CheckLayer, TypeOK
  <2> QED BY <1>5, <2>1 DEF CheckLayer, FreshInv, Before
<1>6. CASE ConcludeKey
  <2>1. finding'["proof_receipt_signature"] = finding["proof_receipt_signature"]
    BY <1>6, LayerNames DEF ConcludeKey, TypeOK
  <2> QED BY <1>6, <2>1 DEF ConcludeKey, FreshInv, Before
<1>7. CASE UNCHANGED vars BY <1>7 DEF vars, FreshInv
<1> QED BY <1>1, <1>2, <1>3, <1>4, <1>5, <1>6, <1>7 DEF Next, Verify

\* A signature that passed keeps its files and its key.
LEMMA SignedStep == TypeOK /\ FreshInv /\ SignedInv /\ [Next]_vars => SignedInv'
<1> SUFFICES ASSUME TypeOK, FreshInv, SignedInv, [Next]_vars PROVE SignedInv'
  OBVIOUS
<1>1. "proof_receipt_signature" \in Substantive
  BY LayerNames
<1>2. CASE Alter
  BY <1>1, <1>2 DEF Alter, report, FreshInv, Before, SignedInv
<1>3. CASE Submit \/ LoadInputs \/ CheckSchema \/ CheckDisposition \/ UNCHANGED vars
  <2>1. UNCHANGED <<in, finding, key>>
    BY <1>3 DEF Submit, LoadInputs, CheckSchema, CheckDisposition, report, vars
  <2> QED BY <2>1 DEF SignedInv
<1>4. CASE CheckTimeAndScope \/ CheckLayer \/ ConcludeKey
  <2>1. UNCHANGED <<in, key>>
    BY <1>4 DEF CheckTimeAndScope, CheckLayer, ConcludeKey
  <2>2. finding'["proof_receipt_signature"] = finding["proof_receipt_signature"]
    <3>1. CASE CheckTimeAndScope BY <1>1, <3>1 DEF CheckTimeAndScope, TypeOK
    <3>2. CASE CheckLayer BY <1>1, <3>2, LayerIsFinding DEF CheckLayer, TypeOK
    <3>3. CASE ConcludeKey BY <1>1, <3>3 DEF ConcludeKey, TypeOK
    <3> QED BY <1>4, <3>1, <3>2, <3>3
  <2> QED BY <2>1, <2>2 DEF SignedInv
<1>5. CASE CheckSignature
  <2>1. CASE finding'["proof_receipt_signature"] = "pass"
    <3>1. /\ SignatureCode(in.receipt, in.trust, in.now) = "none"
          /\ key' = (CHOOSE e \in Entry(in.trust, in.receipt.signature.key_id) : TRUE).public_key
      BY <1>1, <1>5, <2>1 DEF CheckSignature, FreshInv, TypeOK
    <3> QED BY <1>5, <3>1 DEF CheckSignature, SignedInv
  <2> QED BY <2>1 DEF SignedInv
<1> QED BY <1>2, <1>3, <1>4, <1>5 DEF Next, Verify

\* Only the last step passes the key.
LEMMA KeyStep == TypeOK /\ FreshInv /\ KeyInv /\ [Next]_vars => KeyInv'
<1> SUFFICES ASSUME TypeOK, FreshInv, KeyInv, [Next]_vars PROVE KeyInv'
  OBVIOUS
<1>1. {"proof_receipt_signature", "key_authentication"} \subseteq Substantive
  BY LayerNames
<1>2. CASE Alter \/ Submit \/ LoadInputs \/ CheckSchema \/ CheckDisposition
  <2>1. pc \in Before /\ UNCHANGED finding
    BY <1>2 DEF Alter, Submit, LoadInputs, CheckSchema, CheckDisposition, report, Before
  <2> QED BY <1>1, <2>1 DEF FreshInv, KeyInv
<1>3. CASE CheckTimeAndScope
  <2>1. finding'["key_authentication"] = "not_evaluated"
    BY <1>1, <1>3 DEF CheckTimeAndScope, FreshInv, Before, TypeOK
  <2> QED BY <2>1 DEF KeyInv
<1>4. CASE CheckSignature
  <2>1. finding'["key_authentication"] = finding["key_authentication"] /\ pc # "done"
    BY <1>1, <1>4 DEF CheckSignature, TypeOK
  <2> QED BY <2>1 DEF KeyInv
<1>5. CASE CheckLayer
  <2> DEFINE v == LayerFinding(in.receipt[Layers[k]], in.evidence[Layers[k]], finding[Layers[k]]).value
  <2>1. v # "pass"
    BY LayerFindingFacts
  <2>2. finding' = [finding EXCEPT ![Layers[k]] = v] /\ pc # "done"
    BY <1>5 DEF CheckLayer
  <2> HIDE DEF v
  <2>3. finding'["key_authentication"] # "pass"
    BY <1>1, <2>1, <2>2 DEF KeyInv, TypeOK
  <2> QED BY <2>3 DEF KeyInv
<1>6. CASE ConcludeKey
  <2>1. /\ finding'["key_authentication"] = KeyFinding.value
        /\ finding'["proof_receipt_signature"] = finding["proof_receipt_signature"]
    BY <1>1, <1>6 DEF ConcludeKey, TypeOK
  <2>2. pc' = "done" /\ pc # "done" /\ UNCHANGED <<in, key>>
    BY <1>6 DEF ConcludeKey
  <2> QED BY <2>1, <2>2, KeyFindingFacts DEF KeyInv
<1>7. CASE UNCHANGED vars BY <1>7 DEF vars, KeyInv
<1> QED BY <1>2, <1>3, <1>4, <1>5, <1>6, <1>7 DEF Next, Verify

\* The invariant holds from the start.
LEMMA InitIInv == Init => IInv
<1> SUFFICES ASSUME Init PROVE IInv
  OBVIOUS
<1>1. \A f \in Substantive : finding[f] = "not_evaluated"
  BY DEF Init
<1>2. TypeOK
  BY FaultsAssumption, LayerNames DEF Init, TypeOK
<1> QED BY <1>1, <1>2, LayerNames DEF Init, IInv, FreshInv, SignedInv, KeyInv

\* IInv is an invariant: the stage tells what may have been found.
LEMMA InvariantIInv == Spec => []IInv
<1>1. IInv /\ [Next]_vars => IInv'
  BY TypeStep, FreshStep, SignedStep, KeyStep DEF IInv
<1> QED BY <1>1, InitIInv, PTL DEF Spec

----------------------------------------------------------------------------
\* Every reachable state is well-typed; a verification has an exit status
\* exactly when it has ended.
THEOREM TypeCorrect == Spec => []TypeOK
BY InvariantIInv, PTL DEF IInv

\* A signature that verifies was made with the key of a usable entry of the
\* bundle over the receipt as it is, and the entry's window has both times.
LEMMA SignatureMeans ==
  ASSUME NEW r, NEW trust, NEW now, SignatureCode(r, trust, now) = "none"
  PROVE  \E j \in DOMAIN trust.keys :
           LET e == trust.keys[j]
           IN /\ e = (CHOOSE x \in Entry(trust, r.signature.key_id) : TRUE)
              /\ e.object /\ e.revocation \notin {"malformed", "revoked", "compromise"}
              /\ \A t \in {Instant(r.issued_at), now} : Within(e.not_before, e.not_after, t)
              /\ r.signature.sealed /\ r.signature.by = e.public_key
<1> DEFINE e == CHOOSE x \in Entry(trust, r.signature.key_id) : TRUE
<1>1. Entry(trust, r.signature.key_id) # {}
  BY DEF SignatureCode
<1>2. /\ UsabilityCode(e, r.issued_at, now) = "none"
      /\ r.signature.sealed /\ r.signature.by = e.public_key
  BY DEF SignatureCode
<1>3. e \in Entry(trust, r.signature.key_id)
  BY <1>1
<1> HIDE DEF e
<1>4. PICK j \in DOMAIN trust.keys : e = trust.keys[j] /\ e.object
  BY <1>3 DEF Entry
<1>5. /\ e.revocation \notin {"malformed", "revoked", "compromise"}
      /\ Within(e.not_before, e.not_after, Instant(r.issued_at)) /\ Within(e.not_before, e.not_after, now)
  <2>1. e.revocation \notin {"malformed", "revoked", "compromise"}
    BY <1>2 DEF UsabilityCode
  <2>2. /\ Within(e.not_before, e.not_after, Instant(r.issued_at))
        /\ Within(e.not_before, e.not_after, now)
    BY <1>2, <2>1 DEF UsabilityCode
  <2> QED BY <2>1, <2>2
<1> QED BY <1>2, <1>4, <1>5 DEF e

\* The attester whose key is authenticated owns the key that sealed the
\* receipt, and the key was alive at issue and at verification, whatever the
\* files and however often they were altered.
THEOREM OnlyOwnKey == Spec => []AuthenticatedByOwnKey
<1>1. IInv => AuthenticatedByOwnKey
  <2> SUFFICES ASSUME IInv, finding["key_authentication"] = "pass", EvidenceIsTrue(in)
               PROVE  /\ in.owner[in.receipt.signature.by] = in.receipt.scope.present_attester
                      /\ in.receipt.signature.sealed
                      /\ \A t \in {Instant(in.receipt.issued_at), in.now} :
                           t \in in.lifetime[in.receipt.signature.by]
    BY DEF AuthenticatedByOwnKey
  <2>1. /\ in.binding.form # "omitted"
        /\ BindingCode(in.receipt, in.binding, in.genesis, key) = "none"
        /\ SignatureCode(in.receipt, in.trust, in.now) = "none"
        /\ key = (CHOOSE e \in Entry(in.trust, in.receipt.signature.key_id) : TRUE).public_key
    BY DEF IInv, KeyInv, SignedInv
  <2>2. in.binding.fingerprint = key /\ in.binding.actor = in.receipt.scope.present_attester
    BY <2>1 DEF BindingCode
  <2>3. in.owner[key] = in.receipt.scope.present_attester
    BY <2>1, <2>2 DEF EvidenceIsTrue
  <2>4. PICK j \in DOMAIN in.trust.keys :
          /\ in.trust.keys[j] = (CHOOSE x \in Entry(in.trust, in.receipt.signature.key_id) : TRUE)
          /\ in.trust.keys[j].object
          /\ in.trust.keys[j].revocation \notin {"malformed", "revoked", "compromise"}
          /\ \A t \in {Instant(in.receipt.issued_at), in.now} :
               Within(in.trust.keys[j].not_before, in.trust.keys[j].not_after, t)
          /\ in.receipt.signature.sealed /\ in.receipt.signature.by = in.trust.keys[j].public_key
    BY <2>1, SignatureMeans
  <2>5. key = in.receipt.signature.by
    BY <2>1, <2>4
  <2>6. \A t \in {Instant(in.receipt.issued_at), in.now} : t \in in.lifetime[in.receipt.signature.by]
    BY <2>4 DEF EvidenceIsTrue
  <2> QED BY <2>3, <2>4, <2>5, <2>6
<1> QED BY <1>1, InvariantIInv, PTL

\* No later check turns a failed finding into anything else.
THEOREM FailuresStay == Spec => FailureIsTerminal
<1>1. IInv /\ [Next]_vars => [\A f \in Substantive : finding[f] = "fail" => finding'[f] = "fail"]_vars
  <2> SUFFICES ASSUME IInv, Next, NEW f \in Substantive, finding[f] = "fail"
               PROVE  finding'[f] = "fail"
    OBVIOUS
  <2>1. TypeOK /\ FreshInv
    BY DEF IInv
  <2>2. CASE Alter \/ Submit \/ LoadInputs \/ CheckSchema \/ CheckDisposition
    BY <2>2 DEF Alter, Submit, LoadInputs, CheckSchema, CheckDisposition, report
  <2>3. CASE CheckTimeAndScope
    BY <2>1, <2>3 DEF CheckTimeAndScope, FreshInv, Before
  <2>4. CASE CheckSignature
    BY <2>1, <2>4 DEF CheckSignature, FreshInv, TypeOK
  <2>5. CASE CheckLayer
    <3> DEFINE v == LayerFinding(in.receipt[Layers[k]], in.evidence[Layers[k]], finding[Layers[k]]).value
    <3>1. finding[Layers[k]] = "fail" => v = "fail"
      BY LayerFindingFacts
    <3>2. finding' = [finding EXCEPT ![Layers[k]] = v]
      BY <2>5 DEF CheckLayer
    <3> HIDE DEF v
    <3> QED BY <2>1, <3>1, <3>2 DEF TypeOK
  <2>6. CASE ConcludeKey
    BY <2>1, <2>6, KeyFindingFacts DEF ConcludeKey, TypeOK
  <2> QED BY <2>2, <2>3, <2>4, <2>5, <2>6 DEF Next, Verify
<1> QED BY <1>1, InvariantIInv, PTL DEF Spec, FailureIsTerminal
=============================================================================
