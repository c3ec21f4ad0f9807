--------------------------- MODULE DeferredProofs ---------------------------
(***************************************************************************)
(* Theorems about DeferredDelivery, for emissions, faults and alterations  *)
(* without bound.  The inductive invariant adds to the types that a report *)
(* says of the list it was made of what Evaluate says.                     *)
(***************************************************************************)
EXTENDS DeferredDelivery, SequenceTheorems, WellFoundedInduction, TLAPS

ReportInv ==
  /\ pc # "done" => exit = -1 /\ receipt_gap_disclosed = "not_evaluated"
  /\ Reported => conclusions = Evaluate(receipts)

IInv == TypeOK /\ ReportInv

----------------------------------------------------------------------------
(* What the checks say of a list of receipts.                              *)

\* A nonempty set of natural numbers has a least element: the
\* first match of the code's loops exists.
LEMMA LeastElement ==
  ASSUME NEW S, S \subseteq Nat, S # {}
  PROVE  \E i \in S : \A j \in S : i <= j
<1> DEFINE R == {ss \in Nat \X Nat : ss[1] < ss[2]}
<1>1. IsWellFoundedOn(R, Nat)
  BY NatLessThanWellFounded DEF OpToRel
<1> HIDE DEF R
<1>2. PICK x \in S : \A y \in S : ~(<<y, x>> \in R)
  BY <1>1, WFMin
<1>3. \A y \in S : ~(y < x)
  BY <1>2 DEF R
<1> QED
  BY <1>3

\* The first receipt of a kind is of that kind, if there is one.
LEMMA FirstOfKind ==
  ASSUME NEW rs \in Seq(ReceiptRecord), NEW kind, OfKind(rs, {kind}) # {}
  PROVE  FirstOf(rs, kind) \in OfKind(rs, {kind})
<1>1. OfKind(rs, {kind}) \subseteq Nat
  BY DEF OfKind
<1>2. \E i \in OfKind(rs, {kind}) : \A j \in OfKind(rs, {kind}) : i <= j
  BY <1>1, LeastElement
<1> QED
  BY <1>2 DEF FirstOf

\* All thirteen checks without a finding: a list that passed.
LEMMA NoCodes ==
  ASSUME NEW rs, \A c \in Gating : Evaluate(rs)[c] = "true"
  PROVE  /\ ReplayCodes(rs) = {} /\ SequenceIdCodes(rs) = {} /\ PresenceCodes(rs) = {}
         /\ DeferCodes(rs) = {} /\ ConditionCodes(rs) = {} /\ IndividualCodes(rs) = {}
         /\ RefusedCodes(rs) = {} /\ OutcomeCodes(rs) = {}
<1>1. \A c \in Gating : Codes(rs, c) = {}
  BY DEF Evaluate
<1>2. /\ Codes(rs, "replay_clean") = {} /\ Codes(rs, "sequence_id_continuity") = {}
      /\ Codes(rs, "event_presence") = {} /\ Codes(rs, "defer_receipt_linkage") = {}
      /\ Codes(rs, "condition_receipt_linkage") = {}
      /\ Codes(rs, "individual_receipts_valid") = {}
      /\ Codes(rs, "refused_has_no_execution_outcome") = {}
      /\ Codes(rs, "outcome_links_admitted_terminal") = {}
  BY <1>1 DEF Gating
<1> QED
  BY <1>2 DEF Codes

\* An outcome of a list that passed, and the terminal admission behind it.
LEMMA OutcomeOfPassingList ==
  ASSUME NEW rs \in Seq(ReceiptRecord), \A c \in Gating : Evaluate(rs)[c] = "true",
         NEW i \in OfKind(rs, {"execution_outcome"})
  PROVE  \E t \in OfKind(rs, {"terminal_admission"}) :
           /\ rs[t].disp = "admitted"
           /\ {j \in DOMAIN rs : rs[j].rid = rs[i].term} = {t}
           /\ rs[t].seq = rs[i].seq /\ rs[t].defer = rs[i].defer
           /\ \E d \in OfKind(rs, {"defer_request"}) : rs[d].rid = rs[t].defer
           /\ \E c \in OfKind(rs, {"condition_response"}) : rs[c].rid = rs[t].cond
<1>1. /\ ReplayCodes(rs) = {} /\ SequenceIdCodes(rs) = {} /\ PresenceCodes(rs) = {}
      /\ DeferCodes(rs) = {} /\ ConditionCodes(rs) = {} /\ IndividualCodes(rs) = {}
      /\ RefusedCodes(rs) = {} /\ OutcomeCodes(rs) = {}
  BY NoCodes
<1>2. i \in DOMAIN rs /\ rs[i].kind = "execution_outcome"
  BY DEF OfKind
<1>3. \A j \in DOMAIN rs : rs[j].seq # 0
  BY <1>1 DEF IndividualCodes, IndividuallyValid
<1>4. rs[i].term \notin TerminalIds(rs, "refused")
  BY <1>1 DEF RefusedCodes
<1>5. rs[i].term # 0 /\ rs[i].term \in TerminalIds(rs, "admitted")
  BY <1>1, <1>4 DEF OutcomeCodes
<1>6. PICK t \in OfKind(rs, {"terminal_admission"}) :
        rs[t].disp = "admitted" /\ rs[t].rid = rs[i].term
  BY <1>5 DEF TerminalIds
<1>7. t \in DOMAIN rs /\ t \in OfKind(rs, {"terminal_admission", "execution_outcome"})
      /\ t \in OfKind(rs, {"reevaluation", "terminal_admission"})
      /\ i \in OfKind(rs, {"terminal_admission", "execution_outcome"})
  BY <1>2, <1>6 DEF OfKind
<1>8. \A j, k \in DOMAIN rs : rs[j].rid # 0 /\ (rs[j].rid = rs[k].rid => j = k)
  <2>1. DOMAIN rs \subseteq Int
    OBVIOUS
  <2>2. \A j, k \in DOMAIN rs : rs[j].rid # 0 /\ ~(j < k /\ rs[j].rid = rs[k].rid)
    BY <1>1 DEF ReplayCodes
  <2> QED
    BY <2>1, <2>2
<1>9. {j \in DOMAIN rs : rs[j].rid = rs[i].term} = {t}
  BY <1>6, <1>7, <1>8
<1>10. rs[t].seq = rs[i].seq
  BY <1>1, <1>2, <1>3, <1>7 DEF SequenceIdCodes
<1>11. FirstOf(rs, "defer_request") \in OfKind(rs, {"defer_request"})
  BY <1>1, FirstOfKind DEF PresenceCodes
<1>12. /\ rs[t].defer = rs[FirstOf(rs, "defer_request")].rid
       /\ rs[i].defer = rs[FirstOf(rs, "defer_request")].rid
  <2>1. rs[FirstOf(rs, "defer_request")].rid # 0
    BY <1>8, <1>11 DEF OfKind
  <2> QED
    BY <1>1, <1>7, <1>11, <2>1 DEF DeferCodes
<1>13. FirstOf(rs, "condition_response") \in OfKind(rs, {"condition_response"})
  BY <1>1, <1>7, FirstOfKind DEF ConditionCodes
<1>14. rs[t].cond = rs[FirstOf(rs, "condition_response")].rid
  <2>1. rs[FirstOf(rs, "condition_response")].rid # 0
    BY <1>8, <1>13 DEF OfKind
  <2> QED
    BY <1>1, <1>7, <1>13, <2>1 DEF ConditionCodes
<1> QED
  BY <1>6, <1>9, <1>10, <1>11, <1>12, <1>13, <1>14

----------------------------------------------------------------------------
(* Types of the emission and of what faults make of it.                    *)

\* What the operation emits is a receipt.
LEMMA EmittedReceipt ==
  ASSUME sent \in Seq(ReceiptRecord), NEW kind \in Kinds, NEW disp \in Dispositions,
         NEW status \in Statuses
  PROVE  Receipt(kind, disp, status) \in ReceiptRecord
<1>1. \A k : OfKind(sent, {k}) # {} => FirstOf(sent, k) \in Int
  <2> SUFFICES ASSUME NEW k, OfKind(sent, {k}) # {} PROVE FirstOf(sent, k) \in Int
    OBVIOUS
  <2>1. FirstOf(sent, k) \in OfKind(sent, {k})
    BY FirstOfKind
  <2> QED
    BY <2>1 DEF OfKind
<1>2. Len(sent) \in Int
  OBVIOUS
<1> QED
  BY <1>1, <1>2 DEF Receipt, ReceiptRecord

\* Losing, inserting and altering an item leaves a list of items.
LEMMA FaultyList ==
  ASSUME NEW R, NEW s \in Seq(R), NEW r \in R
  PROVE  /\ \A i \in DOMAIN s : RemoveAt(s, i) \in Seq(R)
         /\ \A j \in 1 .. Len(s) + 1 : InsertAt(s, j, r) \in Seq(R)
         /\ \A i \in DOMAIN s : ReplaceAt(s, i, r) \in Seq(R)
<1>1. \A m, n \in Int : 1 <= m /\ n <= Len(s) => SubSeq(s, m, n) \in Seq(R)
  <2> SUFFICES ASSUME NEW m \in Int, NEW n \in Int, 1 <= m, n <= Len(s)
               PROVE  SubSeq(s, m, n) \in Seq(R)
    OBVIOUS
  <2>1. \A i \in m .. n : s[i] \in R
    OBVIOUS
  <2> QED
    BY <2>1, SubSeqProperties
<1>2. ASSUME NEW i \in DOMAIN s PROVE RemoveAt(s, i) \in Seq(R)
  <2>1. /\ SubSeq(s, 1, i - 1) \in Seq(R)
        /\ SubSeq(s, i + 1, Len(s)) \in Seq(R)
    BY <1>1
  <2> QED
    BY <2>1, ConcatProperties DEF RemoveAt
<1>3. ASSUME NEW j \in 1 .. Len(s) + 1 PROVE InsertAt(s, j, r) \in Seq(R)
  <2>1. /\ SubSeq(s, 1, j - 1) \in Seq(R)
        /\ SubSeq(s, j, Len(s)) \in Seq(R)
        /\ <<r>> \in Seq(R)
    BY <1>1
  <2>2. SubSeq(s, 1, j - 1) \o <<r>> \in Seq(R)
    BY <2>1, ConcatProperties
  <2> QED
    BY <2>1, <2>2, ConcatProperties DEF InsertAt
<1>4. ASSUME NEW i \in DOMAIN s PROVE ReplaceAt(s, i, r) \in Seq(R)
  BY DEF ReplaceAt
<1> QED
  BY <1>2, <1>3, <1>4

\* One item less, and one item elsewhere.
LEMMA MovedList ==
  ASSUME NEW R, NEW s \in Seq(R), NEW i \in DOMAIN s, NEW j \in DOMAIN s
  PROVE  InsertAt(RemoveAt(s, i), j, s[i]) \in Seq(R)
<1>1. s[i] \in R /\ RemoveAt(s, i) \in Seq(R)
  BY FaultyList
<1>2. Len(RemoveAt(s, i)) = Len(s) - 1
  <2>1. /\ \A k \in 1 .. i - 1 : s[k] \in R
        /\ \A k \in i + 1 .. Len(s) : s[k] \in R
    OBVIOUS
  <2>2. /\ SubSeq(s, 1, i - 1) \in Seq(R) /\ Len(SubSeq(s, 1, i - 1)) = i - 1
        /\ SubSeq(s, i + 1, Len(s)) \in Seq(R)
        /\ Len(SubSeq(s, i + 1, Len(s))) = Len(s) - i
    BY <2>1, SubSeqProperties
  <2>3. Len(RemoveAt(s, i)) = (i - 1) + (Len(s) - i)
    BY <2>2, ConcatProperties DEF RemoveAt
  <2>4. i \in Int /\ Len(s) \in Int
    OBVIOUS
  <2> QED
    BY <2>3, <2>4
<1> QED
  BY <1>1, <1>2, FaultyList

\* A fault of the delivery preserves the invariant.
LEMMA FaultIInv ==
  ASSUME IInv, NEW list \in Seq(ReceiptRecord), NEW alters \in {0, 1}, Fault(list, alters)
  PROVE  IInv'
  BY BoundsAssumption DEF IInv, TypeOK, ReportInv, Reported, Passed, Fault, verdict

\* main, on whatever list it is given, preserves the invariant.
LEMMA VerifyIInv == IInv /\ Verify => IInv'
<1> SUFFICES ASSUME IInv, Verify PROVE IInv'
  OBVIOUS
<1> USE DEF IInv, TypeOK, ReportInv, Reported, Passed
<1>1. CASE VerifyRaises(receipts)
  BY <1>1 DEF Verify
<1>2. CASE ~VerifyRaises(receipts)
  <2>1. /\ pc' = "done" /\ conclusions' = Evaluate(receipts)
        /\ receipt_gap_disclosed' = GapDisclosed(receipts)
        /\ UNCHANGED <<sent, receipts, faults, altered>>
        /\ exit' = IF \A c \in Gating : Evaluate(receipts)[c] = "true" THEN 0 ELSE 1
    BY <1>2 DEF Verify
  <2>2. GapDisclosed(receipts) # "not_evaluated"
    BY DEF GapDisclosed
  <2>3. Evaluate(receipts) \in [Gating -> {"true", "false"}]
    BY DEF Evaluate
  <2> HIDE DEF IInv, TypeOK, ReportInv, Passed
  <2>4. Reported' /\ (exit' = 0 <=> Passed') /\ exit' # -1
    BY <2>1, <2>2 DEF Passed
  <2>5. TypeOK'
    BY <2>1, <2>3, <2>4 DEF IInv, TypeOK
  <2>6. ReportInv'
    BY <2>1 DEF ReportInv
  <2> QED
    BY <2>5, <2>6 DEF IInv
<1> QED
  BY <1>1, <1>2

\* Every receipt the operation may emit next is a receipt.
LEMMA EmissionTyped ==
  ASSUME IInv
  PROVE  NextReceipts \subseteq ReceiptRecord
<1>1. \A k \in Kinds, d \in Dispositions, s \in Statuses : Receipt(k, d, s) \in ReceiptRecord
  BY EmittedReceipt DEF IInv, TypeOK
<1>2. /\ Receipt("defer_request", "deferred_for_review", "none") \in ReceiptRecord
      /\ \A s \in {"approved", "rejected", "expired"} :
           Receipt("condition_response", "none", s) \in ReceiptRecord
      /\ Receipt("reevaluation", "none", "none") \in ReceiptRecord
      /\ \A d \in {"admitted", "refused"} :
           Receipt("terminal_admission", d, "none") \in ReceiptRecord
      /\ Receipt("execution_outcome", "none", "none") \in ReceiptRecord
  BY <1>1 DEF Kinds, ReceiptKinds, Dispositions, Statuses
<1>3. CASE sent = <<>>
  <2>1. NextReceipts = {Receipt("defer_request", "deferred_for_review", "none")}
    BY <1>3, Zenon DEF NextReceipts
  <2> QED
    BY <1>2, <2>1
<1>4. CASE sent # <<>>
  <2> DEFINE r == sent[LatestStep]
  <2> HIDE DEF r
  <2>1. NextReceipts =
          CASE r.kind = "defer_request" ->
                 {Receipt("condition_response", "none", s) : s \in {"approved", "rejected", "expired"}}
            [] r.kind = "condition_response" /\ r.status = "approved" ->
                 {Receipt("reevaluation", "none", "none")}
            [] r.kind = "condition_response" /\ r.status # "approved" ->
                 {Receipt("terminal_admission", "refused", "none")}
            [] r.kind = "reevaluation" ->
                 {Receipt("terminal_admission", d, "none") : d \in {"admitted", "refused"}}
            [] r.kind = "terminal_admission" /\ r.disp = "admitted" ->
                 {Receipt("execution_outcome", "none", "none")}
            [] OTHER -> {}
    BY <1>4, Zenon DEF NextReceipts, r
  <2> QED
    BY <1>2, <2>1
<1> QED
  BY <1>3, <1>4

\* Every step preserves the invariant.
LEMMA NextIInv == IInv /\ [Next]_vars => IInv'
<1> SUFFICES ASSUME IInv, [Next]_vars PROVE IInv'
  OBVIOUS
<1>0. sent \in Seq(ReceiptRecord) /\ receipts \in Seq(ReceiptRecord)
  BY DEF IInv, TypeOK
<1>1. CASE Emit
  <2>1. sent' \in Seq(ReceiptRecord)
    BY <1>0, <1>1, EmissionTyped, AppendProperties DEF Emit
  <2> QED
    BY <1>1, <2>1 DEF Emit, verdict, IInv, TypeOK, ReportInv, Reported, Passed
<1>2. CASE EmitGap
  <2>0. Receipt("receipt_gap", "none", "none") \in ReceiptRecord
    BY <1>0, EmittedReceipt DEF Kinds, ReceiptKinds, Dispositions, Statuses
  <2>1. sent' \in Seq(ReceiptRecord)
    BY <1>0, <1>2, <2>0, AppendProperties DEF EmitGap
  <2> QED
    BY <1>2, <2>1 DEF EmitGap, verdict, IInv, TypeOK, ReportInv, Reported, Passed
<1>3. CASE Submit
  BY <1>3 DEF Submit, verdict, IInv, TypeOK, ReportInv, Reported, Passed
<1>4. CASE Lose
  BY <1>0, <1>4, FaultIInv, FaultyList DEF Lose
<1>5. CASE Repeat
  <2>1. PICK i \in DOMAIN receipts, j \in 1 .. Len(receipts) + 1 :
          Fault(InsertAt(receipts, j, receipts[i]), 0)
    BY <1>5 DEF Repeat
  <2>2. receipts[i] \in ReceiptRecord
    BY <1>0
  <2> QED
    BY <1>0, <2>1, <2>2, FaultIInv, FaultyList
<1>6. CASE Move
  BY <1>0, <1>6, FaultIInv, MovedList DEF Move
<1>7. CASE Intrude
  BY <1>0, <1>7, FaultIInv, FaultyList, StrayAssumption DEF Intrude
<1>8. CASE Alter
  BY <1>0, <1>8, FaultIInv, FaultyList DEF Alter
<1>9. CASE LoadFails
  BY <1>9 DEF LoadFails, IInv, TypeOK, ReportInv, Reported, Passed
<1>10. CASE UNCHANGED vars
  BY <1>10 DEF vars, IInv, TypeOK, ReportInv, Reported, Passed
<1> QED
  BY <1>1, <1>2, <1>3, <1>4, <1>5, <1>6, <1>7, <1>8, <1>9, <1>10, VerifyIInv DEF Next

\* The initial states satisfy the invariant.
LEMMA InitIInv == Init => IInv
  BY BoundsAssumption DEF Init, IInv, TypeOK, ReportInv, Reported, Passed

\* Every reachable state satisfies the invariant.
LEMMA InductiveInvariant == Spec => []IInv
  BY InitIInv, NextIInv, PTL DEF Spec

\* A report leaves nothing unevaluated, and exit 0 is a report that passed.
THEOREM TypeCorrect == Spec => []TypeOK
<1>1. IInv => TypeOK
  BY DEF IInv
<1> QED
  BY <1>1, InductiveInvariant, PTL

\* Whatever was lost, repeated, moved, added or altered, in a list that
\* passed an execution outcome rests on one admitted terminal admission,
\* bound to the same deferral and to a condition response of the list.
THEOREM OutcomesRestOnAdmissions == Spec => []OutcomeRestsOnAdmission
<1>1. ASSUME IInv PROVE OutcomeRestsOnAdmission
  <2> SUFFICES ASSUME Passed PROVE OutcomeRestsOnAdmission
    BY DEF OutcomeRestsOnAdmission
  <2>1. \A c \in Gating : Evaluate(receipts)[c] = "true"
    BY <1>1 DEF IInv, ReportInv, Passed
  <2>2. receipts \in Seq(ReceiptRecord)
    BY <1>1 DEF IInv, TypeOK
  <2> QED
    BY <2>1, <2>2, OutcomeOfPassingList DEF OutcomeRestsOnAdmission
<1> QED
  BY <1>1, InductiveInvariant, PTL

----------------------------------------------------------------------------
(* What the operation emits.  Its kinds come in one order, the receipt at  *)
(* position k has the id k and the predecessor k - 1, and its references   *)
(* are to receipts before it.                                              *)

Rank ==
  [defer_request |-> 1, condition_response |-> 2, reevaluation |-> 3, terminal_admission |-> 4,
   execution_outcome |-> 5]

Emitted(s, k) ==
  /\ s[k].rid = k /\ s[k].seq = 1 /\ s[k].pred = k - 1 /\ s[k].conform /\ ~s[k].mistyped
  /\ s[k].kind \in ReceiptKinds /\ (s[k].digest <=> s[k].kind # "condition_response")
  /\ s[k].kind = "defer_request" <=> k = 1

Referring(s, k) ==
  /\ s[k].kind = "defer_request" => s[k].disp = "deferred_for_review"
  /\ s[k].kind = "condition_response" => s[k].status \in {"approved", "rejected", "expired"}
  /\ s[k].kind = "terminal_admission" => s[k].disp \in {"admitted", "refused"}
  /\ s[k].kind \in {"terminal_admission", "execution_outcome"} => s[k].defer = 1
  /\ s[k].kind \in {"reevaluation", "terminal_admission"} =>
       s[k].cond \in OfKind(s, {"condition_response"})
  /\ s[k].kind = "execution_outcome" =>
       s[k].term \in OfKind(s, {"terminal_admission"}) /\ s[s[k].term].disp = "admitted"

Ordered(s) ==
  \A i, j \in DOMAIN s :
    i < j /\ s[i].kind # "receipt_gap" /\ s[j].kind # "receipt_gap" => Rank[s[i].kind] < Rank[s[j].kind]

Approved(s) ==
  \A i, j \in DOMAIN s :
    s[i].kind = "condition_response" /\ s[j].kind = "reevaluation" => s[i].status = "approved"

Emission(s) ==
  /\ s \in Seq(ReceiptRecord)
  /\ \A k \in DOMAIN s : Emitted(s, k) /\ Referring(s, k)
  /\ Ordered(s) /\ Approved(s)

\* Without an alteration every receipt of the list is one of the emission; without a
\* fault it is the emission.
DeliveryInv ==
  /\ Emission(sent)
  /\ pc = "emit" => faults = 0 /\ receipts = <<>>
  /\ pc # "emit" /\ faults = 0 => receipts = sent
  /\ altered = 0 => receipts \in Seq(Range(sent))

\* Every kind but the gap occurs once.
LEMMA OneOfAKind ==
  ASSUME NEW s, Emission(s), NEW i \in DOMAIN s, NEW j \in DOMAIN s, s[i].kind = s[j].kind,
         s[i].kind # "receipt_gap"
  PROVE  i = j
<1>1. i \in Int /\ j \in Int
  BY DEF Emission
<1>2. s[i].kind \in DOMAIN Rank /\ Rank[s[i].kind] \in Int
  BY DEF Emission, Emitted, ReceiptKinds, Rank
<1>3. ~(i < j) /\ ~(j < i)
  BY <1>2 DEF Emission, Ordered
<1> QED
  BY <1>1, <1>3

\* A nonempty set of positions has a last one.
LEMMA LastElement ==
  ASSUME NEW n \in Nat, NEW S, S \subseteq 1 .. n, S # {}
  PROVE  \E i \in S : \A j \in S : j <= i
<1> DEFINE T == {n - i : i \in S}
<1>1. T \subseteq Nat /\ T # {}
  <2>1. \A i \in S : n - i \in Nat
    OBVIOUS
  <2> QED
    BY <2>1
<1>2. PICK m \in T : \A k \in T : m <= k
  <2> HIDE DEF T
  <2> QED
    BY <1>1, LeastElement
<1>3. PICK i \in S : m = n - i
  OBVIOUS
<1>4. \A j \in S : n - i <= n - j
  BY <1>2, <1>3
<1> QED
  BY <1>3, <1>4

\* The latest step of a nonempty emission, and what it says of the others.
LEMMA LatestIsLatest ==
  ASSUME Emission(sent), sent # <<>>
  PROVE  /\ LatestStep \in DOMAIN sent /\ sent[LatestStep].kind \in DOMAIN Rank
         /\ \A i \in DOMAIN sent : sent[i].kind # "receipt_gap" =>
              i <= LatestStep /\ Rank[sent[i].kind] <= Rank[sent[LatestStep].kind]
<1>1. Len(sent) \in Nat /\ DOMAIN sent = 1 .. Len(sent) /\ 1 \in DOMAIN sent
  BY DEF Emission
<1>2. \A i \in DOMAIN sent : i \in Steps <=> sent[i].kind # "receipt_gap"
  BY DEF Steps, OfKind, Emission, Emitted, Kinds
<1>3. Steps \subseteq 1 .. Len(sent)
  BY <1>1 DEF Steps, OfKind
<1>4. 1 \in Steps
  BY <1>1, <1>2 DEF Emission, Emitted
<1>5. \E i \in Steps : \A j \in Steps : j <= i
  BY <1>1, <1>3, <1>4, LastElement
<1>6. LatestStep \in Steps /\ \A j \in Steps : j <= LatestStep
  BY <1>5 DEF LatestStep
<1>7. \A i \in DOMAIN sent : sent[i].kind # "receipt_gap" => sent[i].kind \in DOMAIN Rank /\ Rank[sent[i].kind] \in Int
  BY DEF Emission, Emitted, ReceiptKinds, Rank
<1>8. LatestStep \in DOMAIN sent /\ sent[LatestStep].kind # "receipt_gap"
  BY <1>1, <1>2, <1>3, <1>6
<1>9. ASSUME NEW i \in DOMAIN sent, sent[i].kind # "receipt_gap"
      PROVE  i <= LatestStep /\ Rank[sent[i].kind] <= Rank[sent[LatestStep].kind]
  <2>1. i <= LatestStep
    BY <1>2, <1>6, <1>9
  <2>2. CASE i = LatestStep
    BY <1>7, <1>8, <2>1, <2>2
  <2>3. CASE i < LatestStep
    BY <1>7, <1>8, <1>9, <2>1, <2>3 DEF Emission, Ordered
  <2> QED
    BY <1>1, <1>8, <2>1, <2>2, <2>3
<1> QED
  BY <1>7, <1>8, <1>9

\* The emission goes on: a receipt of a later kind, or a gap, with these references.
LEMMA EmissionExtended ==
  ASSUME NEW s, Emission(s), NEW r \in ReceiptRecord,
         LET t == Append(s, r) IN Emitted(t, Len(s) + 1) /\ Referring(t, Len(s) + 1),
         r.kind # "receipt_gap" =>
           \A i \in DOMAIN s : s[i].kind # "receipt_gap" => Rank[s[i].kind] < Rank[r.kind],
         r.kind = "reevaluation" => \A i \in OfKind(s, {"condition_response"}) : s[i].status = "approved"
  PROVE  Emission(Append(s, r))
<1> DEFINE t == Append(s, r)
           n == Len(s) + 1
<1>1. /\ t \in Seq(ReceiptRecord) /\ Len(s) \in Nat /\ DOMAIN s = 1 .. Len(s) /\ DOMAIN t = 1 .. n
      /\ t[n] = r /\ \A i \in DOMAIN s : i \in DOMAIN t /\ t[i] = s[i] /\ i < n
  BY DEF Emission
<1>2. \A i \in DOMAIN t : i \in DOMAIN s \/ i = n
  BY <1>1
<1>3. \A kinds : OfKind(s, kinds) \subseteq OfKind(t, kinds)
  BY <1>1 DEF OfKind
<1> HIDE DEF t
<1>4. \A k \in DOMAIN s : Emitted(t, k)
  BY <1>1 DEF Emission, Emitted
<1>5. ASSUME NEW k \in DOMAIN s PROVE Referring(t, k)
  <2>1. Referring(s, k) /\ t[k] = s[k]
    BY <1>1 DEF Emission
  <2>2. s[k].kind = "execution_outcome" => t[s[k].term] = s[s[k].term]
    BY <1>1, <2>1 DEF Referring, OfKind
  <2> QED
    BY <1>3, <2>1, <2>2 DEF Referring
<1>6. \A k \in DOMAIN t : Emitted(t, k) /\ Referring(t, k)
  BY <1>2, <1>4, <1>5 DEF t
<1>7. Ordered(t)
  BY <1>1, <1>2 DEF Emission, Ordered
<1>8. Approved(t)
  <2> SUFFICES ASSUME NEW i \in DOMAIN t, NEW j \in DOMAIN t,
                      t[i].kind = "condition_response", t[j].kind = "reevaluation"
               PROVE  t[i].status = "approved"
    BY DEF Approved
  <2>1. CASE i \in DOMAIN s /\ j \in DOMAIN s
    BY <1>1, <2>1 DEF Emission, Approved
  <2>2. CASE i \in DOMAIN s /\ j = n
    BY <1>1, <2>2 DEF OfKind
  <2>3. CASE i = n /\ j \in DOMAIN s
    <3>1. Rank["reevaluation"] < Rank["condition_response"]
      BY <1>1, <2>3
    <3> QED
      BY <3>1 DEF Rank
  <2>4. CASE i = n /\ j = n
    BY <2>4
  <2> QED
    BY <1>2, <2>1, <2>2, <2>3, <2>4
<1>9. Emission(t)
  BY <1>1, <1>6, <1>7, <1>8 DEF Emission
<1> QED
  BY <1>9 DEF t

\* A new receipt has the next id and refers to the first receipt of each kind it needs.
LEMMA NewReceipt ==
  ASSUME Emission(sent), NEW kind \in ReceiptKinds, NEW disp \in Dispositions, NEW status \in Statuses,
         kind = "defer_request" <=> sent = <<>>
  PROVE  LET r == Receipt(kind, disp, status)
         IN  /\ r \in ReceiptRecord /\ r.kind = kind /\ r.disp = disp /\ r.status = status
             /\ Emitted(Append(sent, r), Len(sent) + 1)
             /\ kind \in {"terminal_admission", "execution_outcome"} => r.defer = 1
             /\ kind \in {"reevaluation", "terminal_admission"} /\ OfKind(sent, {"condition_response"}) # {} =>
                  r.cond \in OfKind(sent, {"condition_response"})
             /\ kind = "execution_outcome" /\ OfKind(sent, {"terminal_admission"}) # {} =>
                  r.term \in OfKind(sent, {"terminal_admission"})
<1> DEFINE r == Receipt(kind, disp, status)
<1>1. sent \in Seq(ReceiptRecord) /\ Len(sent) \in Nat /\ (sent = <<>> <=> Len(sent) = 0)
  BY DEF Emission
<1>2. r \in ReceiptRecord
  BY <1>1, EmittedReceipt DEF Kinds
<1>3. /\ r.rid = Len(sent) + 1 /\ r.kind = kind /\ r.seq = 1 /\ r.pred = Len(sent)
      /\ r.disp = disp /\ r.status = status /\ (r.digest <=> kind # "condition_response")
      /\ r.conform /\ ~r.mistyped
  BY DEF Receipt
<1>4. Append(sent, r)[Len(sent) + 1] = r
  <2> HIDE DEF r
  <2> QED
    BY <1>1, <1>2
<1>5. Emitted(Append(sent, r), Len(sent) + 1)
  <2> HIDE DEF r
  <2> QED
    BY <1>1, <1>3, <1>4 DEF Emitted
<1>6. \A k : OfKind(sent, {k}) # {} => FirstOf(sent, k) \in OfKind(sent, {k})
  BY <1>1, FirstOfKind
<1>7. kind \in {"terminal_admission", "execution_outcome"} => r.defer = 1
  <2> SUFFICES ASSUME kind \in {"terminal_admission", "execution_outcome"} PROVE r.defer = 1
    OBVIOUS
  <2>1. 1 \in OfKind(sent, {"defer_request"})
    BY <1>1 DEF Emission, Emitted, OfKind
  <2>2. FirstOf(sent, "defer_request") = 1
    BY <1>6, <2>1 DEF Emission, Emitted, OfKind
  <2> QED
    BY <2>1, <2>2 DEF Receipt
<1>8. kind \in {"reevaluation", "terminal_admission"} /\ OfKind(sent, {"condition_response"}) # {} =>
        r.cond = FirstOf(sent, "condition_response")
  BY DEF Receipt
<1>9. kind = "execution_outcome" /\ OfKind(sent, {"terminal_admission"}) # {} =>
        r.term = FirstOf(sent, "terminal_admission")
  BY DEF Receipt
<1> QED
  BY <1>2, <1>3, <1>5, <1>6, <1>7, <1>8, <1>9

\* The emission with one of the receipts that may come next.
LEMMA EmitKeepsEmission ==
  ASSUME Emission(sent), NEW r \in NextReceipts
  PROVE  Emission(Append(sent, r))
<1> USE DEF ReceiptKinds, Dispositions, Statuses
<1>0. sent \in Seq(ReceiptRecord) /\ Len(sent) \in Nat /\ DOMAIN sent = 1 .. Len(sent)
  BY DEF Emission
<1> DEFINE n == Len(sent) + 1
           latest == sent[LatestStep]
<1>1. ASSUME NEW q \in ReceiptRecord
      PROVE  /\ Append(sent, q)[n] = q
             /\ \A i \in DOMAIN sent : Append(sent, q)[i] = sent[i]
             /\ \A kinds : OfKind(sent, kinds) \subseteq OfKind(Append(sent, q), kinds)
  BY <1>0 DEF OfKind
<1>2. CASE sent = <<>>
  <2>1. r = Receipt("defer_request", "deferred_for_review", "none")
    BY <1>2, Zenon DEF NextReceipts
  <2>2. r \in ReceiptRecord /\ r.kind = "defer_request" /\ r.disp = "deferred_for_review"
        /\ Emitted(Append(sent, r), n)
    BY <1>2, <2>1, NewReceipt
  <2>3. Referring(Append(sent, r), n)
    BY <1>1, <2>2 DEF Referring
  <2>4. DOMAIN sent = {}
    BY <1>2
  <2> QED
    BY <2>2, <2>3, <2>4, EmissionExtended
<1>3. CASE sent # <<>>
  <2>1. /\ LatestStep \in DOMAIN sent /\ latest.kind \in DOMAIN Rank
        /\ \A i \in DOMAIN sent : sent[i].kind # "receipt_gap" => Rank[sent[i].kind] <= Rank[latest.kind]
    BY <1>3, LatestIsLatest
  <2>2. Emitted(sent, LatestStep) /\ Referring(sent, LatestStep)
    BY <2>1 DEF Emission
  <2>3. LatestStep \in OfKind(sent, {latest.kind})
    BY <2>1 DEF OfKind
  <2> HIDE DEF latest
  <2>4. NextReceipts =
          CASE latest.kind = "defer_request" ->
                 {Receipt("condition_response", "none", s) : s \in {"approved", "rejected", "expired"}}
            [] latest.kind = "condition_response" /\ latest.status = "approved" ->
                 {Receipt("reevaluation", "none", "none")}
            [] latest.kind = "condition_response" /\ latest.status # "approved" ->
                 {Receipt("terminal_admission", "refused", "none")}
            [] latest.kind = "reevaluation" ->
                 {Receipt("terminal_admission", d, "none") : d \in {"admitted", "refused"}}
            [] latest.kind = "terminal_admission" /\ latest.disp = "admitted" ->
                 {Receipt("execution_outcome", "none", "none")}
            [] OTHER -> {}
    BY <1>3, Zenon DEF NextReceipts, latest
  <2>5. \/ /\ latest.kind = "defer_request"
           /\ \E s \in {"approved", "rejected", "expired"} : r = Receipt("condition_response", "none", s)
        \/ /\ latest.kind = "condition_response" /\ latest.status = "approved"
           /\ r = Receipt("reevaluation", "none", "none")
        \/ /\ latest.kind \in {"condition_response", "reevaluation"}
           /\ \E d \in {"admitted", "refused"} : r = Receipt("terminal_admission", d, "none")
        \/ /\ latest.kind = "terminal_admission" /\ latest.disp = "admitted"
           /\ r = Receipt("execution_outcome", "none", "none")
    BY <2>4
  <2>6. ASSUME NEW k \in DOMAIN Rank, Rank[latest.kind] < Rank[k]
        PROVE  \A i \in DOMAIN sent : sent[i].kind # "receipt_gap" => Rank[sent[i].kind] < Rank[k]
    <3>1. \A i \in DOMAIN sent : sent[i].kind # "receipt_gap" =>
            sent[i].kind \in DOMAIN Rank /\ Rank[sent[i].kind] \in Int
      BY DEF Emission, Emitted, Rank
    <3>2. Rank[latest.kind] \in Int /\ Rank[k] \in Int
      BY <2>1 DEF Rank
    <3> QED
      BY <2>1, <2>6, <3>1, <3>2
  <2>7. CASE latest.kind = "defer_request"
    <3>1. PICK s \in {"approved", "rejected", "expired"} : r = Receipt("condition_response", "none", s)
      BY <2>5, <2>7
    <3>2. r \in ReceiptRecord /\ r.kind = "condition_response" /\ r.status = s /\ Emitted(Append(sent, r), n)
      BY <1>3, <3>1, NewReceipt
    <3>3. Referring(Append(sent, r), n)
      BY <1>1, <3>2 DEF Referring
    <3>4. Rank[latest.kind] < Rank["condition_response"] /\ "condition_response" \in DOMAIN Rank
      BY <2>7 DEF Rank
    <3> QED
      BY <2>6, <3>2, <3>3, <3>4, EmissionExtended
  <2>8. CASE latest.kind = "condition_response" /\ r = Receipt("reevaluation", "none", "none")
             /\ latest.status = "approved"
    <3>1. OfKind(sent, {"condition_response"}) # {}
      BY <2>3, <2>8
    <3>2. r \in ReceiptRecord /\ r.kind = "reevaluation" /\ Emitted(Append(sent, r), n)
          /\ r.cond \in OfKind(sent, {"condition_response"})
      BY <1>3, <2>8, <3>1, NewReceipt
    <3>3. Referring(Append(sent, r), n)
      BY <1>1, <3>2 DEF Referring
    <3>4. Rank[latest.kind] < Rank["reevaluation"] /\ "reevaluation" \in DOMAIN Rank
      BY <2>8 DEF Rank
    <3>5. \A i \in OfKind(sent, {"condition_response"}) : i = LatestStep
      BY <2>1, <2>8, OneOfAKind DEF OfKind, latest
    <3>6. \A i \in OfKind(sent, {"condition_response"}) : sent[i].status = "approved"
      BY <2>8, <3>5 DEF latest
    <3> QED
      BY <2>6, <3>2, <3>3, <3>4, <3>6, EmissionExtended
  <2>9. CASE latest.kind \in {"condition_response", "reevaluation"}
             /\ \E d \in {"admitted", "refused"} : r = Receipt("terminal_admission", d, "none")
    <3>0. PICK d \in {"admitted", "refused"} : r = Receipt("terminal_admission", d, "none")
      BY <2>9
    <3>1. OfKind(sent, {"condition_response"}) # {}
      BY <2>2, <2>3, <2>9 DEF Referring, latest
    <3>2. r \in ReceiptRecord /\ r.kind = "terminal_admission" /\ r.disp = d /\ r.defer = 1
          /\ Emitted(Append(sent, r), n) /\ r.cond \in OfKind(sent, {"condition_response"})
      BY <1>3, <3>0, <3>1, NewReceipt
    <3>3. Referring(Append(sent, r), n)
      BY <1>1, <3>2 DEF Referring
    <3>4. Rank[latest.kind] < Rank["terminal_admission"] /\ "terminal_admission" \in DOMAIN Rank
      BY <2>9 DEF Rank
    <3> QED
      BY <2>6, <3>2, <3>3, <3>4, EmissionExtended
  <2>10. CASE latest.kind = "terminal_admission" /\ latest.disp = "admitted"
              /\ r = Receipt("execution_outcome", "none", "none")
    <3>1. OfKind(sent, {"terminal_admission"}) # {}
      BY <2>3, <2>10
    <3>2. r \in ReceiptRecord /\ r.kind = "execution_outcome" /\ r.defer = 1
          /\ Emitted(Append(sent, r), n) /\ r.term \in OfKind(sent, {"terminal_admission"})
      BY <1>3, <2>10, <3>1, NewReceipt
    <3>3. r.term \in DOMAIN sent /\ r.term = LatestStep
      BY <2>1, <2>10, <3>2, OneOfAKind DEF OfKind, latest
    <3>4. sent[r.term].disp = "admitted"
      BY <2>10, <3>3 DEF latest
    <3>5. Referring(Append(sent, r), n)
      BY <1>1, <3>2, <3>3, <3>4 DEF Referring
    <3>6. Rank[latest.kind] < Rank["execution_outcome"] /\ "execution_outcome" \in DOMAIN Rank
      BY <2>10 DEF Rank
    <3> QED
      BY <2>6, <3>2, <3>5, <3>6, EmissionExtended
  <2> QED
    BY <2>5, <2>7, <2>8, <2>9, <2>10
<1> QED
  BY <1>2, <1>3

\* The emission with a gap disclosed.
LEMMA GapKeepsEmission ==
  ASSUME Emission(sent), sent # <<>>
  PROVE  Emission(Append(sent, Receipt("receipt_gap", "none", "none")))
<1> DEFINE r == Receipt("receipt_gap", "none", "none")
           n == Len(sent) + 1
<1>1. r \in ReceiptRecord /\ r.kind = "receipt_gap" /\ Emitted(Append(sent, r), n)
  BY NewReceipt DEF ReceiptKinds, Dispositions, Statuses
<1>2. sent \in Seq(ReceiptRecord)
  BY DEF Emission
<1> HIDE DEF r
<1>3. Append(sent, r)[n] = r
  BY <1>1, <1>2
<1>4. Referring(Append(sent, r), n)
  BY <1>1, <1>3 DEF Referring
<1>5. Emission(Append(sent, r))
  BY <1>1, <1>4, EmissionExtended
<1> QED
  BY <1>5 DEF r

\* A fault keeps to the emission, unless it alters or adds something.
LEMMA FaultDeliveryInv ==
  ASSUME IInv, DeliveryInv, NEW list, NEW alters \in {0, 1}, Fault(list, alters),
         alters = 0 /\ altered = 0 => list \in Seq(Range(sent))
  PROVE  DeliveryInv'
<1>1. faults \in Nat /\ altered \in Nat
  BY BoundsAssumption DEF IInv, TypeOK
<1>2. faults' # 0 /\ (altered' = 0 => alters = 0 /\ altered = 0) /\ pc' = pc /\ sent' = sent /\ receipts' = list
      /\ pc = "deliver"
  BY <1>1 DEF Fault
<1> QED
  BY <1>2 DEF DeliveryInv

\* Every step keeps the emission well-formed and the delivery to it.
LEMMA NextDeliveryInv == IInv /\ DeliveryInv /\ [Next]_vars => DeliveryInv'
<1> SUFFICES ASSUME IInv, DeliveryInv, [Next]_vars PROVE DeliveryInv'
  OBVIOUS
<1>0. sent \in Seq(ReceiptRecord) /\ receipts \in Seq(ReceiptRecord) /\ Emission(sent)
  BY DEF IInv, TypeOK, DeliveryInv
<1>1. CASE Emit
  <2>1. PICK r \in NextReceipts : sent' = Append(sent, r)
    BY <1>1 DEF Emit
  <2>2. Emission(sent')
    BY <1>0, <2>1, EmitKeepsEmission
  <2> QED
    BY <1>1, <2>2 DEF Emit, DeliveryInv
<1>2. CASE EmitGap
  <2>1. Emission(sent')
    BY <1>0, <1>2, GapKeepsEmission DEF EmitGap
  <2> QED
    BY <1>2, <2>1 DEF EmitGap, DeliveryInv
<1>3. CASE Submit
  <2>1. sent \in Seq(Range(sent))
    BY <1>0 DEF Range
  <2> QED
    BY <1>3, <2>1 DEF Submit, DeliveryInv
<1>4. CASE Lose
  <2>1. PICK i \in DOMAIN receipts : Fault(RemoveAt(receipts, i), 0)
    BY <1>4 DEF Lose
  <2>2. altered = 0 => RemoveAt(receipts, i) \in Seq(Range(sent))
    <3> SUFFICES ASSUME altered = 0 PROVE RemoveAt(receipts, i) \in Seq(Range(sent))
      OBVIOUS
    <3>1. receipts \in Seq(Range(sent)) /\ receipts[i] \in Range(sent)
      BY DEF DeliveryInv
    <3> QED
      BY <3>1, FaultyList
  <2> QED
    BY <2>1, <2>2, FaultDeliveryInv
<1>5. CASE Repeat
  <2>1. PICK i \in DOMAIN receipts, j \in 1 .. Len(receipts) + 1 :
          Fault(InsertAt(receipts, j, receipts[i]), 0)
    BY <1>5 DEF Repeat
  <2>2. altered = 0 => InsertAt(receipts, j, receipts[i]) \in Seq(Range(sent))
    <3> SUFFICES ASSUME altered = 0 PROVE InsertAt(receipts, j, receipts[i]) \in Seq(Range(sent))
      OBVIOUS
    <3>1. receipts \in Seq(Range(sent)) /\ receipts[i] \in Range(sent)
      BY DEF DeliveryInv
    <3> QED
      BY <3>1, FaultyList
  <2> QED
    BY <2>1, <2>2, FaultDeliveryInv
<1>6. CASE Move
  <2>1. PICK i \in DOMAIN receipts, j \in DOMAIN receipts :
          Fault(InsertAt(RemoveAt(receipts, i), j, receipts[i]), 0)
    BY <1>6 DEF Move
  <2>2. altered = 0 => InsertAt(RemoveAt(receipts, i), j, receipts[i]) \in Seq(Range(sent))
    <3> SUFFICES ASSUME altered = 0
                 PROVE  InsertAt(RemoveAt(receipts, i), j, receipts[i]) \in Seq(Range(sent))
      OBVIOUS
    <3>1. receipts \in Seq(Range(sent))
      BY DEF DeliveryInv
    <3> QED
      BY <3>1, MovedList
  <2> QED
    BY <2>1, <2>2, FaultDeliveryInv
<1>7. CASE Intrude
  BY <1>7, FaultDeliveryInv DEF Intrude
<1>8. CASE Alter
  BY <1>8, FaultDeliveryInv DEF Alter
<1>9. CASE LoadFails \/ Verify \/ UNCHANGED vars
  <2>1. UNCHANGED <<sent, receipts, faults, altered>> /\ (pc' = pc \/ (pc = "deliver" /\ pc' = "done"))
    BY <1>9 DEF LoadFails, Verify, vars
  <2> QED
    BY <2>1 DEF DeliveryInv
<1> QED
  BY <1>1, <1>2, <1>3, <1>4, <1>5, <1>6, <1>7, <1>8, <1>9 DEF Next

\* The delivery invariant always holds.
LEMMA AlwaysDelivered == Spec => [](IInv /\ DeliveryInv)
<1>1. Init => DeliveryInv
  <2> SUFFICES ASSUME Init PROVE DeliveryInv
    OBVIOUS
  <2>1. Emission(sent)
    BY DEF Init, Emission, Ordered, Approved
  <2> QED
    BY <2>1 DEF Init, DeliveryInv
<1> QED
  BY <1>1, InitIInv, NextIInv, NextDeliveryInv, PTL DEF Spec

----------------------------------------------------------------------------
(* The checks accept the emission.                                         *)

\* No check has anything to say of an emission that reached its terminal admission.
LEMMA EmissionPasses ==
  ASSUME NEW s, Emission(s), Complete(s)
  PROVE  \A c \in Gating : Evaluate(s)[c] = "true"
<1>0. s \in Seq(ReceiptRecord) /\ Len(s) \in Nat /\ DOMAIN s = 1 .. Len(s)
  BY DEF Emission
<1>1. PICK t \in DOMAIN s : s[t].kind = "terminal_admission"
  BY DEF Complete
<1>2. 1 \in DOMAIN s /\ s # <<>> /\ s[1].kind = "defer_request" /\ s[1].rid = 1
  BY <1>0, <1>1 DEF Emission, Emitted
<1>3. \A k \in DOMAIN s : Emitted(s, k) /\ Referring(s, k)
  BY DEF Emission
<1>4. FirstOf(s, "defer_request") = 1 /\ OfKind(s, {"defer_request"}) # {}
  <2>1. 1 \in OfKind(s, {"defer_request"})
    BY <1>2 DEF OfKind
  <2>2. FirstOf(s, "defer_request") \in OfKind(s, {"defer_request"})
    BY <1>0, <2>1, FirstOfKind
  <2> QED
    BY <1>3, <2>1, <2>2 DEF OfKind, Emitted
<1>5. ASSUME NEW k \in OfKind(s, {"condition_response"})
      PROVE  FirstOf(s, "condition_response") = k /\ s[k].rid = k
  <2>1. FirstOf(s, "condition_response") \in OfKind(s, {"condition_response"})
    BY <1>0, <1>5, FirstOfKind
  <2> QED
    BY <1>3, <2>1, OneOfAKind DEF OfKind, Emitted
<1>6. PresenceCodes(s) = {} /\ TerminalCodes(s) = {}
  BY <1>1, <1>4 DEF PresenceCodes, TerminalCodes, OfKind
<1>7. SequenceIdCodes(s) = {}
  <2>1. \A i \in DOMAIN s : s[i].seq = 1
    BY <1>3 DEF Emitted
  <2>2. 1 \in {s[i].seq : i \in DOMAIN s} \ {0}
    BY <1>2, <2>1
  <2> QED
    BY <2>1, <2>2 DEF SequenceIdCodes
<1>8. PredecessorCodes(s) = {}
  <2>1. \A i \in DOMAIN s : i > 1 => i - 1 \in DOMAIN s /\ s[i].pred # 0 /\ s[i].pred = s[i - 1].rid
    BY <1>0, <1>3 DEF Emitted
  <2> QED
    BY <2>1 DEF PredecessorCodes
<1>9. DeferCodes(s) = {}
  <2>1. \A i \in OfKind(s, {"terminal_admission", "execution_outcome"}) : s[i].defer = 1
    BY <1>3 DEF OfKind, Referring
  <2> QED
    BY <1>2, <1>4, <2>1 DEF DeferCodes
<1>10. ConditionCodes(s) = {}
  <2>1. \A i \in OfKind(s, {"reevaluation", "terminal_admission"}) :
          s[i].cond \in OfKind(s, {"condition_response"})
    BY <1>3 DEF OfKind, Referring
  <2>2. \A i \in OfKind(s, {"reevaluation", "terminal_admission"}) :
          /\ s[i].cond \in DOMAIN s /\ s[i].cond # 0
          /\ s[FirstOf(s, "condition_response")].rid = s[i].cond
    BY <1>0, <1>5, <2>1 DEF OfKind
  <2> QED
    BY <2>1, <2>2 DEF ConditionCodes
<1>11. DigestCodes(s) = {}
  BY <1>3 DEF DigestCodes, OfKind, Emitted
<1>12. ExpiryCodes(s) = {}
  BY DEF ExpiryCodes, OfKind, Emission, Approved
<1>13. DispositionCodes(s) = {}
  BY <1>3 DEF DispositionCodes, OfKind, Referring
<1>14. \A i \in OfKind(s, {"execution_outcome"}) :
         /\ s[i].term \in OfKind(s, {"terminal_admission"}) /\ s[s[i].term].disp = "admitted"
         /\ s[s[i].term].rid = s[i].term /\ s[i].term # 0
  BY <1>0, <1>3 DEF OfKind, Referring, Emitted
<1>15. RefusedCodes(s) = {}
  <2> SUFFICES ASSUME NEW i \in OfKind(s, {"execution_outcome"}), s[i].term \in TerminalIds(s, "refused")
               PROVE  FALSE
    BY DEF RefusedCodes
  <2>1. PICK j \in OfKind(s, {"terminal_admission"}) : s[j].disp = "refused" /\ s[j].rid = s[i].term
    BY DEF TerminalIds
  <2>2. j = s[i].term
    BY <1>3, <2>1 DEF OfKind, Emitted
  <2> QED
    BY <1>14, <2>1, <2>2
<1>16. OutcomeCodes(s) = {}
  <2>1. \A i \in OfKind(s, {"execution_outcome"}) : s[i].term \in TerminalIds(s, "admitted")
    BY <1>14 DEF TerminalIds
  <2> QED
    BY <1>14, <2>1 DEF OutcomeCodes
<1>17. ReplayCodes(s) = {}
  BY <1>0, <1>3 DEF ReplayCodes, Emitted
<1>18. IndividualCodes(s) = {}
  <2> SUFFICES ASSUME NEW k \in DOMAIN s PROVE IndividuallyValid(s[k])
    BY DEF IndividualCodes
  <2>1. Emitted(s, k) /\ Referring(s, k)
    BY <1>3
  <2>2. k # 1 => s[k].pred # 0
    BY <1>0, <2>1 DEF Emitted
  <2>3. s[k].kind \in {"reevaluation", "terminal_admission"} => s[k].cond # 0
    BY <1>0, <2>1 DEF Referring, OfKind
  <2>4. s[k].kind = "execution_outcome" => s[k].term # 0
    BY <1>0, <2>1 DEF Referring, OfKind
  <2>5. RequiredMembers(s[k])
    BY <2>1, <2>2, <2>3, <2>4 DEF RequiredMembers, Emitted, Referring, ReceiptKinds
  <2> QED
    BY <2>1, <2>5 DEF IndividuallyValid, Emitted
<1>19. \A c \in Gating : Codes(s, c) = {}
  BY <1>6, <1>7, <1>8, <1>9, <1>10, <1>11, <1>12, <1>13, <1>15, <1>16, <1>17, <1>18 DEF Codes, Gating
<1> QED
  BY <1>2, <1>19 DEF Evaluate

\* A deferred operation that was delivered as it was emitted passes, in each of its forms
\* and with any number of gaps: the thirteen checks do not contradict one another.
THEOREM EmissionsPass == Spec => []HonestPasses
<1>1. ASSUME IInv, DeliveryInv PROVE HonestPasses
  <2> SUFFICES ASSUME Reported, faults = 0, Complete(sent) PROVE Passed
    BY DEF HonestPasses
  <2>1. receipts = sent /\ Emission(sent)
    BY <1>1 DEF DeliveryInv, Reported
  <2>2. conclusions = Evaluate(sent)
    BY <1>1, <2>1 DEF IInv, ReportInv
  <2> QED
    BY <2>1, <2>2, EmissionPasses DEF Passed
<1> QED
  BY <1>1, AlwaysDelivered, PTL

----------------------------------------------------------------------------
(* The checks catch what delivery does to an emission.                     *)

\* Two stretches of two lists are equal when they agree receipt by receipt.
LEMMA SameStretch ==
  ASSUME NEW S, NEW p \in Seq(S), NEW q \in Seq(S), NEW a \in Nat \ {0}, NEW b \in Nat \ {0},
         NEW n \in Nat, a + n - 1 <= Len(p), b + n - 1 <= Len(q),
         \A i \in 1 .. n : p[a + i - 1] = q[b + i - 1]
  PROVE  SubSeq(p, a, a + n - 1) = SubSeq(q, b, b + n - 1)
<1>1. /\ \A i \in a .. a + n - 1 : p[i] \in S
      /\ \A i \in b .. b + n - 1 : q[i] \in S
  OBVIOUS
<1> DEFINE u == SubSeq(p, a, a + n - 1)
           v == SubSeq(q, b, b + n - 1)
<1>2. u \in Seq(S) /\ Len(u) = n /\ \A i \in 1 .. n : u[i] = p[a + i - 1]
  BY <1>1, SubSeqProperties
<1>3. v \in Seq(S) /\ Len(v) = n /\ \A i \in 1 .. n : v[i] = q[b + i - 1]
  BY <1>1, SubSeqProperties
<1> HIDE DEF u, v
<1>4. u = v
  BY <1>2, <1>3, SeqEqual
<1> QED
  BY <1>4 DEF u, v

\* Ids that grow by one from position a on are determined by the first of them.  The first
\* position where they were not would follow one where they are.
LEMMA Consecutive ==
  ASSUME NEW id, NEW a \in Nat, NEW b \in Nat, \A i \in a .. b : id[i] \in Int,
         \A i \in a + 1 .. b : id[i] = id[i - 1] + 1
  PROVE  \A i \in a .. b : id[i] = id[a] + i - a
<1> DEFINE Bad == {i \in a .. b : id[i] # id[a] + i - a}
<1> SUFFICES ASSUME Bad # {} PROVE FALSE
  OBVIOUS
<1>1. Bad \subseteq Nat
  OBVIOUS
<1>2. PICK m \in Bad : \A j \in Bad : m <= j
  <2> HIDE DEF Bad
  <2> QED
    BY <1>1, LeastElement
<1>3. m \in a .. b /\ m # a /\ id[a] \in Int
  OBVIOUS
<1>4. m - 1 \in a .. b /\ m \in a + 1 .. b
  BY <1>3
<1>5. m - 1 \notin Bad
  <2> HIDE DEF Bad
  <2> QED
    BY <1>2, <1>4
<1>6. id[m - 1] = id[a] + (m - 1) - a /\ id[m] = id[m - 1] + 1
  BY <1>4, <1>5
<1> QED
  BY <1>3, <1>6

\* Unaltered receipts that pass the replay, presence and predecessor checks.
LEMMA PassingStretch ==
  ASSUME NEW s, Emission(s), NEW rs \in Seq(Range(s)), ReplayCodes(rs) = {}, PresenceCodes(rs) = {},
         PredecessorCodes(rs) = {}
  PROVE  LET d == FirstOf(rs, "defer_request")
         IN  /\ IsPrefix(SubSeq(rs, d, Len(rs)), s)
             /\ \E k \in 1 .. Len(s) : SubSeq(rs, 1, d - 1) = SubSeq(s, k, k + d - 2)
<1> DEFINE d == FirstOf(rs, "defer_request")
           id == [i \in DOMAIN rs |-> rs[i].rid]
<1>0. /\ s \in Seq(ReceiptRecord) /\ Len(s) \in Nat /\ DOMAIN s = 1 .. Len(s)
      /\ Len(rs) \in Nat /\ DOMAIN rs = 1 .. Len(rs)
  BY DEF Emission
<1>1. \A i \in DOMAIN rs :
        /\ id[i] \in 1 .. Len(s) /\ rs[i] = s[id[i]] /\ rs[i].pred = id[i] - 1
        /\ rs[i].kind = "defer_request" <=> id[i] = 1
  <2> SUFFICES ASSUME NEW i \in DOMAIN rs
               PROVE  /\ id[i] \in 1 .. Len(s) /\ rs[i] = s[id[i]] /\ rs[i].pred = id[i] - 1
                      /\ rs[i].kind = "defer_request" <=> id[i] = 1
    OBVIOUS
  <2>1. rs[i] \in Range(s)
    OBVIOUS
  <2>2. PICK k \in DOMAIN s : rs[i] = s[k]
    BY <2>1 DEF Range
  <2>3. Emitted(s, k)
    BY DEF Emission
  <2> QED
    BY <1>0, <2>2, <2>3 DEF Emitted
<1>2. rs \in Seq(ReceiptRecord)
  <2>1. Range(s) \subseteq ReceiptRecord
    BY <1>0 DEF Range
  <2> QED
    BY <2>1
<1>3. d \in DOMAIN rs /\ rs[d].kind = "defer_request" /\ id[d] = 1
  <2>1. FirstOf(rs, "defer_request") \in OfKind(rs, {"defer_request"})
    BY <1>2, FirstOfKind DEF PresenceCodes
  <2> QED
    BY <1>1, <2>1 DEF OfKind
<1> HIDE DEF d
<1>4. \A i \in DOMAIN rs : i # d => rs[i].kind # "defer_request"
  <2>1. \A i, j \in DOMAIN rs : i < j => rs[i].rid # rs[j].rid \/ rs[i].rid = 0
    BY DEF ReplayCodes
  <2> QED
    BY <1>0, <1>1, <1>3, <2>1
<1>5. \A i \in DOMAIN rs : i > 1 /\ i # d => id[i] = id[i - 1] + 1
  <2>1. \A i \in DOMAIN rs : i > 1 /\ i # d => rs[i].pred = rs[i - 1].rid
    BY <1>4 DEF PredecessorCodes
  <2>2. \A i \in DOMAIN rs : i > 1 => i - 1 \in DOMAIN rs
    BY <1>0
  <2> QED
    BY <1>1, <2>1, <2>2
<1> HIDE DEF id
<1>6. d \in Nat /\ 1 <= d /\ d <= Len(rs) /\ \A i \in DOMAIN rs : id[i] \in Int
  BY <1>0, <1>1, <1>3
<1>7. \A i \in d .. Len(rs) : id[i] = 1 + i - d
  <2>0. /\ \A i \in d .. Len(rs) : i \in DOMAIN rs
        /\ \A i \in d + 1 .. Len(rs) : i \in DOMAIN rs /\ i > 1 /\ i # d
    BY <1>0, <1>6
  <2>1. /\ \A i \in d .. Len(rs) : id[i] \in Int
        /\ \A i \in d + 1 .. Len(rs) : id[i] = id[i - 1] + 1
    BY <1>5, <1>6, <2>0
  <2>2. \A i \in d .. Len(rs) : id[i] = id[d] + i - d
    BY <1>0, <1>6, <2>1, Consecutive
  <2> QED
    BY <1>3, <2>2
<1>8. \A i \in 1 .. d - 1 : id[i] = id[1] + i - 1
  <2>0. /\ \A i \in 1 .. d - 1 : i \in DOMAIN rs
        /\ \A i \in 1 + 1 .. d - 1 : i \in DOMAIN rs /\ i > 1 /\ i # d
    BY <1>0, <1>6
  <2>1. /\ \A i \in 1 .. d - 1 : id[i] \in Int
        /\ \A i \in 1 + 1 .. d - 1 : id[i] = id[i - 1] + 1
    BY <1>5, <1>6, <2>0
  <2>2. 1 \in Nat /\ d - 1 \in Nat
    BY <1>6
  <2> QED
    BY <2>1, <2>2, Consecutive
<1>9. IsPrefix(SubSeq(rs, d, Len(rs)), s)
  <2> DEFINE n == Len(rs) - d + 1
             tail == SubSeq(rs, d, Len(rs))
  <2>1. n \in Nat /\ n <= Len(s) /\ 1 <= n
    BY <1>0, <1>1, <1>6, <1>7
  <2>2. \A i \in 1 .. n : rs[d + i - 1] = s[1 + i - 1]
    <3> SUFFICES ASSUME NEW i \in 1 .. n PROVE rs[d + i - 1] = s[i]
      OBVIOUS
    <3>1. d + i - 1 \in d .. Len(rs) /\ d + i - 1 \in DOMAIN rs
      BY <1>0, <1>6
    <3>2. id[d + i - 1] = i
      BY <1>6, <1>7, <3>1
    <3> QED
      BY <1>1, <3>1, <3>2
  <2>3. SubSeq(rs, d, d + n - 1) = SubSeq(s, 1, 1 + n - 1)
    BY <1>0, <1>2, <1>6, <2>1, <2>2, SameStretch
  <2>4. d + n - 1 = Len(rs) /\ 1 + n - 1 = n
    BY <1>0, <1>6
  <2>5. tail = SubSeq(s, 1, n)
    BY <2>3, <2>4
  <2>6. \A i \in 1 .. n : s[i] \in ReceiptRecord
    BY <1>0, <2>1
  <2>7. tail \in Seq(ReceiptRecord) /\ Len(tail) = n
    BY <2>1, <2>5, <2>6, SubSeqProperties
  <2>8. SubSeq(tail, 1, n) = tail
    <3> HIDE DEF tail, n
    <3>1. /\ SubSeq(tail, 1, n) \in Seq(ReceiptRecord) /\ Len(SubSeq(tail, 1, n)) = n
          /\ \A i \in 1 .. n : SubSeq(tail, 1, n)[i] = tail[i]
      <4>1. \A i \in 1 .. n : tail[i] \in ReceiptRecord
        BY <2>7
      <4> QED
        BY <2>1, <4>1, SubSeqProperties
    <3> QED
      BY <2>7, <3>1, SeqEqual
  <2> QED
    BY <2>1, <2>5, <2>7, <2>8 DEF IsPrefix
<1>10. \E k \in 1 .. Len(s) : SubSeq(rs, 1, d - 1) = SubSeq(s, k, k + d - 2)
  <2>1. CASE d = 1
    <3>1. SubSeq(rs, 1, 0) = <<>> /\ SubSeq(s, 1, 0) = <<>>
      BY SubSeqEmpty
    <3>2. d - 1 = 0 /\ 1 + d - 2 = 0 /\ 1 \in 1 .. Len(s)
      BY <1>0, <1>1, <1>3, <2>1
    <3> QED
      BY <3>1, <3>2
  <2>2. CASE d > 1
    <3> DEFINE k == id[1]
               n == d - 1
    <3>1. 1 \in DOMAIN rs /\ n \in 1 .. d - 1 /\ n \in DOMAIN rs /\ k \in 1 .. Len(s)
      BY <1>0, <1>1, <1>6, <2>2
    <3>2. k + n - 1 <= Len(s)
      BY <1>1, <1>8, <3>1
    <3>3. \A i \in 1 .. n : rs[1 + i - 1] = s[k + i - 1]
      <4> SUFFICES ASSUME NEW i \in 1 .. n PROVE rs[i] = s[k + i - 1]
        BY <1>6
      <4>1. i \in 1 .. d - 1 /\ i \in DOMAIN rs
        BY <1>0, <1>6
      <4> QED
        BY <1>1, <1>8, <4>1
    <3>4. n \in Nat /\ k \in Nat \ {0} /\ 1 + n - 1 <= Len(rs)
      BY <1>0, <1>6, <3>1
    <3> HIDE DEF k
    <3>5. SubSeq(rs, 1, 1 + n - 1) = SubSeq(s, k, k + n - 1)
      BY <1>0, <1>2, <3>2, <3>3, <3>4, SameStretch
    <3>6. 1 + n - 1 = d - 1 /\ k + n - 1 = k + d - 2
      BY <1>6, <3>4
    <3> QED
      BY <3>1, <3>5, <3>6
  <2> QED
    BY <1>6, <2>1, <2>2
<1> QED
  BY <1>9, <1>10 DEF d

\* However often unaltered receipts are lost, repeated or moved, a list that passes is, from
\* its defer_request on, an initial part of what was emitted, and one unbroken stretch
\* of it before that.
THEOREM DeliveryFaultsAreCaught == Spec => []DeliveryFaultsCaught
<1>1. ASSUME IInv, DeliveryInv PROVE DeliveryFaultsCaught
  <2> SUFFICES ASSUME Passed, altered = 0 PROVE DeliveryFaultsCaught
    BY DEF DeliveryFaultsCaught
  <2>1. \A c \in Gating : Evaluate(receipts)[c] = "true"
    BY <1>1 DEF IInv, ReportInv, Passed
  <2>2. \A c \in Gating : Codes(receipts, c) = {}
    BY <2>1 DEF Evaluate
  <2>3. Codes(receipts, "replay_clean") = {} /\ Codes(receipts, "event_presence") = {}
        /\ Codes(receipts, "predecessor_linkage") = {}
    BY <2>2 DEF Gating
  <2>4. ReplayCodes(receipts) = {} /\ PresenceCodes(receipts) = {} /\ PredecessorCodes(receipts) = {}
    BY <2>3 DEF Codes
  <2>5. Emission(sent) /\ receipts \in Seq(Range(sent))
    BY <1>1 DEF DeliveryInv
  <2> QED
    BY <2>4, <2>5, PassingStretch DEF DeliveryFaultsCaught
<1> QED
  BY <1>1, AlwaysDelivered, PTL
=============================================================================
