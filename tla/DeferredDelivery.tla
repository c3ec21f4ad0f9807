-------------------------- MODULE DeferredDelivery --------------------------
(***************************************************************************)
(* A deferred operation emits its receipts; what reaches the verifier may  *)
(* have lost, repeated or moved some, contain receipts of other origin or  *)
(* altered members; then deferred_sequence.py's main verifies the list.    *)
(* Emission and delivery are external: the repository verifies receipts,   *)
(* and "ordering is the caller's responsibility".                          *)
(***************************************************************************)
EXTENDS DeferredSequence, SequencesExt

CONSTANTS
  Stray,               \* receipts of other origin that may turn up in the list
  Alterations(_),      \* what one alteration may make of a receipt
  MaxGaps,             \* bound on receipt_gap receipts in one emission
  MaxFaults,           \* bound on faults of any kind
  MaxAlterations       \* bound on alterations and strays among them

ASSUME StrayAssumption == Stray \subseteq ReceiptRecord

ASSUME BoundsAssumption == MaxGaps \in Nat /\ MaxFaults \in Nat /\ MaxAlterations \in Nat

VARIABLES
  pc,                  \* "emit", "deliver", "done"
  sent,                \* what the operation emitted
  receipts,            \* what the verifier is given
  faults, altered,     \* faults so far; alterations and strays among them
  conclusions,         \* the report's gating conclusions
  receipt_gap_disclosed,
  findings,
  exit                 \* exit status, -1 before the end

vars == <<pc, sent, receipts, faults, altered, conclusions, receipt_gap_disclosed, findings,
          exit>>

verdict == <<conclusions, receipt_gap_disclosed, findings, exit>>

Init ==
  /\ pc = "emit" /\ sent = <<>> /\ receipts = <<>> /\ faults = 0 /\ altered = 0
  /\ conclusions = [c \in Gating |-> "not_evaluated"]
  /\ receipt_gap_disclosed = "not_evaluated" /\ findings = {} /\ exit = -1

----------------------------------------------------------------------------
(* The emitting operation: ids count up, so a receipt's id is its position. *)

Steps == OfKind(sent, Kinds \ {"receipt_gap"})
LatestStep == CHOOSE i \in Steps : \A j \in Steps : j <= i

Receipt(kind, disp, status) ==
  LET first(k) == IF OfKind(sent, {k}) = {} THEN 0 ELSE FirstOf(sent, k)
  IN [rid |-> Len(sent) + 1, kind |-> kind, seq |-> 1, pred |-> Len(sent),
      defer |-> IF kind \in {"terminal_admission", "execution_outcome"}
                  THEN first("defer_request") ELSE 0,
      cond |-> IF kind \in {"reevaluation", "terminal_admission"}
                 THEN first("condition_response") ELSE 0,
      term |-> IF kind = "execution_outcome" THEN first("terminal_admission") ELSE 0,
      disp |-> disp, status |-> status,
      digest |-> kind # "condition_response", conform |-> TRUE, mistyped |-> FALSE]

\* The receipt that comes next: a deferral, the response to it, for an
\* approval the reevaluation, the terminal admission, its outcome.
NextReceipts ==
  IF sent = <<>> THEN {Receipt("defer_request", "deferred_for_review", "none")}
  ELSE LET r == sent[LatestStep] IN
    CASE r.kind = "defer_request" ->
           {Receipt("condition_response", "none", s) : s \in {"approved", "rejected", "expired"}}
      [] r.kind = "condition_response" /\ r.status = "approved" ->
           {Receipt("reevaluation", "none", "none")}
      [] r.kind = "condition_response" /\ r.status # "approved" ->
           {Receipt("terminal_admission", "refused", "none")}
      [] r.kind = "reevaluation" ->
           {Receipt("terminal_admission", d, "none") : d \in {"admitted", "refused"}}
      [] r.kind = "terminal_admission" /\ r.disp = "admitted" ->
           {Receipt("execution_outcome", "none", "none")}
      [] OTHER -> {}

Emit ==
  /\ pc = "emit"
  /\ \E r \in NextReceipts : sent' = Append(sent, r)
  /\ UNCHANGED <<pc, receipts, faults, altered, verdict>>

EmitGap ==
  /\ pc = "emit" /\ sent # <<>>
  /\ Cardinality(OfKind(sent, {"receipt_gap"})) < MaxGaps
  /\ sent' = Append(sent, Receipt("receipt_gap", "none", "none"))
  /\ UNCHANGED <<pc, receipts, faults, altered, verdict>>

Submit ==
  /\ pc = "emit" /\ pc' = "deliver" /\ receipts' = sent
  /\ UNCHANGED <<sent, faults, altered, verdict>>

Fault(list, alters) ==
  /\ pc = "deliver" /\ faults < MaxFaults /\ altered + alters <= MaxAlterations
  /\ receipts' = list /\ faults' = faults + 1 /\ altered' = altered + alters
  /\ UNCHANGED <<pc, sent, verdict>>

Lose == \E i \in DOMAIN receipts : Fault(RemoveAt(receipts, i), 0)

Repeat ==
  \E i \in DOMAIN receipts, j \in 1 .. Len(receipts) + 1 :
    Fault(InsertAt(receipts, j, receipts[i]), 0)

Move ==
  \E i, j \in DOMAIN receipts : i # j /\ Fault(InsertAt(RemoveAt(receipts, i), j, receipts[i]), 0)

Intrude ==
  \E r \in Stray, j \in 1 .. Len(receipts) + 1 : Fault(InsertAt(receipts, j, r), 1)

Alter ==
  \E i \in DOMAIN receipts : \E r \in Alterations(receipts[i]) \cap ReceiptRecord :
    Fault(ReplaceAt(receipts, i, r), 1)

----------------------------------------------------------------------------
\* main: an input it cannot read or parse is exit 2, one that is not UTF-8
\* is not among the exceptions it catches.
LoadFails ==
  /\ pc = "deliver" /\ pc' = "done" /\ exit' \in {1, 2}
  /\ UNCHANGED <<sent, receipts, faults, altered, conclusions, receipt_gap_disclosed, findings>>

\* main and verify_deferred_sequence; an exception leaves no report.
Verify ==
  /\ pc = "deliver" /\ pc' = "done"
  /\ IF VerifyRaises(receipts)
       THEN exit' = 1 /\ UNCHANGED <<conclusions, receipt_gap_disclosed, findings>>
       ELSE /\ conclusions' = Evaluate(receipts)
            /\ receipt_gap_disclosed' = GapDisclosed(receipts)
            /\ findings' = Findings(receipts)
            /\ exit' = IF \A c \in Gating : Evaluate(receipts)[c] = "true" THEN 0 ELSE 1
  /\ UNCHANGED <<sent, receipts, faults, altered>>

Next ==
  \/ Emit \/ EmitGap \/ Submit
  \/ Lose \/ Repeat \/ Move \/ Intrude \/ Alter
  \/ LoadFails \/ Verify

Spec == Init /\ [][Next]_vars

----------------------------------------------------------------------------
(* What is checked.                                                        *)

Reported == pc = "done" /\ receipt_gap_disclosed # "not_evaluated"
Passed == Reported /\ \A c \in Gating : conclusions[c] = "true"

\* A report leaves no conclusion unevaluated, and the exit status is 0 just
\* when it passed; without a report it is never 0 ("NOT_EVALUATED is not
\* PASS").
TypeOK ==
  /\ pc \in {"emit", "deliver", "done"}
  /\ sent \in Seq(ReceiptRecord) /\ receipts \in Seq(ReceiptRecord)
  /\ Reported => conclusions \in [Gating -> {"true", "false"}]
  /\ exit = 0 <=> Passed
  /\ pc = "done" <=> exit # -1
  /\ faults \in 0 .. MaxFaults /\ altered \in 0 .. MaxAlterations

Complete(rs) == \E i \in DOMAIN rs : rs[i].kind = "terminal_admission"

\* What the operation emitted passes as it is, in each of its forms
\* (approved, rejected, expired, admitted, refused, with gaps), from its
\* terminal admission on: the checks do not contradict one another.
HonestPasses == Reported /\ faults = 0 /\ Complete(sent) => Passed

\* Loss, repetition and reordering of unaltered receipts, through the replay,
\* linkage and presence checks together: from the defer_request on, a list
\* that passes is an initial part of the emission, and what stands before the
\* defer_request is one unbroken stretch of it.  A list that begins with the
\* defer_request has therefore lost nothing but its end.
DeliveryFaultsCaught ==
  Passed /\ altered = 0 =>
    LET d == FirstOf(receipts, "defer_request")
    IN /\ IsPrefix(SubSeq(receipts, d, Len(receipts)), sent)
       /\ \E k \in 1 .. Len(sent) : SubSeq(receipts, 1, d - 1) = SubSeq(sent, k, k + d - 2)

\* In a list that passed, whatever was altered, every execution_outcome
\* refers to exactly one receipt, which is an admitted terminal_admission of
\* the same sequence bound to the same defer_request and to a
\* condition_response of the list.
OutcomeRestsOnAdmission ==
  Passed =>
    \A i \in OfKind(receipts, {"execution_outcome"}) :
      \E t \in OfKind(receipts, {"terminal_admission"}) :
        /\ receipts[t].disp = "admitted"
        /\ {j \in DOMAIN receipts : receipts[j].rid = receipts[i].term} = {t}
        /\ receipts[t].seq = receipts[i].seq /\ receipts[t].defer = receipts[i].defer
        /\ \E d \in OfKind(receipts, {"defer_request"}) : receipts[d].rid = receipts[t].defer
        /\ \E c \in OfKind(receipts, {"condition_response"}) : receipts[c].rid = receipts[t].cond

=============================================================================
