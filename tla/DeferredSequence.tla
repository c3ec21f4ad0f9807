-------------------------- MODULE DeferredSequence --------------------------
(***************************************************************************)
(* arcs_verify/deferred_sequence.py: the checks verify_deferred_sequence   *)
(* makes of a list of receipts, one operator per conclusion of the report. *)
(* Each returns the codes of the findings; a conclusion is TRUE when there *)
(* are none.                                                               *)
(*                                                                         *)
(* Receipt ids are numbers, 0 being an absent member and -1 one that is    *)
(* not hashable (a list, an object).  `conform' stands for what            *)
(* verify_receipt finds of the envelope, of raw content, of attestation    *)
(* limits and of the profile members no sequence check looks at;           *)
(* `mistyped' for a member on which it raises.  The signature does not     *)
(* matter here: the sequence report does not gate on it.                   *)
(***************************************************************************)
EXTENDS Integers, Sequences

ReceiptKinds ==
  {"defer_request", "condition_response", "reevaluation", "terminal_admission",
   "execution_outcome", "receipt_gap"}

Kinds == ReceiptKinds \cup {"other"}
Dispositions == {"admitted", "refused", "deferred_for_review", "none"}
Statuses == {"approved", "rejected", "expired", "none"}

ReceiptRecord ==
  [rid : Int, kind : Kinds, seq : Int, pred : Int, defer : Int, cond : Int, term : Int,
   disp : Dispositions, status : Statuses, digest : BOOLEAN, conform : BOOLEAN,
   mistyped : BOOLEAN]

\* The receipts of one kind, and the first of them, as positions.
OfKind(rs, kinds) == {i \in DOMAIN rs : rs[i].kind \in kinds}

FirstOf(rs, kind) ==
  CHOOSE i \in OfKind(rs, {kind}) : \A j \in OfKind(rs, {kind}) : i <= j

\* The refs, digest, disposition and status _deferred_operation_profile_errors
\* requires of each kind.
RequiredMembers(r) ==
  CASE r.kind = "defer_request" -> r.digest /\ r.disp = "deferred_for_review"
    [] r.kind = "condition_response" ->
         r.pred # 0 /\ r.status \in {"approved", "rejected", "expired"}
    [] r.kind = "reevaluation" -> r.pred # 0 /\ r.cond # 0 /\ r.digest
    [] r.kind = "terminal_admission" ->
         r.pred # 0 /\ r.cond # 0 /\ r.defer # 0 /\ r.digest /\ r.disp \in {"admitted", "refused"}
    [] r.kind = "execution_outcome" -> r.pred # 0 /\ r.defer # 0 /\ r.term # 0 /\ r.digest
    [] OTHER -> TRUE

\* The four flags of the receipt's own report that the sequence gates on.
IndividuallyValid(r) ==
  r.conform /\ r.kind \in ReceiptKinds /\ r.seq # 0 /\ RequiredMembers(r)

ReplayCodes(rs) ==
  (IF \E i \in DOMAIN rs : rs[i].rid = 0 THEN {"receipt_missing_receipt_id"} ELSE {}) \cup
  (IF \E i, j \in DOMAIN rs : i < j /\ rs[i].rid = rs[j].rid /\ rs[i].rid # 0
     THEN {"duplicate_receipt_id"} ELSE {})

IndividualCodes(rs) ==
  IF \A i \in DOMAIN rs : IndividuallyValid(rs[i]) THEN {} ELSE {"individual_receipt_invalid"}

PresenceCodes(rs) ==
  IF OfKind(rs, {"defer_request"}) # {} THEN {} ELSE {"no_defer_request"}

\* Exactly one value among the sequence ids that are strings.
SequenceIdCodes(rs) ==
  IF \E s \in {rs[i].seq : i \in DOMAIN rs} \ {0} :
       \A i \in DOMAIN rs : rs[i].seq \in {0, s}
    THEN {} ELSE {"sequence_id_discontinuity"}

\* Mutant: the reference has to resolve to a receipt of the set, any one.
PredecessorCodesAnyReceipt(rs) ==
  LET checked == {i \in DOMAIN rs : i > 1 /\ rs[i].kind # "defer_request"}
  IN (IF \E i \in checked : rs[i].pred = 0 THEN {"missing_predecessor_receipt_ref"} ELSE {}) \cup
     (IF \E i \in checked : rs[i].pred # 0 /\ \A j \in DOMAIN rs : rs[i].pred # rs[j].rid
        THEN {"predecessor_ref_mismatch"} ELSE {})

\* From the second receipt on, defer_requests skipped.
PredecessorCodes(rs) ==
  LET checked == {i \in DOMAIN rs : i > 1 /\ rs[i].kind # "defer_request"}
  IN (IF \E i \in checked : rs[i].pred = 0 THEN {"missing_predecessor_receipt_ref"} ELSE {}) \cup
     (IF \E i \in checked : rs[i].pred # 0 /\ rs[i].pred # rs[i - 1].rid
        THEN {"predecessor_ref_mismatch"} ELSE {})

\* Mutant: a reevaluation has to refer to the defer_request as well.
DeferCodesOfReevaluation(rs) ==
  LET bound == OfKind(rs, {"reevaluation", "terminal_admission", "execution_outcome"})
      defers == OfKind(rs, {"defer_request"})
  IN (IF \E i \in bound : rs[i].defer = 0 THEN {"missing_defer_receipt_ref"} ELSE {}) \cup
     (IF defers # {} /\ rs[FirstOf(rs, "defer_request")].rid # 0
         /\ \E i \in bound : rs[i].defer \notin {0, rs[FirstOf(rs, "defer_request")].rid}
        THEN {"defer_receipt_ref_mismatch"} ELSE {})

DeferCodes(rs) ==
  LET bound == OfKind(rs, {"terminal_admission", "execution_outcome"})
      defers == OfKind(rs, {"defer_request"})
  IN (IF \E i \in bound : rs[i].defer = 0 THEN {"missing_defer_receipt_ref"} ELSE {}) \cup
     (IF defers # {} /\ rs[FirstOf(rs, "defer_request")].rid # 0
         /\ \E i \in bound : rs[i].defer \notin {0, rs[FirstOf(rs, "defer_request")].rid}
        THEN {"defer_receipt_ref_mismatch"} ELSE {})

ConditionCodes(rs) ==
  LET bound == OfKind(rs, {"reevaluation", "terminal_admission"})
      conditions == OfKind(rs, {"condition_response"})
  IN (IF \E i \in bound : rs[i].cond = 0 THEN {"missing_condition_receipt_ref"} ELSE {}) \cup
     (IF conditions # {} /\ rs[FirstOf(rs, "condition_response")].rid # 0
         /\ \E i \in bound : rs[i].cond \notin {0, rs[FirstOf(rs, "condition_response")].rid}
        THEN {"condition_receipt_ref_mismatch"} ELSE {}) \cup
     (IF bound # {} /\ conditions = {} THEN {"condition_response_absent"} ELSE {})

DigestCodes(rs) ==
  IF \E i \in OfKind(rs, {"defer_request", "reevaluation", "terminal_admission",
                          "execution_outcome"}) : ~rs[i].digest
    THEN {"missing_operation_digest"} ELSE {}

ExpiryCodes(rs) ==
  IF /\ \E i \in OfKind(rs, {"condition_response"}) : rs[i].status = "expired"
     /\ OfKind(rs, {"reevaluation"}) # {}
    THEN {"expired_condition_followed_by_reevaluation"} ELSE {}

TerminalCodes(rs) ==
  IF OfKind(rs, {"terminal_admission"}) = {} THEN {"no_terminal_admission"} ELSE {}

DispositionCodes(rs) ==
  IF \E i \in OfKind(rs, {"terminal_admission"}) : rs[i].disp \notin {"admitted", "refused"}
    THEN {"terminal_admission_invalid_disposition"} ELSE {}

\* refused_ids and admitted_ids
TerminalIds(rs, disposition) ==
  {rs[i].rid : i \in {j \in OfKind(rs, {"terminal_admission"}) : rs[j].disp = disposition}}

\* Mutant: the refused terminals are collected under another disposition.
RefusedCodesWrongSet(rs) ==
  IF \E i \in OfKind(rs, {"execution_outcome"}) :
       rs[i].term \in TerminalIds(rs, "deferred_for_review")
    THEN {"execution_outcome_after_refused_terminal"} ELSE {}

RefusedCodes(rs) ==
  IF \E i \in OfKind(rs, {"execution_outcome"}) : rs[i].term \in TerminalIds(rs, "refused")
    THEN {"execution_outcome_after_refused_terminal"} ELSE {}

OutcomeCodes(rs) ==
  LET outcomes == OfKind(rs, {"execution_outcome"})
      terminals == TerminalIds(rs, "admitted") \cup TerminalIds(rs, "refused")
  IN (IF \E i \in outcomes : rs[i].term = 0
        THEN {"execution_outcome_missing_terminal_admission_ref"} ELSE {}) \cup
     (IF \E i \in outcomes : rs[i].term # 0 /\ rs[i].term \notin terminals
        THEN {"execution_outcome_terminal_ref_unresolved"} ELSE {})

\* The conclusions that gate `passed', and the informational one.
Gating ==
  {"event_presence", "sequence_id_continuity", "predecessor_linkage", "defer_receipt_linkage",
   "condition_receipt_linkage", "operation_digest_continuity", "response_expiry_honoured",
   "terminal_state_present", "terminal_disposition_valid", "refused_has_no_execution_outcome",
   "outcome_links_admitted_terminal", "replay_clean", "individual_receipts_valid"}

Codes(rs, conclusion) ==
  CASE conclusion = "event_presence" -> PresenceCodes(rs)
    [] conclusion = "sequence_id_continuity" -> SequenceIdCodes(rs)
    [] conclusion = "predecessor_linkage" -> PredecessorCodes(rs)
    [] conclusion = "defer_receipt_linkage" -> DeferCodes(rs)
    [] conclusion = "condition_receipt_linkage" -> ConditionCodes(rs)
    [] conclusion = "operation_digest_continuity" -> DigestCodes(rs)
    [] conclusion = "response_expiry_honoured" -> ExpiryCodes(rs)
    [] conclusion = "terminal_state_present" -> TerminalCodes(rs)
    [] conclusion = "terminal_disposition_valid" -> DispositionCodes(rs)
    [] conclusion = "refused_has_no_execution_outcome" -> RefusedCodes(rs)
    [] conclusion = "outcome_links_admitted_terminal" -> OutcomeCodes(rs)
    [] conclusion = "replay_clean" -> ReplayCodes(rs)
    [] conclusion = "individual_receipts_valid" -> IndividualCodes(rs)

\* The report's gating conclusions; an empty list makes all of them FALSE.
Evaluate(rs) ==
  [c \in Gating |-> IF rs # <<>> /\ Codes(rs, c) = {} THEN "true" ELSE "false"]

GapDisclosed(rs) == IF OfKind(rs, {"receipt_gap"}) # {} THEN "true" ELSE "false"

Findings(rs) ==
  IF rs = <<>> THEN {"sequence_empty_or_malformed"} ELSE UNION {Codes(rs, c) : c \in Gating}

\* verify_receipt raises, or an outcome's terminal reference cannot be looked
\* up in refused_ids; nothing catches either.
VerifyRaises(rs) ==
  \E i \in DOMAIN rs : rs[i].mistyped \/ (rs[i].kind = "execution_outcome" /\ rs[i].term = -1)
=============================================================================
