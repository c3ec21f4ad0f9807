--------------------------- MODULE ReceiptLinkage ---------------------------
(***************************************************************************)
(* What admission/outcome linkage means for a list of receipts, stated     *)
(* without loops or dictionaries.  ReceiptSet computes it step by step;    *)
(* Receiver uses it.                                                       *)
(***************************************************************************)
EXTENDS Integers, Sequences

CONSTANT None   \* no receipt id (absent, empty or not a string), no reference

\* The receipts the linker considers: each id's first carrier.
KeptIndexes(rs) ==
  {i \in DOMAIN rs : /\ rs[i].rid # None
                     /\ \A j \in DOMAIN rs : j < i => rs[j].rid # rs[i].rid}

\* The admissions receipt i refers to; at most one, ids being unique.
ReferencedAdmissions(rs, i) ==
  {j \in KeptIndexes(rs) : rs[j].rid = rs[i].ref /\ rs[j].kind = "admission"}

\* The linkage codes of receipt i.
LinkageCodes(rs, i) ==
  IF i \notin KeptIndexes(rs) \/ rs[i].kind # "outcome" THEN {}
  ELSE IF ReferencedAdmissions(rs, i) = {} THEN {"admission_receipt_unresolved"}
  ELSE IF \E j \in ReferencedAdmissions(rs, i) : rs[j].call # rs[i].call
         THEN {"admission_outcome_linkage_mismatch"} ELSE {}
=============================================================================
