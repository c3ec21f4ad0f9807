----------------------------- MODULE ReceiptSet -----------------------------
(***************************************************************************)
(* receipt_set.verify_receipt_set and the exit status its main returns:    *)
(* a workflow index lists receipt files by path and digest; each is read,  *)
(* verified on its own, and outcomes are linked to their admissions.       *)
(*                                                                         *)
(* A receipt is abstracted to its id, kind, admission_receipt_ref,         *)
(* logical_call_id and to what verify_receipt does with it: pass, fail, or *)
(* raise.  Files and digests are abstracted to what reading them gives.    *)
(***************************************************************************)
EXTENDS ReceiptLinkage, FiniteSets

CONSTANT Workflows     \* the workflow indexes considered

LinkageErrors == {"admission_receipt_unresolved", "admission_outcome_linkage_mismatch"}

EntryErrors ==
  {"receipt_entry_invalid", "receipt_integrity_failed", "receipt_id_missing", "duplicate_receipt_id"}

\* The entries of an index are a list; None is no status and no code.
ASSUME WorkflowsAssumption ==
  \A w \in Workflows : Len(w.entries) \in Nat /\ DOMAIN w.entries = 1 .. Len(w.entries)
ASSUME NoneAssumption == None \notin {0, 1} /\ None \notin LinkageErrors \cup EntryErrors

VARIABLES
  step,
  workflow,               \* the index; never written
  at,                     \* the entry, then the receipt, the loops are at
  manifest_integrity, receipt_linkage_valid,
  receipts,               \* the receipts kept for linkage, in order
  reports,                \* passed flags of receipt_reports, in order
  seen_paths, seen_ids,
  by_id,                  \* receipt id -> receipt
  findings,               \* set of <<code, position>>
  status

flags == <<manifest_integrity, receipt_linkage_valid>>
loop == <<receipts, reports, seen_paths, seen_ids, by_id>>
set_vars == <<step, workflow, at, flags, loop, findings, status>>

SetInit ==
  /\ step = "load" /\ workflow \in Workflows /\ at = 1
  /\ manifest_integrity = TRUE /\ receipt_linkage_valid = TRUE
  /\ receipts = <<>> /\ reports = <<>>
  /\ seen_paths = {} /\ seen_ids = {} /\ by_id = <<>>
  /\ findings = {} /\ status = None

\* ReceiptSetReport.passed
Passed ==
  /\ manifest_integrity /\ receipt_linkage_valid
  /\ reports # <<>> /\ \A i \in DOMAIN reports : reports[i]

\* Nothing catches an exception of the loops: the interpreter exits 1.
Raise ==
  /\ step' = "raised" /\ status' = 1
  /\ UNCHANGED <<workflow, at, flags, loop, findings>>

\* A check on the index that must hold: go on, or return with one finding.
CheckIndex(from, to, holds, code) ==
  /\ step = from
  /\ IF holds
       THEN step' = to /\ UNCHANGED <<manifest_integrity, findings, status>>
       ELSE /\ step' = "returned" /\ status' = 1
            /\ manifest_integrity' = FALSE
            /\ findings' = findings \cup {<<code, 0>>}
  /\ UNCHANGED <<workflow, at, receipt_linkage_valid, loop>>

LoadWorkflow == CheckIndex("load", "schema", workflow.readable, "workflow_unreadable")

\* The schema member is looked up in a frozenset: a JSON array or object is
\* unhashable and raises.
CheckWorkflowSchema ==
  \/ step = "schema" /\ workflow.schema = "unhashable" /\ Raise
  \/ /\ workflow.schema # "unhashable"
     /\ CheckIndex("schema", "shape", workflow.schema = "supported",
                   "unsupported_workflow_schema")

CheckShape == CheckIndex("shape", "trust", workflow.shape_valid, "workflow_shape_invalid")

CheckTrustBundle ==
  CheckIndex("trust", "entries", workflow.trust_intact, "trust_bundle_integrity_failed")

\* The first test of the loop body that entry e fails, None if it passes all.
EntryError(e) ==
  CASE ~e.object -> "receipt_entry_invalid"
    [] e.object /\ (~e.safe \/ e.path \in seen_paths \/ e.file # "object") ->
         "receipt_integrity_failed"
    [] e.object /\ e.safe /\ e.path \notin seen_paths /\ e.file = "object"
         /\ e.receipt.rid = None -> "receipt_id_missing"
    [] e.object /\ e.safe /\ e.path \notin seen_paths /\ e.file = "object"
         /\ e.receipt.rid # None /\ e.receipt.rid \in seen_ids -> "duplicate_receipt_id"
    [] OTHER -> None

\* Mutant: a repeated receipt id is skipped without a finding.
SkipEntrySilently ==
  /\ step = "entries" /\ at <= Len(workflow.entries)
  /\ LET e == workflow.entries[at] IN
     /\ EntryError(e) # None
     /\ manifest_integrity' = (manifest_integrity /\ EntryError(e) = "duplicate_receipt_id")
     /\ findings' = IF EntryError(e) = "duplicate_receipt_id" THEN findings
                    ELSE findings \cup {<<EntryError(e), at>>}
     /\ seen_paths' = IF e.object /\ e.safe THEN seen_paths \cup {e.path} ELSE seen_paths
  /\ at' = at + 1
  /\ UNCHANGED <<step, workflow, receipt_linkage_valid, receipts, reports, seen_ids, by_id, status>>

\* An entry that fails a test is reported and skipped.  Its path counts as
\* seen as soon as it is known to be safe, whatever the file turns out to be.
SkipEntry ==
  /\ step = "entries" /\ at <= Len(workflow.entries)
  /\ LET e == workflow.entries[at] IN
     /\ EntryError(e) # None
     /\ manifest_integrity' = FALSE
     /\ findings' = findings \cup {<<EntryError(e), at>>}
     /\ seen_paths' = IF e.object /\ e.safe THEN seen_paths \cup {e.path} ELSE seen_paths
  /\ at' = at + 1
  /\ UNCHANGED <<step, workflow, receipt_linkage_valid, receipts, reports, seen_ids, by_id, status>>

\* A sound entry is verified; verify_receipt may raise.
VerifyEntry ==
  /\ step = "entries" /\ at <= Len(workflow.entries)
  /\ LET e == workflow.entries[at] IN
     /\ EntryError(e) = None
     /\ \/ e.receipt.verdict = "raise" /\ Raise
        \/ /\ e.receipt.verdict # "raise"
           /\ seen_paths' = seen_paths \cup {e.path}
           /\ seen_ids' = seen_ids \cup {e.receipt.rid}
           /\ reports' = Append(reports, e.receipt.verdict = "pass")
           /\ receipts' = Append(receipts, e.receipt)
           /\ at' = at + 1
           /\ UNCHANGED <<step, workflow, flags, by_id, findings, status>>

\* by_id is built from all the receipts once the loop is over.
IndexReceipts ==
  /\ step = "entries" /\ at > Len(workflow.entries)
  /\ by_id' = [id \in {receipts[i].rid : i \in DOMAIN receipts} |->
                 receipts[CHOOSE i \in DOMAIN receipts : receipts[i].rid = id]]
  /\ step' = "linkage" /\ at' = 1
  /\ UNCHANGED <<workflow, flags, receipts, reports, seen_paths, seen_ids, findings, status>>

\* Mutant: any receipt carrying the referenced id will do.
LinkCodeAnyKind(r) ==
  IF r.ref \notin DOMAIN by_id THEN "admission_receipt_unresolved"
  ELSE IF by_id[r.ref].call # r.call THEN "admission_outcome_linkage_mismatch"
  ELSE None

\* The code one outcome earns against by_id; an unhashable reference raises.
LinkCode(r) ==
  IF r.ref \notin DOMAIN by_id THEN "admission_receipt_unresolved"
  ELSE IF by_id[r.ref].kind # "admission" THEN "admission_receipt_unresolved"
  ELSE IF by_id[r.ref].call # r.call THEN "admission_outcome_linkage_mismatch"
  ELSE None

LinkReceipt ==
  /\ step = "linkage" /\ at <= Len(receipts)
  /\ LET r == receipts[at] IN
     \/ r.kind = "outcome" /\ r.ref = "unhashable" /\ Raise
     \/ /\ r.kind # "outcome" \/ LinkCode(r) = None
        /\ ~(r.kind = "outcome" /\ r.ref = "unhashable")
        /\ at' = at + 1
        /\ UNCHANGED <<step, workflow, flags, loop, findings, status>>
     \/ /\ r.kind = "outcome" /\ r.ref # "unhashable" /\ LinkCode(r) # None
        /\ receipt_linkage_valid' = FALSE
        /\ findings' = findings \cup {<<LinkCode(r), r.rid>>}
        /\ at' = at + 1
        /\ UNCHANGED <<step, workflow, manifest_integrity, loop, status>>

\* `return report', then main's `return 0 if report.passed else 1'.
ReturnReport ==
  /\ step = "linkage" /\ at > Len(receipts)
  /\ step' = "returned"
  /\ status' = IF Passed THEN 0 ELSE 1
  /\ UNCHANGED <<workflow, at, flags, loop, findings>>

SetNext ==
  \/ LoadWorkflow
  \/ CheckWorkflowSchema
  \/ CheckShape
  \/ CheckTrustBundle
  \/ SkipEntry
  \/ VerifyEntry
  \/ IndexReceipts
  \/ LinkReceipt
  \/ ReturnReport

SetSpec == SetInit /\ [][SetNext]_set_vars

----------------------------------------------------------------------------
(* What is checked.                                                        *)

\* Shape of the report: every verified receipt has its report, and its id is
\* among seen_ids, which is what makes the duplicate check complete.
SetTypeOK ==
  /\ step \in {"load", "schema", "shape", "trust", "entries", "linkage", "returned", "raised"}
  /\ at \in 1 .. (Len(workflow.entries) + 1)
  /\ manifest_integrity \in BOOLEAN /\ receipt_linkage_valid \in BOOLEAN
  /\ Len(receipts) = Len(reports)
  /\ \A i \in DOMAIN receipts : receipts[i].rid \in seen_ids
  /\ status \in {None, 0, 1}

\* The entries whose receipt the index can vouch for: first use of a safe
\* path, file present with the listed digest, and holding an object.
Sound(i) ==
  LET es == workflow.entries IN
  /\ es[i].object /\ es[i].safe /\ es[i].file = "object"
  /\ \A j \in DOMAIN es : j < i /\ es[j].object /\ es[j].safe => es[j].path # es[i].path

ReceiptAt(i) == workflow.entries[i].receipt

\* Exit 0 means the whole index was good: every entry was sound, none was
\* dropped, every receipt passed on its own, ids are unique, and every
\* outcome refers to an admission of the set with its logical_call_id,
\* wherever in the list it stands (verify_receipt_set, receipts_valid and
\* passed).
SetPassSound ==
  status = 0 =>
    LET es == workflow.entries IN
    /\ Len(es) > 0 /\ Len(reports) = Len(es)
    /\ \A i \in DOMAIN es : Sound(i) /\ ReceiptAt(i).verdict = "pass"
    /\ \A i, j \in DOMAIN es : ReceiptAt(i).rid = ReceiptAt(j).rid => i = j
    /\ \A i \in DOMAIN es : ReceiptAt(i).kind = "outcome" =>
         \E j \in DOMAIN es : /\ ReceiptAt(j).rid = ReceiptAt(i).ref
                              /\ ReceiptAt(j).kind = "admission"
                              /\ ReceiptAt(j).call = ReceiptAt(i).call

\* The receipts the index can vouch for, at the positions of their entries.
Found == [i \in {j \in DOMAIN workflow.entries : Sound(j)} |-> ReceiptAt(i)]

LinkageFindings ==
  UNION {{<<c, Found[i].rid>> : c \in LinkageCodes(Found, i)} : i \in DOMAIN Found}

\* The linkage findings of a returned report are the ones ReceiptLinkage
\* defines on the sound receipts of the index, so the dictionary, the
\* first-wins skip and the order of the entries make no difference.
LinkageAsDefined ==
  step = "returned" /\ workflow.readable /\ workflow.schema = "supported"
    /\ workflow.shape_valid /\ workflow.trust_intact
  => {f \in findings : f[1] \in LinkageErrors} = LinkageFindings

=============================================================================
