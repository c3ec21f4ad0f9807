------------------------- MODULE IngestRunSequence -------------------------
(***************************************************************************)
(* arcs_verify/ingest_run_sequence.py: a run document, a receipt-set       *)
(* manifest, the receipts it enumerates and a profile manifest, four       *)
(* artifacts on disk that main checks for, verify_ingest_run_sequence      *)
(* opens later one by one, and that may be edited before and removed while *)
(* it works.                                                               *)
(*                                                                         *)
(* Ids, subjects, paths and run ids are numbers, 0 being a missing or      *)
(* unusable member.  A file removed keeps its former members in the model, *)
(* so that what was read of it can still be named.                         *)
(***************************************************************************)
EXTENDS SequenceCommand, Sequences, FiniteSets

CONSTANTS
  Produced,            \* the disks an ingest run may leave behind (external)
  Edited(_)            \* the disks one alteration away from a disk (external)

IsObject(x) == x.object

\* emitted_entries: items that are no objects are dropped without a finding.
Entries(m) == IF m.emitted_is_list THEN SelectSeq(m.emitted, IsObject) ELSE <<>>

\* The members of a receipt file that are compared.
ReceiptMembers ==
  {"protocol_binding", "receipt_id", "subject_ref", "publication_artifact_id", "relative_path",
   "corpus_manifest_ref", "raw", "excluded"}

\* The shape of the files: the members the verifier asks for are there, 0
\* when missing, the emitted entries are listed, and every id has a file,
\* if an absent one.
IsDisk(d) ==
  /\ {"run_doc", "manifest", "profile", "receipts_dir", "receipts"} \subseteq DOMAIN d
  /\ {"form", "run_id", "occurrences"} \subseteq DOMAIN d.run_doc
  /\ {"form", "run_id", "emitted_is_list", "emitted", "skip"} \subseteq DOMAIN d.manifest
  /\ \A id \in DOMAIN d.receipts : ReceiptMembers \subseteq DOMAIN d.receipts[id]
  /\ Len(Entries(d.manifest)) \in Nat /\ DOMAIN Entries(d.manifest) = 1 .. Len(Entries(d.manifest))
  /\ \A k \in DOMAIN Entries(d.manifest) : Entries(d.manifest)[k].receipt_id \in DOMAIN d.receipts \cup {0}

ASSUME ProducedAssumption == \A d \in Produced : IsDisk(d)

VARIABLES
  disk,                \* run_doc, manifest, profile, receipts_dir, receipts
  i,                   \* the emitted entry being looked at
  broken,              \* per-receipt conclusions whose flag has been cleared
  findings             \* the report's finding codes

vars == <<disk, faults, pc, i, broken, concl, findings, exit>>

Core ==
  {"run_doc_schema", "boundary_declarations", "receipt_set_manifest_schema", "run_id_linkage",
   "profile_manifest_pin", "profile_manifest_authority"}

Binding ==
  {"protocol_binding", "receipt_id_binding", "subject_ref_manifest", "subject_binding",
   "rel_path_binding", "corpus_manifest_ref", "raw_content_absent", "artifact_classes_excluded"}

PerReceipt == {"receipt_file_present", "receipt_parse"} \cup Binding

Coverage == {"occurrence_accounting", "duplicate_posture", "null_parser_posture"}

Conclusions == Core \cup PerReceipt \cup Coverage

SkipKeys == {"skipped_duplicate", "skipped_no_parser", "profile_not_applicable"}

\* The property `passed' of the report.
Passed(c) == (\A n \in Core : c[n] = "true") /\ (\A n \in PerReceipt \cup Coverage : c[n] # "false")

Init ==
  /\ disk \in Produced /\ faults = 0 /\ pc = "edit" /\ i = 1 /\ broken = {}
  /\ concl = [n \in Conclusions |-> "not_evaluated"] /\ findings = {} /\ exit = -1

----------------------------------------------------------------------------
(* What happens to the files.                                              *)

report == <<i, broken, concl, findings, exit>>

Edit ==
  /\ pc = "edit" /\ faults < MaxFaults
  /\ disk' \in Edited(disk) /\ IsDisk(disk') /\ faults' = faults + 1
  /\ UNCHANGED <<pc, report>>

Submit == pc = "edit" /\ pc' = "main" /\ UNCHANGED <<disk, faults, report>>

\* Another process removes a file while the verifier works.
RemoveFile ==
  /\ pc \notin {"edit", "done", "raised"} /\ faults < MaxFaults /\ faults' = faults + 1
  /\ \/ \E f \in {"run_doc", "manifest", "profile"} :
          disk[f].form # "absent" /\ disk' = [disk EXCEPT ![f].form = "absent"]
     \/ \E id \in DOMAIN disk.receipts :
          /\ disk.receipts[id].form # "absent"
          /\ disk' = [disk EXCEPT !.receipts[id].form = "absent"]
  /\ UNCHANGED <<pc, report>>

----------------------------------------------------------------------------
(* The verifier.                                                           *)

Unusable(f) == f.form \in {"absent", "unreadable", "malformed", "not_object"}

Conclude(holds) ==
  [n \in Conclusions |->
     IF n \in DOMAIN holds THEN (IF holds[n] THEN "true" ELSE "false") ELSE concl[n]]

\* An exception nobody catches: bytes that are not UTF-8, a member that
\* cannot be iterated or hashed.
Raise == pc' = "raised" /\ exit' = 1 /\ UNCHANGED <<disk, faults, i, broken, concl, findings>>

\* _propagate_false_early and _propagate_false_on_missing_manifest
StopEarly(code) ==
  /\ findings' = findings \cup {code}
  /\ concl' = [n \in Conclusions |-> IF concl[n] = "not_evaluated" THEN "false" ELSE concl[n]]
  /\ End(1) /\ UNCHANGED <<disk, faults, i, broken>>

\* main looks for the four paths before anything is opened.
CheckPaths ==
  /\ pc = "main"
  /\ IF disk.receipts_dir /\ \A f \in {"run_doc", "manifest", "profile"} : disk[f].form # "absent"
       THEN pc' = "run_doc" /\ UNCHANGED exit
       ELSE End(2)
  /\ UNCHANGED <<disk, faults, i, broken, concl, findings>>

Failing(holds, code) == {code[n] : n \in {m \in DOMAIN holds : ~holds[m]}}

RunDocHolds(d) == [run_doc_schema |-> d.schema, boundary_declarations |-> d.boundary]

RunDocCode ==
  [run_doc_schema |-> "INGEST_RUN_SCHEMA_MISMATCH",
   boundary_declarations |-> "INGEST_RUN_BOUNDARY_VIOLATION"]

ReadRunDoc ==
  /\ pc = "run_doc"
  /\ LET d == disk.run_doc IN
       CASE Unusable(d) -> StopEarly("INGEST_RUN_SCHEMA_MISMATCH")
         [] d.form = "not_utf8" -> Raise
         [] OTHER -> /\ concl' = Conclude(RunDocHolds(d))
                     /\ findings' = findings \cup Failing(RunDocHolds(d), RunDocCode)
                     /\ pc' = "manifest"
                     /\ UNCHANGED <<disk, faults, i, broken, exit>>

ManifestHolds(d, m) ==
  [receipt_set_manifest_schema |-> m.schema /\ m.emitted_is_list,
   run_id_linkage |-> d.run_id = m.run_id]

ManifestCode ==
  [receipt_set_manifest_schema |-> "RECEIPT_SET_MANIFEST_SCHEMA_MISMATCH",
   run_id_linkage |-> "RUN_ID_MISMATCH"]

ReadManifest ==
  /\ pc = "manifest"
  /\ LET m == disk.manifest IN
       CASE Unusable(m) -> StopEarly("RECEIPT_SET_MANIFEST_SCHEMA_MISMATCH")
         [] m.form = "not_utf8" -> Raise
         [] OTHER -> /\ concl' = Conclude(ManifestHolds(disk.run_doc, m))
                     /\ findings' = findings \cup Failing(ManifestHolds(disk.run_doc, m), ManifestCode)
                     /\ pc' = "profile"
                     /\ UNCHANGED <<disk, faults, i, broken, exit>>

\* The digest is recomputed from the bytes of the profile manifest; the
\* declared one must also be the pinned production digest.
ProfileHolds(m, p) ==
  [profile_manifest_pin |-> p.form \notin {"absent", "unreadable"} /\ p.bytes = m.sha256,
   profile_manifest_authority |-> m.sha256 = "production"]

ProfileCode ==
  [profile_manifest_pin |-> "PROFILE_MANIFEST_PIN_MISMATCH",
   profile_manifest_authority |-> "PROFILE_MANIFEST_AUTHORITY_MISMATCH"]

ReadProfile ==
  /\ pc = "profile" /\ pc' = "receipt"
  /\ LET holds == ProfileHolds(disk.manifest, disk.profile) IN
       concl' = Conclude(holds) /\ findings' = findings \cup Failing(holds, ProfileCode)
  /\ UNCHANGED <<disk, faults, i, broken, exit>>

----------------------------------------------------------------------------
entry == Entries(disk.manifest)[i]

SkipEntry(conclusion, code) ==
  /\ broken' = broken \cup {conclusion} /\ findings' = findings \cup {code}
  /\ i' = i + 1 /\ pc' = "receipt" /\ UNCHANGED <<disk, faults, concl, exit>>

\* is_file on <receipt_id>.json, never on the entry's output_path.
ResolveReceipt ==
  /\ pc = "receipt" /\ i <= Len(Entries(disk.manifest))
  /\ IF entry.receipt_id = 0 \/ disk.receipts[entry.receipt_id].form = "absent"
       THEN SkipEntry("receipt_file_present", "RECEIPT_FILE_MISSING")
       ELSE pc' = "parse" /\ UNCHANGED <<disk, faults, report>>

\* Mutant: the receipt is compared with itself where the entry is meant.
BindingHoldsNoEntry(e, r, run_id) ==
  [protocol_binding |-> r.protocol_binding,
   receipt_id_binding |-> r.receipt_id = e.receipt_id,
   subject_ref_manifest |-> r.subject_ref = r.publication_artifact_id,
   subject_binding |-> r.subject_ref = r.publication_artifact_id,
   rel_path_binding |-> r.relative_path = e.rel_path,
   corpus_manifest_ref |-> r.corpus_manifest_ref = run_id,
   raw_content_absent |-> ~r.raw,
   artifact_classes_excluded |-> r.excluded = "complete"]

BindingHolds(e, r, run_id) ==
  [protocol_binding |-> r.protocol_binding,
   receipt_id_binding |-> r.receipt_id = e.receipt_id,
   subject_ref_manifest |-> r.subject_ref = e.subject_ref,
   subject_binding |-> r.subject_ref = r.publication_artifact_id,
   rel_path_binding |-> r.relative_path = e.rel_path,
   corpus_manifest_ref |-> r.corpus_manifest_ref = run_id,
   raw_content_absent |-> ~r.raw,
   artifact_classes_excluded |-> r.excluded = "complete"]

BindingCode ==
  [protocol_binding |-> "PROTOCOL_BINDING_MISMATCH", receipt_id_binding |-> "RECEIPT_ID_MISMATCH",
   subject_ref_manifest |-> "SUBJECT_REF_MANIFEST_MISMATCH",
   subject_binding |-> "SUBJECT_BINDING_MISMATCH", rel_path_binding |-> "REL_PATH_MISMATCH",
   corpus_manifest_ref |-> "CORPUS_MANIFEST_REF_MISMATCH",
   raw_content_absent |-> "RAW_CONTENT_PRESENT",
   artifact_classes_excluded |-> "MISSING_REQUIRED_EXCLUSION"]

ReadReceipt ==
  /\ pc = "parse"
  /\ LET r == disk.receipts[entry.receipt_id]
         holds == BindingHolds(entry, r, disk.run_doc.run_id)
     IN CASE Unusable(r) -> SkipEntry("receipt_parse", "RECEIPT_PARSE_ERROR")
          [] r.form = "not_utf8" \/ (r.form = "object" /\ r.excluded = "unhashable") -> Raise
          [] OTHER -> /\ broken' = broken \cup {n \in Binding : ~holds[n]}
                      /\ findings' = findings \cup Failing(holds, BindingCode)
                      /\ i' = i + 1 /\ pc' = "receipt"
                      /\ UNCHANGED <<disk, faults, concl, exit>>

\* With no emitted entry the per-receipt conclusions stay as they are.
ConcludeReceipts ==
  /\ pc = "receipt" /\ i > Len(Entries(disk.manifest)) /\ pc' = "coverage"
  /\ concl' = IF Entries(disk.manifest) = <<>> THEN concl
              ELSE Conclude([n \in PerReceipt |-> n \notin broken])
  /\ UNCHANGED <<disk, faults, i, broken, findings, exit>>

----------------------------------------------------------------------------
\* Mutant: the last skip category is forgotten.
SkipSetTwoKeys(m, key) ==
  IF key # "profile_not_applicable" /\ m.skip[key].form \in {"strings", "mixed"}
    THEN m.skip[key].paths ELSE {}

\* skip_sets: of a list with other items the strings count, a number cannot
\* be iterated.
SkipSet(m, key) == IF m.skip[key].form \in {"strings", "mixed"} THEN m.skip[key].paths ELSE {}

SkipListsOk(m) == \A key \in SkipKeys : m.skip[key].form = "strings"

EmittedPaths(m) == {Entries(m)[k].rel_path : k \in DOMAIN Entries(m)} \ {0}

Categories(m, rel) ==
  {key \in SkipKeys : rel \in SkipSet(m, key)}
    \cup (IF rel \in EmittedPaths(m) THEN {"emitted"} ELSE {})

Occurrences(d) == {d.occurrences[k] : k \in {j \in DOMAIN d.occurrences : d.occurrences[j].object}}

Named(d) == {o \in Occurrences(d) : o.rel_path # 0}

\* Mutant: an occurrence in two categories is accounted for.
CoverageHoldsTwice(d, m) ==
  [occurrence_accounting |->
     SkipListsOk(m) /\ \A o \in Occurrences(d) :
                         o.rel_path # 0 /\ Categories(m, o.rel_path) # {},
   duplicate_posture |->
     \A o \in Named(d) : o.duplicate => "emitted" \notin Categories(m, o.rel_path),
   null_parser_posture |->
     \A o \in Named(d) : ~o.parser => "emitted" \notin Categories(m, o.rel_path)]

CoverageHolds(d, m) ==
  [occurrence_accounting |->
     SkipListsOk(m) /\ \A o \in Occurrences(d) :
                         o.rel_path # 0 /\ Cardinality(Categories(m, o.rel_path)) = 1,
   duplicate_posture |->
     \A o \in Named(d) : o.duplicate => "emitted" \notin Categories(m, o.rel_path),
   null_parser_posture |->
     \A o \in Named(d) : ~o.parser => "emitted" \notin Categories(m, o.rel_path)]

CoverageCodes(d, m) ==
  LET holds == CoverageHolds(d, m)
      none == \E o \in Occurrences(d) : o.rel_path = 0 \/ Categories(m, o.rel_path) = {}
      several == \E o \in Named(d) : Cardinality(Categories(m, o.rel_path)) > 1
  IN (IF ~SkipListsOk(m) \/ several THEN {"SKIP_CATEGORY_MALFORMED"} ELSE {})
       \cup (IF none THEN {"OCCURRENCE_NOT_ACCOUNTED"} ELSE {})
       \cup (IF holds.duplicate_posture THEN {} ELSE {"DUPLICATE_POSTURE_VIOLATION"})
       \cup (IF holds.null_parser_posture THEN {} ELSE {"NULL_PARSER_POSTURE_VIOLATION"})

CheckCoverage ==
  /\ pc = "coverage"
  /\ LET d == disk.run_doc
         m == disk.manifest
     IN IF \E key \in SkipKeys : m.skip[key].form = "scalar" THEN Raise
        ELSE /\ concl' = IF d.occurrences = <<>> THEN concl ELSE Conclude(CoverageHolds(d, m))
             /\ findings' = findings \cup CoverageCodes(d, m)
             /\ End(IF Passed(concl') THEN 0 ELSE 1)
             /\ UNCHANGED <<disk, faults, i, broken>>

Verify ==
  CheckPaths \/ ReadRunDoc \/ ReadManifest \/ ReadProfile \/ ResolveReceipt \/ ReadReceipt
    \/ ConcludeReceipts \/ CheckCoverage

Next == Edit \/ Submit \/ RemoveFile \/ Verify

Spec == Init /\ [][Next]_vars

----------------------------------------------------------------------------
(* What is checked.                                                        *)

Ended == pc \in {"done", "raised"}

TypeOK ==
  /\ pc \in {"edit", "main", "run_doc", "manifest", "profile", "receipt", "parse", "coverage",
              "done", "raised"}
  /\ concl \in [Conclusions -> {"true", "false", "not_evaluated"}]
  /\ broken \subseteq PerReceipt
  /\ i \in 1 .. Len(Entries(disk.manifest)) + 1
  /\ faults \in 0 .. MaxFaults
  /\ exit \in -1 .. 2 /\ (exit = -1 <=> ~Ended)
  /\ exit = 0 => Passed(concl)

\* The artifacts an ingest run leaves behind pass untouched, whatever the
\* mixture of unique, duplicate, unparsable and inapplicable files: the six
\* linkage checks, the receipt checks and the coverage checks agree on what
\* the producer does.
HonestRunPasses == Ended /\ faults = 0 => exit = 0 /\ findings = {}

\* Exit 0 ties run document, manifest and receipt files into one run, however
\* files were edited, exchanged or removed meanwhile: every entry's own file
\* was there, names the entry's id, path and subject, and the run that both
\* documents name.
PassMeansLinked ==
  exit = 0 =>
    /\ disk.run_doc.run_id = disk.manifest.run_id
    /\ \A k \in DOMAIN Entries(disk.manifest) :
         LET e == Entries(disk.manifest)[k]
             r == disk.receipts[e.receipt_id]
         IN /\ e.receipt_id # 0 /\ r.receipt_id = e.receipt_id
            /\ r.relative_path = e.rel_path /\ r.subject_ref = e.subject_ref
            /\ r.publication_artifact_id = e.subject_ref
            /\ r.corpus_manifest_ref = disk.manifest.run_id

\* Exit 0 answers every file occurrence once: it is in one skip list and no
\* receipt of the set is about its path, or it is unique, was parsed, and a
\* receipt file of this run is about its path.
OccurrencesAnswered ==
  exit = 0 =>
    \A o \in Occurrences(disk.run_doc) :
      LET m == disk.manifest
          about == {k \in DOMAIN Entries(m) :
                      disk.receipts[Entries(m)[k].receipt_id].relative_path = o.rel_path}
          skipped == {key \in SkipKeys : o.rel_path \in m.skip[key].paths}
      IN \/ about = {} /\ Cardinality(skipped) = 1
         \/ about # {} /\ skipped = {} /\ ~o.duplicate /\ o.parser

=============================================================================
